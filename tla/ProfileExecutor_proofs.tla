------------------------ MODULE ProfileExecutor_proofs ------------------------
(* Proofs about ProfileExecutor, for every profile. *)
EXTENDS ProfileExecutor, SequenceTheorems, TLAPS

NeedsRouting(o) == o.op # "delay" /\ o.target.kind # "main"

IsPeripheral == Op.target.kind = "peripheral"

\* What select() has achieved when it is half-way.
Selecting ==
  /\ pc \in {"node", "chip", "peri"} => NeedsRouting(Op)
  /\ pc \in {"chip", "peri"} =>
       IsPeripheral /\ nodeadr = [node |-> Op.target.node, peri |-> FALSE]
  /\ pc = "peri" => chip[Op.target.node] = Op.target.address

\* Which procedure runs, and what it runs.
Running ==
  /\ pc \in {"identify", "identity", "clear"} => phase = "verifyNodes"
  /\ pc \in {"next", "node", "chip", "peri", "access", "restore"} => phase \in Phases
  /\ phase \in Phases => \A i \in 1 .. Len(ops) : ~OwnedByExecutor(ops[i])
  /\ phase \in Phases => index \in 1 .. Len(ops) + 1

\* Between two operations, and in one that needs no routing, it is cleared if it
\* was used and nothing failed.
ClearedBetween ==
  /\ pc \in {"next", "returned"} /\ phase \in Phases /\ allOk =>
       ((\E i \in 1 .. index - 1 : NeedsRouting(ops[i])) => nodeadr = Cleared)
  /\ pc \in {"access", "restore"} /\ allOk /\ ~NeedsRouting(Op) =>
       ((\E i \in 1 .. index - 1 : NeedsRouting(ops[i])) => nodeadr = Cleared)
  /\ pc = "returned" /\ phase = "verifyNodes" /\ allOk => nodeadr = Cleared
  /\ pc = "restore" => (ok \in BOOLEAN)

\* How far the loop came, and what it reports.
Progress ==
  /\ phase \in Phases => (allOk <=> failed = {})
  /\ pc \in {"next", "node", "chip", "peri", "access", "restore"} /\ ~GoesOn => allOk
  /\ pc = "returned" /\ phase \in Phases /\ (allOk \/ GoesOn) => index = Len(ops) + 1
  /\ pc = "returned" /\ phase \in Phases /\ ~allOk /\ ~GoesOn => failed = {index}

IInv == /\ TypeOK /\ Selecting /\ AccessReachesTarget /\ Running
        /\ ClearedBetween /\ Progress

-----------------------------------------------------------------------------

\* A sequence the parser accepted is a sequence of operations that leave the routing
\* registers alone.
LEMMA AcceptedSequence ==
  ASSUME NEW ph \in Phases, NEW s \in Sequences(ph)
  PROVE  s \in Seq(Operations) /\ \A i \in 1 .. Len(s) : ~OwnedByExecutor(s[i])
<1>1. PICK n \in 1 .. MaxOperations : s \in [1 .. n -> {o \in Operations : Accepted(ph, o)}]
  BY DEF Sequences
<1>2. s \in [1 .. n -> Operations] /\ n \in Nat
  BY <1>1, OperationsAssumption
<1>3. s \in Seq(Operations)
  BY <1>2, SeqDef
<1>4. Len(s) = n
  BY <1>2, <1>3, LenProperties
<1> QED
  BY <1>1, <1>3, <1>4 DEF Accepted

LEMMA InitIInv == Init => IInv
<1> SUFFICES ASSUME Init PROVE IInv
  OBVIOUS
<1> USE TargetsAssumption DEF Init, Nodes, Cleared, Phases
<1>1. TypeOK
  <2>1. 0 \in Nodes
    BY DEF Nodes
  <2>2. <<>> \in Seq(Operations) /\ Len(<<>>) = 0
    BY EmptySeq
  <2> QED
    BY <2>1, <2>2 DEF TypeOK
<1>2. Selecting /\ AccessReachesTarget /\ Running
  BY DEF Selecting, AccessReachesTarget, Running
<1>3. ClearedBetween /\ Progress
  BY DEF ClearedBetween, Progress, GoesOn
<1> QED
  BY <1>1, <1>2, <1>3 DEF IInv

\* The current operation is one of the profile's.
LEMMA CurrentOperation ==
  ASSUME TypeOK, index \in 1 .. Len(ops)
  PROVE  /\ Op \in Operations /\ Op.ms \in Nat
         /\ Op.target.node \in Nodes /\ Op.target.address \in Addresses
         /\ Op.target.kind \in {"main", "node", "peripheral"}
<1>1. Op \in Operations
  BY ElementOfSeq DEF TypeOK, Op
<1> QED
  BY <1>1, OperationsAssumption DEF Targets

\* A call starts with everything cleared but the routing.
LEMMA StartStep ==
  ASSUME IInv, NEW ph \in Phases, NEW s \in Sequences(ph), Start(ph, s)
  PROVE  IInv'
<1> USE DEF Start, routing
<1>1. s \in Seq(Operations) /\ \A i \in 1 .. Len(s) : ~OwnedByExecutor(s[i])
  BY AcceptedSequence
<1>2. TypeOK'
  BY <1>1, LenProperties DEF IInv, TypeOK, Phases
<1>3. Selecting' /\ AccessReachesTarget' /\ ClearedBetween'
  BY DEF Selecting, AccessReachesTarget, ClearedBetween
<1>4. Running' /\ Progress'
  BY <1>1, LenProperties DEF Running, Progress, Phases
<1> QED
  BY <1>2, <1>3, <1>4 DEF IInv

LEMMA BeginStep == IInv /\ Begin => IInv'
<1> SUFFICES ASSUME IInv, Begin PROVE IInv'
  OBVIOUS
<1> USE DEF Begin, routing, IInv
<1>0. index \in Nat /\ Len(ops) \in Nat /\ (phase \in Phases)
  BY LenProperties DEF TypeOK, Running
<1>1. index \in 1 .. Len(ops)
  BY <1>0 DEF Running
<1>2. Op \in Operations /\ Op.ms \in Nat /\ Op.target.kind \in {"main", "node", "peripheral"}
  BY <1>1, CurrentOperation
<1>3. TypeOK'
  BY <1>0, <1>1, <1>2 DEF TypeOK
<1>4. Selecting' /\ AccessReachesTarget'
  BY <1>0, <1>1, <1>2 DEF Selecting, AccessReachesTarget, Answers, NeedsRouting, Op
<1>5. Running' /\ Progress'
  BY <1>0 DEF Running, Progress, GoesOn
<1>6. ClearedBetween'
  BY <1>0, <1>2 DEF ClearedBetween, NeedsRouting, Op
<1> QED
  BY <1>3, <1>4, <1>5, <1>6

\* A transfer to NODEADR leaves the old or the new value there.
LEMMA NodeadrWritten ==
  ASSUME TypeOK, NEW n \in Nodes, NEW peri \in BOOLEAN, NEW done \in BOOLEAN,
         WriteNodeadr([node |-> n, peri |-> peri], done)
  PROVE  nodeadr' \in [node : Nodes, peri : BOOLEAN] /\ UNCHANGED chip
<1>1. [node |-> n, peri |-> peri] \in [node : Nodes, peri : BOOLEAN]
  OBVIOUS
<1> QED
  BY <1>1 DEF TypeOK, WriteNodeadr

\* The steps of select().
LEMMA SelectStep ==
  ASSUME IInv, SelectNode \/ SelectChip \/ SelectPeripheral
  PROVE  IInv'
<1> USE DEF SelectNode, SelectChip, SelectPeripheral, IInv
<1>0. index \in 1 .. Len(ops) /\ Len(ops) \in Nat /\ phase \in Phases
  BY LenProperties DEF TypeOK, Running
<1>1. /\ Op.target.node \in Nodes /\ Op.target.address \in Addresses
      /\ Op.target.kind \in {"main", "node", "peripheral"}
  BY <1>0, CurrentOperation
<1>2. Op' = Op
  BY DEF Op
<1>3. TypeOK'
  <2>1. UNCHANGED <<phase, ops, index, allOk, left, failed, waited>>
    OBVIOUS
  <2>2. pc' \in {"access", "chip", "peri", "restore"} /\ ok' \in BOOLEAN
    BY DEF After
  <2>3. nodeadr' \in [node : Nodes, peri : BOOLEAN]
    <3>1. CASE SelectNode \/ SelectPeripheral
      BY <3>1, <1>1, NodeadrWritten
    <3>2. CASE SelectChip
      BY <3>2 DEF WriteChip, TypeOK
    <3> QED
      BY <3>1, <3>2
  <2>4. chip' \in [Nodes -> Addresses \cup {0}]
    BY <1>1 DEF WriteNodeadr, WriteChip, TypeOK
  <2> QED
    BY <1>0, <2>1, <2>2, <2>3, <2>4 DEF TypeOK
<1>4. Selecting' /\ AccessReachesTarget'
  <2>1. CASE SelectNode
    BY <2>1, <1>0, <1>1, <1>2
    DEF Selecting, IsPeripheral, NeedsRouting, AccessReachesTarget, Answers, WriteNodeadr, After
  <2>2. CASE SelectChip
    BY <2>2, <1>0, <1>1, <1>2
    DEF Selecting, IsPeripheral, NeedsRouting, AccessReachesTarget, Answers, WriteChip, After, TypeOK
  <2>3. CASE SelectPeripheral
    BY <2>3, <1>0, <1>1, <1>2
    DEF Selecting, IsPeripheral, NeedsRouting, AccessReachesTarget, Answers, WriteNodeadr, After
  <2> QED
    BY <2>1, <2>2, <2>3
<1>5. Running' /\ Progress'
  BY <1>0 DEF Running, Progress, GoesOn, After
<1>6. ClearedBetween'
  <2>1. NeedsRouting(Op)' /\ pc' \in {"access", "chip", "peri", "restore"} /\ ok' \in BOOLEAN
    BY <1>2 DEF Selecting, NeedsRouting, After
  <2> QED
    BY <2>1 DEF ClearedBetween
<1> QED
  BY <1>3, <1>4, <1>5, <1>6

\* The steps of an access: the routing is left alone.
LEMMA AccessStep ==
  ASSUME IInv,
         Access \/ PollReadFails \/ \E r \in 0 .. left : PollNotYet(r)
  PROVE  IInv'
<1> USE DEF IInv
<1>0. index \in 1 .. Len(ops) /\ Len(ops) \in Nat /\ phase \in Phases /\ pc = "access"
  BY LenProperties DEF TypeOK, Running, Access, PollReadFails, PollNotYet
<1>1. UNCHANGED <<phase, ops, index, allOk, failed>> /\ Op' = Op
  BY DEF Access, PollReadFails, PollNotYet, Op
<1>2. UNCHANGED routing
  <2>1. ~OwnedByExecutor(Op)
    BY <1>0 DEF Running, Op
  <2> QED
    BY <2>1 DEF Access, PollReadFails, PollNotYet, Touches, OwnedByExecutor
<1>3. pc' \in {"access", "restore"} /\ ok' \in BOOLEAN
  BY <1>0 DEF Access, PollReadFails, PollNotYet, After, TypeOK
<1>4. left' \in Nat /\ waited' \in Nat
  <2>1. ASSUME NEW r \in 0 .. left, PollNotYet(r)
        PROVE  left' \in Nat /\ waited' \in Nat
    <3>1. r \in Nat /\ PollStep \in Nat /\ waited \in Nat
      BY OperationsAssumption DEF TypeOK
    <3>2. r > 0 => Pause(r) \in Nat /\ r - Pause(r) \in Nat
      BY <3>1 DEF Pause
    <3>3. CASE r <= 0
      BY <2>1, <3>1, <3>3 DEF PollNotYet
    <3>4. CASE r > 0
      <4>1. waited' = waited + Pause(r) /\ left' = r - Pause(r)
        <5>1. ~(r <= 0)
          BY <3>1, <3>4
        <5> QED
          BY <2>1, <5>1, Zenon DEF PollNotYet
      <4> QED
        BY <4>1, <3>1, <3>2, <3>4
    <3> QED
      BY <3>1, <3>3, <3>4
  <2> QED
    BY <2>1 DEF Access, PollReadFails, TypeOK
<1>5. TypeOK'
  BY <1>0, <1>1, <1>2, <1>3, <1>4 DEF TypeOK, routing
<1>6. Selecting' /\ AccessReachesTarget'
  BY <1>0, <1>1, <1>2, <1>3 DEF Selecting, AccessReachesTarget, Answers, routing
<1>7. Running' /\ Progress'
  BY <1>0, <1>1, <1>3 DEF Running, Progress, GoesOn
<1>8. ClearedBetween'
  BY <1>0, <1>1, <1>2, <1>3 DEF ClearedBetween, routing
<1> QED
  BY <1>5, <1>6, <1>7, <1>8

LEMMA RestoreStep ==
  ASSUME IInv, Restore
  PROVE  IInv'
<1> USE DEF IInv
<1>0. index \in 1 .. Len(ops) /\ Len(ops) \in Nat /\ phase \in Phases /\ pc = "restore"
  BY LenProperties DEF TypeOK, Running, Restore
<1>1. UNCHANGED <<phase, ops, ok, left, waited, chip>>
  BY DEF Restore, RestoreRouting, WriteNodeadr, routing
<1>2. PICK restored \in BOOLEAN :
        /\ RestoreRouting(restored)
        /\ IF ok /\ restored THEN NextOperation /\ UNCHANGED <<allOk, failed>>
           ELSE /\ allOk' = FALSE /\ failed' = failed \cup {index}
                /\ IF GoesOn THEN NextOperation ELSE pc' = "returned" /\ UNCHANGED index
  BY DEF Restore
<1>3. /\ NeedsRouting(Op) /\ restored => nodeadr' = Cleared
      /\ ~NeedsRouting(Op) => restored /\ UNCHANGED nodeadr
      /\ nodeadr' \in {nodeadr, Cleared}
  BY <1>2 DEF RestoreRouting, NeedsRouting, WriteNodeadr, routing
<1>4. pc' \in {"next", "returned"}
  BY <1>2 DEF NextOperation
<1>5. TypeOK'
  <2>1. Cleared \in [node : Nodes, peri : BOOLEAN]
    BY TargetsAssumption DEF Cleared, Nodes
  <2>2. nodeadr' \in [node : Nodes, peri : BOOLEAN]
    BY <1>3, <2>1 DEF TypeOK
  <2>3. index' \in Nat
    BY <1>0, <1>2 DEF NextOperation
  <2>4. failed' \subseteq 1 .. Len(ops)
    BY <1>0, <1>2 DEF TypeOK
  <2>5. allOk' \in BOOLEAN
    BY <1>2 DEF TypeOK
  <2> QED
    BY <1>0, <1>1, <1>4, <2>2, <2>3, <2>4, <2>5 DEF TypeOK
<1>6. Selecting' /\ AccessReachesTarget'
  BY <1>4 DEF Selecting, AccessReachesTarget
<1>7. Running'
  BY <1>0, <1>1, <1>2 DEF Running, NextOperation
<1>9. Progress'
  <2>1. CASE ok /\ restored
    BY <2>1, <1>0, <1>1, <1>2 DEF Progress, GoesOn, NextOperation
  <2>2. CASE ~(ok /\ restored)
    <3>1. allOk' = FALSE /\ failed' = failed \cup {index} /\ failed' # {}
      BY <2>2, <1>2
    <3>2. CASE GoesOn
      BY <2>2, <3>1, <3>2, <1>0, <1>1, <1>2 DEF Progress, GoesOn, NextOperation
    <3>3. CASE ~GoesOn
      <4>1. failed = {}
        BY <3>3, <1>0 DEF Progress
      <4> QED
        BY <2>2, <3>1, <3>3, <4>1, <1>0, <1>1, <1>2 DEF Progress, GoesOn
    <3> QED
      BY <3>2, <3>3
  <2> QED
    BY <2>1, <2>2
<1>8. ClearedBetween'
  <2> SUFFICES ASSUME allOk', \E i \in 1 .. index' - 1 : NeedsRouting(ops[i])
               PROVE  nodeadr' = Cleared
    BY <1>0, <1>1, <1>4 DEF ClearedBetween, Phases
  <2>1. ok /\ restored /\ NextOperation /\ allOk
    BY <1>2
  <2>2. CASE NeedsRouting(Op)
    BY <2>1, <2>2, <1>3
  <2>3. CASE ~NeedsRouting(Op)
    <3>1. \E i \in 1 .. index - 1 : NeedsRouting(ops[i])
      BY <2>1, <2>3, <1>0 DEF NextOperation, Op
    <3> QED
      BY <3>1, <2>1, <2>3, <1>0, <1>3 DEF ClearedBetween
  <2> QED
    BY <2>2, <2>3
<1> QED
  BY <1>5, <1>6, <1>7, <1>8, <1>9

LEMMA ReturnStep ==
  ASSUME IInv, Return
  PROVE  IInv'
<1> USE DEF IInv, Return, routing
<1>0. index = Len(ops) + 1 /\ Len(ops) \in Nat /\ phase \in Phases
  BY LenProperties DEF TypeOK, Running
<1>1. TypeOK' /\ Selecting' /\ AccessReachesTarget'
  BY DEF TypeOK, Selecting, AccessReachesTarget
<1>2. Running' /\ Progress' /\ ClearedBetween'
  BY <1>0 DEF Running, Progress, ClearedBetween, GoesOn, Phases
<1> QED
  BY <1>1, <1>2

\* verifyNodes().
LEMMA VerifyStep ==
  ASSUME IInv, StartVerify \/ VerifyNodes
  PROVE  IInv'
<1> USE DEF IInv, StartVerify, VerifyNodes, VerifySelect, VerifyRead, VerifyClear
<1>0. phase' = "verifyNodes" /\ pc' \in {"identify", "identity", "clear", "returned"}
  BY DEF Running
<1>1. 0 \in Nodes /\ Cleared \in [node : Nodes, peri : BOOLEAN]
  BY TargetsAssumption DEF Cleared, Nodes
<1>2. TypeOK'
  <2>1. <<>> \in Seq(Operations) /\ Nodes \subseteq Nat
    BY EmptySeq, TargetsAssumption DEF Nodes
  <2>2. index' \in Nat /\ (pc' \in {"identify", "identity"} => index' \in Nodes)
    <3>1. CASE StartVerify
      BY <3>1, <1>1
    <3>2. CASE VerifySelect
      BY <3>2 DEF TypeOK
    <3>3. CASE VerifyRead
      BY <3>3, <2>1 DEF TypeOK
    <3>4. CASE VerifyClear
      BY <3>4 DEF TypeOK
    <3> QED
      BY <3>1, <3>2, <3>3, <3>4
  <2>3. nodeadr' \in [node : Nodes, peri : BOOLEAN] /\ UNCHANGED chip
    <3>1. CASE StartVerify \/ VerifyRead
      BY <3>1 DEF TypeOK, routing
    <3>2. CASE VerifySelect
      BY <3>2, NodeadrWritten DEF TypeOK
    <3>3. CASE VerifyClear
      BY <3>3, <1>1 DEF TypeOK, WriteNodeadr
    <3> QED
      BY <3>1, <3>2, <3>3
  <2>4. /\ ops' \in Seq(Operations) /\ failed' \subseteq 1 .. Len(ops')
        /\ ok' \in BOOLEAN /\ allOk' \in BOOLEAN /\ left' \in Nat /\ waited' \in Nat
    <3>1. CASE StartVerify
      BY <3>1, <2>1
    <3>2. CASE VerifySelect \/ VerifyRead
      BY <3>2 DEF TypeOK
    <3>3. CASE VerifyClear
      BY <3>3 DEF TypeOK
    <3> QED
      BY <3>1, <3>2, <3>3
  <2>5. chip' \in [Nodes -> Addresses \cup {0}]
    BY <2>3 DEF TypeOK
  <2> HIDE DEF IInv, StartVerify, VerifyNodes, VerifySelect, VerifyRead, VerifyClear
  <2>6. /\ phase' \in Phases \cup {"verifyNodes"}
        /\ pc' \notin {"node", "chip", "peri", "access", "restore"}
    BY <1>0
  <2> QED
    BY <1>0, <2>2, <2>3, <2>4, <2>5, <2>6 DEF TypeOK
<1>3. Selecting' /\ AccessReachesTarget'
  BY <1>0 DEF Selecting, AccessReachesTarget, WriteNodeadr
<1>4. Running' /\ Progress'
  BY <1>0 DEF Running, Progress, Phases
<1>5. ClearedBetween'
  BY <1>0 DEF ClearedBetween, Phases, WriteNodeadr
<1> QED
  BY <1>2, <1>3, <1>4, <1>5

LEMMA CrashStep ==
  ASSUME IInv, Crash \/ UNCHANGED vars
  PROVE  IInv'
<1> USE DEF IInv, Crash, vars, routing
<1>1. TypeOK' /\ Selecting' /\ AccessReachesTarget'
  BY DEF TypeOK, Selecting, IsPeripheral, AccessReachesTarget, Answers, Op
<1>2. Running' /\ Progress' /\ ClearedBetween'
  BY DEF Running, Progress, ClearedBetween, NeedsRouting, GoesOn, Op
<1> QED
  BY <1>1, <1>2

\* The strengthened invariant holds in every reachable state.
THEOREM Invariance == Spec => []IInv
<1>1. IInv /\ [Next]_vars => IInv'
  BY StartStep, BeginStep, SelectStep, AccessStep, RestoreStep, ReturnStep, VerifyStep, CrashStep
  DEF Next, Execute
<1> QED
  BY <1>1, InitIInv, PTL DEF Spec

\* The registers, the position and the times of a call keep their types.
THEOREM TypeCorrect == Spec => []TypeOK
<1>1. IInv => TypeOK
  BY DEF IInv
<1> QED
  BY <1>1, Invariance, PTL

\* No access of execute() or verifyNodes() reaches another device than the one it
\* names, whatever transfers failed and wherever a process died before.
THEOREM TargetsAreReached == Spec => []AccessReachesTarget
<1>1. IInv => AccessReachesTarget
  BY DEF IInv
<1> QED
  BY <1>1, Invariance, PTL

\* A call that reports success leaves no routing behind.
THEOREM RoutingIsCleared == Spec => []RoutingClearedOrReported
<1>1. IInv => RoutingClearedOrReported
  <2> SUFFICES ASSUME IInv, pc = "returned", allOk, UsedRouting PROVE nodeadr = Cleared
    BY DEF RoutingClearedOrReported
  <2>1. CASE phase = "verifyNodes"
    BY <2>1 DEF IInv, ClearedBetween
  <2>2. CASE phase \in Phases
    <3>1. index = Len(ops) + 1 /\ Len(ops) \in Nat
      BY <2>2, LenProperties DEF IInv, TypeOK, Progress
    <3>2. \E i \in 1 .. index - 1 : NeedsRouting(ops[i])
      BY <2>2, <3>1 DEF UsedRouting, NeedsRouting, Phases
    <3> QED
      BY <2>2, <3>2 DEF IInv, ClearedBetween
  <2> QED
    BY <2>1, <2>2 DEF IInv, TypeOK
<1> QED
  BY <1>1, Invariance, PTL

\* mute and shutdown try every operation; the other phases stop at the first failure
\* and report it.
THEOREM OperationsAreTried == Spec => []EveryOperationTried
<1>1. IInv => EveryOperationTried
  BY DEF IInv, TypeOK, Progress, GoesOn, EveryOperationTried
<1> QED
  BY <1>1, Invariance, PTL

\* Whatever a call returns is true of its operations and of the routing it leaves.
THEOREM ResultsAreTrue == Spec => []ResultIsTrue
  BY RoutingIsCleared, OperationsAreTried, PTL DEF ResultIsTrue
===============================================================================
