---------------------------- MODULE ProfileExecutor ----------------------------
(***************************************************************************)
(* audio/a2b/Profile.cpp: execute() runs the operations of a phase on the   *)
(* A2B bus and verifyNodes() reads who is there.  The main node has an      *)
(* address of its own; everything behind it shares one, and the registers   *)
(* NODEADR of the main node and CHIP of each node decide which device       *)
(* answers there.  The controller serializes the calls.  A transfer may     *)
(* fail with or without effect, and the process may die between any two:    *)
(* the registers keep what was written last.                                *)
(***************************************************************************)
EXTENDS Integers, Sequences, FiniteSets

CONSTANTS NodeCount,    \* nodes of the profile; node 0 is the nearest
          Addresses,    \* addresses of peripherals behind a node
          Operations,   \* what a profile's sequences are made of
          MaxOperations,\* length of a sequence
          PollStep      \* longest pause between two reads of a poll

Nodes == 0 .. NodeCount - 1

\* What a name stands for: the main node, node n, or an address behind node n.
Targets == [kind : {"main", "node", "peripheral"}, node : Nodes, address : Addresses]

ASSUME TargetsAssumption ==
  /\ NodeCount \in Nat \ {0}
  /\ Addresses \subseteq 8 .. 119

\* ms is the length of a delay or the timeout of a poll.
ASSUME OperationsAssumption ==
  /\ Operations \subseteq [op : {"write", "update", "verify", "poll", "delay"},
                           target : Targets,
                           reg : {"NODEADR", "CHIP", "other"}, ms : Nat]
  /\ MaxOperations \in Nat /\ PollStep \in Nat \ {0}

VARIABLES
  phase, ops,    \* the call in progress: a phase, or "verifyNodes"
  index,         \* the operation, or the node being identified
  pc,            \* where the call is
  ok, allOk,
  left,          \* time to the deadline of a poll
  nodeadr,       \* NODEADR: the selected node and the PERI bit
  chip           \* CHIP of each node, 0 before it was written

(* What is observed but kept by no variable of the code. *)
VARIABLES
  failed,        \* the operations of the call that failed
  waited         \* the time this operation has asked to wait

routing == <<nodeadr, chip>>
vars == <<phase, ops, index, pc, ok, allOk, left, routing, failed, waited>>

Op == ops[index]

Cleared == [node |-> 0, peri |-> FALSE]

Init ==
  /\ phase = "init" /\ ops = <<>> /\ index = 1 /\ pc = "idle"
  /\ ok = TRUE /\ allOk = TRUE /\ left = 0
  /\ nodeadr = Cleared /\ chip = [n \in Nodes |-> 0]
  /\ failed = {} /\ waited = 0

-----------------------------------------------------------------------------
(* parseProfile(): what it lets into a sequence. *)

Phases == {"init", "mute", "unmute", "shutdown", "health"}

Writes(o) == o.op \in {"write", "update"}

RoutingRegister(o) == \/ o.target.kind = "main" /\ o.reg = "NODEADR"
                      \/ o.target.kind = "node" /\ o.reg = "CHIP"

\* Mutant: a profile may write the routing registers.
NotReserved(o) == FALSE

\* NODEADR/CHIP routing is owned by the executor.
OwnedByExecutor(o) == Writes(o) /\ RoutingRegister(o)

Accepted(ph, o) == (ph = "health" => o.op = "verify") /\ ~OwnedByExecutor(o)

Sequences(ph) == UNION {[1 .. n -> {o \in Operations : Accepted(ph, o)}] :
                          n \in 1 .. MaxOperations}

-----------------------------------------------------------------------------
(* Transfers. *)

\* A write to NODEADR that is reported as done or as failed.
WriteNodeadr(value, done) == /\ UNCHANGED chip
                             /\ \/ nodeadr' = value
                                \/ ~done /\ UNCHANGED nodeadr

\* Mutant: the address behind a node is written once.
WriteChipOnce(t, done) ==
  /\ UNCHANGED nodeadr
  /\ chip' = [chip EXCEPT ![t.node] = IF @ = 0 THEN t.address ELSE @]

WriteChip(t, done) ==
  /\ UNCHANGED nodeadr
  /\ \/ chip' = [chip EXCEPT ![t.node] = t.address]
     \/ ~done /\ UNCHANGED chip

\* Writing a routing register reroutes; no other access does.
Touches(o) ==
  IF ~(Writes(o) /\ RoutingRegister(o)) THEN UNCHANGED routing
  ELSE IF o.target.kind = "main"
    THEN nodeadr' \in [node : Nodes, peri : BOOLEAN] /\ UNCHANGED chip
    ELSE UNCHANGED nodeadr /\ \E a \in Addresses : chip' = [chip EXCEPT ![o.target.node] = a]

\* Mutant: select() goes on after a failed transfer.
AfterAny(done, next) == pc' = next /\ ok' = TRUE

\* A step of an operation leads to the next one, or to the cleanup.
After(done, next) == pc' = (IF done THEN next ELSE "restore") /\ ok' = done

-----------------------------------------------------------------------------
(* execute() *)

Start(ph, s) ==
  /\ pc \in {"idle", "returned"}
  /\ phase' = ph /\ ops' = s /\ index' = 1 /\ pc' = "next"
  /\ ok' = TRUE /\ allOk' = TRUE /\ left' = 0 /\ failed' = {} /\ waited' = 0
  /\ UNCHANGED routing

\* The next operation; a delay is over at once, the main node needs no routing.
Begin ==
  /\ pc = "next" /\ index <= Len(ops)
  /\ ok' = TRUE
  /\ left' = IF Op.op = "poll" THEN Op.ms ELSE 0
  /\ waited' = IF Op.op = "delay" THEN Op.ms ELSE 0
  /\ pc' = IF Op.op = "delay" THEN "restore"
           ELSE IF Op.target.kind = "main" THEN "access" ELSE "node"
  /\ UNCHANGED <<phase, ops, index, allOk, routing, failed>>

SelectNode ==
  /\ pc = "node"
  /\ \E done \in BOOLEAN :
       /\ WriteNodeadr([node |-> Op.target.node, peri |-> FALSE], done)
       /\ After(done, IF Op.target.kind = "node" THEN "access" ELSE "chip")
  /\ UNCHANGED <<phase, ops, index, allOk, left, failed, waited>>

SelectChip ==
  /\ pc = "chip"
  /\ \E done \in BOOLEAN : WriteChip(Op.target, done) /\ After(done, "peri")
  /\ UNCHANGED <<phase, ops, index, allOk, left, failed, waited>>

SelectPeripheral ==
  /\ pc = "peri"
  /\ \E done \in BOOLEAN :
       /\ WriteNodeadr([node |-> Op.target.node, peri |-> TRUE], done)
       /\ After(done, "access")
  /\ UNCHANGED <<phase, ops, index, allOk, left, failed, waited>>

\* The register was written, or read as wanted, or not.
Access ==
  /\ pc = "access"
  /\ Touches(Op)
  /\ \E done \in BOOLEAN : /\ Op.op = "poll" => done
                           /\ After(done, "restore")
  /\ UNCHANGED <<phase, ops, index, allOk, left, failed, waited>>

PollReadFails ==
  /\ pc = "access" /\ Op.op = "poll"
  /\ After(FALSE, "access")
  /\ UNCHANGED <<phase, ops, index, allOk, left, routing, failed, waited>>

Pause(remaining) == IF remaining < PollStep THEN remaining ELSE PollStep

\* The value is not the wanted one yet; the read took left - remaining.
PollNotYet(remaining) ==
  /\ pc = "access" /\ Op.op = "poll"
  /\ remaining <= left
  /\ IF remaining <= 0
       THEN left' = 0 /\ After(FALSE, "access") /\ UNCHANGED waited
       ELSE /\ waited' = waited + Pause(remaining)
            /\ left' = remaining - Pause(remaining)
            /\ UNCHANGED <<pc, ok>>
  /\ UNCHANGED <<phase, ops, index, allOk, routing, failed>>

\* Mutant: mute stops at the first failure.
MuteStops == phase = "shutdown"

GoesOn == phase \in {"shutdown", "mute"}

\* Mutant: a failed operation is tried again.
RetryOperation == index' = (IF ok THEN index + 1 ELSE index) /\ pc' = "next"

NextOperation == index' = index + 1 /\ pc' = "next"

RestoreRouting(restored) ==
  IF Op.op = "delay" \/ Op.target.kind = "main"
    THEN restored /\ UNCHANGED routing
    ELSE WriteNodeadr(Cleared, restored)

\* PERI must never leak into a later command, even after an I2C error.
Restore ==
  /\ pc = "restore"
  /\ \E restored \in BOOLEAN :
       /\ RestoreRouting(restored)
       /\ IF ok /\ restored THEN NextOperation /\ UNCHANGED <<allOk, failed>>
          ELSE /\ allOk' = FALSE /\ failed' = failed \cup {index}
               /\ IF GoesOn THEN NextOperation ELSE pc' = "returned" /\ UNCHANGED index
  /\ UNCHANGED <<phase, ops, ok, left, waited>>

Return ==
  /\ pc = "next" /\ index > Len(ops)
  /\ pc' = "returned"
  /\ UNCHANGED <<phase, ops, index, ok, allOk, left, routing, failed, waited>>

-----------------------------------------------------------------------------
(* verifyNodes() *)

StartVerify ==
  /\ pc \in {"idle", "returned"}
  /\ phase' = "verifyNodes" /\ ops' = <<>> /\ index' = 0 /\ pc' = "identify"
  /\ ok' = TRUE /\ allOk' = TRUE /\ left' = 0 /\ failed' = {} /\ waited' = 0
  /\ UNCHANGED routing

VerifySelect ==
  /\ pc = "identify"
  /\ \E done \in BOOLEAN :
       /\ WriteNodeadr([node |-> index, peri |-> FALSE], done)
       /\ pc' = (IF done THEN "identity" ELSE "clear") /\ ok' = done
  /\ UNCHANGED <<phase, ops, index, allOk, left, failed, waited>>

\* The vendor and the product are the profile's, or not.
VerifyRead ==
  /\ pc = "identity"
  /\ \E same \in BOOLEAN :
       /\ ok' = same
       /\ IF same /\ index + 1 \in Nodes
            THEN pc' = "identify" /\ index' = index + 1
            ELSE pc' = "clear" /\ UNCHANGED index
  /\ UNCHANGED <<phase, ops, allOk, left, routing, failed, waited>>

VerifyClear ==
  /\ pc = "clear"
  /\ \E restored \in BOOLEAN :
       /\ WriteNodeadr(Cleared, restored)
       /\ allOk' = (ok /\ restored)
  /\ pc' = "returned"
  /\ UNCHANGED <<phase, ops, index, ok, left, failed, waited>>

\* The HAL process dies and another one takes over the bus as it is.
Crash ==
  /\ pc # "idle"
  /\ pc' = "idle"
  /\ UNCHANGED <<phase, ops, index, ok, allOk, left, routing, failed, waited>>

-----------------------------------------------------------------------------

Execute == \/ Begin \/ SelectNode \/ SelectChip \/ SelectPeripheral
           \/ Access \/ PollReadFails \/ \E r \in 0 .. left : PollNotYet(r)
           \/ Restore \/ Return

VerifyNodes == VerifySelect \/ VerifyRead \/ VerifyClear

Next == \/ \E ph \in Phases : \E s \in Sequences(ph) : Start(ph, s)
        \/ StartVerify
        \/ Execute \/ VerifyNodes
        \/ Crash

Spec == Init /\ [][Next]_vars

\* A transfer and a delay return.
FairSpec == Spec /\ WF_vars(Execute \/ VerifyNodes)

-----------------------------------------------------------------------------
(* Properties. *)

Busy == pc \notin {"idle", "returned"}

\* The types of the variables and where a call can be.
TypeOK ==
  /\ phase \in Phases \cup {"verifyNodes"}
  /\ ops \in Seq(Operations)
  /\ index \in Nat
  /\ pc \in {"idle", "returned", "next", "node", "chip", "peri", "access", "restore",
             "identify", "identity", "clear"}
  /\ ok \in BOOLEAN /\ allOk \in BOOLEAN
  /\ left \in Nat /\ waited \in Nat
  /\ nodeadr \in [node : Nodes, peri : BOOLEAN]
  /\ chip \in [Nodes -> Addresses \cup {0}]
  /\ failed \subseteq 1 .. Len(ops)
  /\ pc \in {"node", "chip", "peri", "access", "restore"} => index \in 1 .. Len(ops)
  /\ pc \in {"identify", "identity"} => index \in Nodes

\* The device of target is the one that answers at the address execute() uses.
Answers(target) ==
  /\ target.kind = "node" => nodeadr = [node |-> target.node, peri |-> FALSE]
  /\ target.kind = "peripheral" => /\ nodeadr = [node |-> target.node, peri |-> TRUE]
                                  /\ chip[target.node] = target.address

\* Every register access of an operation, and every identity read, reaches the
\* device it names and no other, whatever failed or crashed before it.
AccessReachesTarget ==
  /\ pc = "access" => Answers(Op.target)
  /\ pc = "identity" => nodeadr = [node |-> index, peri |-> FALSE]

UsedRouting ==
  \/ phase = "verifyNodes"
  \/ \E i \in 1 .. Len(ops) : ops[i].op # "delay" /\ ops[i].target.kind # "main"

\* When a call that used the routing returns success the routing is cleared; when
\* it is left behind, the call failed (Profile.h: "Always clears PERI and
\* broadcast selection, including on a failed peripheral access").
RoutingClearedOrReported ==
  pc = "returned" /\ allOk /\ UsedRouting => nodeadr = Cleared

\* A call reports success exactly when no operation failed; mute and shutdown go
\* through all their operations even so, the other phases end at the first failure.
EveryOperationTried ==
  pc = "returned" /\ phase # "verifyNodes" =>
    /\ allOk <=> failed = {}
    /\ allOk \/ phase \in {"mute", "shutdown"} => index = Len(ops) + 1
    /\ ~allOk /\ phase \notin {"mute", "shutdown"} => failed = {index}

\* The result of a call is true of its operations and of the routing it leaves.
ResultIsTrue == RoutingClearedOrReported /\ EveryOperationTried

\* A poll never waits longer than its timeout: the ten seconds parseProfile()
\* grants a sequence bound what execute() waits.
WaitsWithinTimeout == pc \in {"access", "restore"} => waited <= Op.ms

\* Every call returns, also when all transfers fail.
CallReturns == Busy ~> ~Busy
===============================================================================
