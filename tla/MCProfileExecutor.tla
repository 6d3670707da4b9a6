-------------------------- MODULE MCProfileExecutor --------------------------
(* Two nodes; two peripherals share a node and two share an address. *)
EXTENDS ProfileExecutor

MCMain == [kind |-> "main", node |-> 0, address |-> 108]
MCNode(n) == [kind |-> "node", node |-> n, address |-> 108]
MCPeripheral(n, a) == [kind |-> "peripheral", node |-> n, address |-> a]

MCOp(o, t, r) == [op |-> o, target |-> t, reg |-> r, ms |-> 0]
MCTimed(o, t, ms) == [op |-> o, target |-> t, reg |-> "other", ms |-> ms]

\* One operation for each kind of target, and two that parseProfile() refuses.
MCOperations ==
  {MCOp("write", MCMain, "other"), MCOp("write", MCMain, "NODEADR"),
   MCOp("update", MCNode(1), "other"), MCOp("update", MCNode(0), "CHIP"),
   MCOp("write", MCPeripheral(0, 108), "other"),
   MCOp("verify", MCPeripheral(1, 108), "other"),
   MCOp("update", MCPeripheral(0, 97), "CHIP"),
   MCTimed("poll", MCPeripheral(0, 97), 3),
   MCTimed("delay", MCMain, 2)}

MCAddresses == {97, 108}

\* A call of execute() ends: whatever transfers fail, and no poll in it waits
\* longer than its timeout.
CallReturnsInTime == []WaitsWithinTimeout /\ CallReturns
===============================================================================
