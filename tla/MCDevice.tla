-------------------------------- MODULE MCDevice --------------------------------
(* The services beside the audio service are programs of their own: a behaviour *)
(* is of one of them, picked at the start, while the others keep their initial  *)
(* state. A sentence of one program speaks of that program's behaviours only.   *)
EXTENDS BootSlots, HciClient, CecEvents, UsbGadgetHal, ProfileStore

VARIABLE program
deviceVars == <<program, bootVars, hciVars, cecVars, gadgetVars, storeVars>>

Init ==
  /\ program \in {"boot_control", "hci", "cec", "gadget", "a2bctl"}
  /\ BootInit /\ HciInit /\ CecInit /\ GadgetInit /\ StoreInit
  /\ program = "cec" \/ cecPort

Boot(A) == /\ program = "boot_control" /\ A
           /\ UNCHANGED <<program, hciVars, cecVars, gadgetVars, storeVars>>
Hci(A) == /\ program = "hci" /\ A
          /\ UNCHANGED <<program, bootVars, cecVars, gadgetVars, storeVars>>
Cec(A) == /\ program = "cec" /\ A
          /\ UNCHANGED <<program, bootVars, hciVars, gadgetVars, storeVars>>
Gadget(A) == /\ program = "gadget" /\ A
             /\ UNCHANGED <<program, bootVars, hciVars, cecVars, storeVars>>
Store(A) == /\ program = "a2bctl" /\ A
            /\ UNCHANGED <<program, bootVars, hciVars, cecVars, gadgetVars>>
Next == Boot(BootNext) \/ Hci(HciNext) \/ Cec(CecNext) \/ Gadget(GadgetNext) \/ Store(StoreNext)

\* BootFairness, HciFairness and GadgetFairness. A fairness condition on steps of
\* two programs is one on the steps of the program that runs.
Fairness ==
  /\ WF_deviceVars(Boot(PowerOn) \/ Gadget(MonitorSteps))
  /\ WF_deviceVars(Boot(GiveUp) \/ Gadget(BinderSteps))
  /\ SF_deviceVars(Hci(\E c \in HciClients : serviceDied(c)) \/ Gadget(MonitorEnds))
DeviceSpec == Init /\ [][Next]_deviceVars /\ Fairness

----------------------------------------------------------------------------------
(* An answer is true of the moment it is given: a gadget function that was set is *)
(* pulled up, a CEC callback is told nothing once the HAL was disabled, and an    *)
(* HCI client that was told of its session is linked to its death.                *)
AnswersAreTrue ==
  /\ program = "cec" => CecTypeOK /\ DisableLatency
  /\ program = "boot_control" => BootTypeOK
  /\ program = "hci" => HciTypeOK /\ SessionIsLinked
  /\ program = "gadget" => GadgetTypeOK /\ SuccessIsPulledUp

(* A2B profiles on disk survive a kill or a power loss between any two steps of   *)
(* two writers: a file is whole and an install can be undone.                     *)
ProfilesSurvive == program = "a2bctl" => StoreTypeOK /\ FilesAreWhole /\ InstallIsUndoable

(* A service answers and lets go: setting a gadget function returns, the monitor   *)
(* joined, and the HCI socket of a client that died is closed.                    *)
ServicesReact == SetFunctionsReturns /\ DeadClientIsClosed
================================================================================
