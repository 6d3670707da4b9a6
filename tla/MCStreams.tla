-------------------------------- MODULE MCStreams --------------------------------
(* The threads that wait for somebody: the worker of an input against its closer,  *)
(* the threads of a Bluetooth port against the stack, the worker of a USB stream   *)
(* against its I/O thread, the thread of an effect against its binder threads. A   *)
(* behaviour is of one of them, picked at the start.                               *)
EXTENDS StreamInput, BluetoothPort, AlsaStream, EffectInstance

VARIABLE stream
streamVars == <<stream, inVars, btVars, asVars, fxVars>>

Init ==
  /\ stream \in {"input", "bluetooth", "alsa", "effect"}
  /\ InputInit /\ BtInit /\ AlsaStreamInit /\ FxInit
  \* One initial state of a stream that has several stands in for the others.
  /\ stream = "input" \/ inKind = "stub"
  /\ stream = "alsa" \/ <<asKind, asConnected>> =
       CHOOSE x \in AlsaKinds \X SUBSET AlsaDevices : Cardinality(x[2]) = 1
  /\ stream = "effect" \/ fxKind = "plain"

Input(A) == stream = "input" /\ A /\ UNCHANGED <<stream, btVars, asVars, fxVars>>
Port(A) == stream = "bluetooth" /\ A /\ UNCHANGED <<stream, inVars, asVars, fxVars>>
Alsa(A) == stream = "alsa" /\ A /\ UNCHANGED <<stream, inVars, btVars, fxVars>>
Instance(A) == stream = "effect" /\ A /\ UNCHANGED <<stream, inVars, btVars, asVars>>
Next == Input(InputNext) \/ Port(BtNext) \/ Alsa(AlsaStreamNext) \/ Instance(FxNext)

\* InputFairness, BtFairness, AlsaFairness and FxFairness: a condition on steps of
\* several streams is one on the steps of the stream that runs.
Fairness ==
  /\ WF_streamVars(\/ Input(WorkerSteps) \/ Port(PortSteps("worker"))
                   \/ Alsa(AlsaWorkerSteps) \/ Instance(BinderSteps))
  /\ WF_streamVars(\/ Input(joinWorker) \/ Port(PortSteps("binder"))
                   \/ Alsa(ioSteps) \/ Instance(EffectSteps))
  /\ SF_streamVars(Input(stopWorker))
StreamsSpec == Init /\ [][Next]_streamVars /\ Fairness

MCKinds == {<<"pipe", TRUE>>, <<"usb", TRUE>>, <<"usb", FALSE>>, <<"pipe", FALSE>>}
MCFormats == {[s \in Sides |-> n] : n \in 1..2}
----------------------------------------------------------------------------------
(* Frames and positions go on where they were: through the DSP's restarts of        *)
(* shared memory, USB overruns and standbys, pieces that the I/O thread writes, and  *)
(* never to a card that was unplugged.                                              *)
FramesContinue ==
  /\ [](InputTypeOK /\ AlsaStreamTypeOK /\ FedDevicesAreConnected)
  /\ PositionContinues /\ PositionNeverGoesBack /\ CapturedInOrder

(* A burst of an effect fits the buffer it is taken to, whatever formats and          *)
(* reopens came before it, and a stopped effect takes none.                          *)
EffectBurstsAreKept == [](FxTypeOK /\ BurstFits) /\ StoppedEffectsTakeNothing

(* Every call returns: close() with its worker in any command, a port whose stack     *)
(* never answers, a transfer blocked on the pipe, close() and reopen() of an effect   *)
(* whose thread waits for data; and start() goes on with a burst that waits already. *)
WaitsEnd == /\ CloseReturns /\ BtCallsReturn /\ DriverCallsReturn
            /\ EffectCallsReturn /\ StartTakesUp
==================================================================================
