------------------------------- MODULE AlsaStream -------------------------------
(* A stream over ALSA devices. The worker thread of the stream calls the driver: *)
(* the one with a pipe and an I/O thread for the device (StreamAlsaMonoPipe,     *)
(* used by the primary module), or the direct one that USB streams use           *)
(* (StreamAlsa), whose devices a binder thread changes while the worker runs.    *)
EXTENDS Integers, Sequences, FiniteSets
CONSTANTS AlsaDevices,  \* devices of a USB stream
          AlsaKinds,    \* the streams: subset of {"pipe", "usb"} \X BOOLEAN (input)
          AlsaFrames    \* bound: frames of the stream
ASSUME AlsaAssumption ==
  AlsaKinds \subseteq {"pipe", "usb"} \X BOOLEAN /\ AlsaFrames \in Nat

PipeFrames == 2      \* mBufferSizeFrames, the capacity of the pipe and of a transfer
KernelFrames == 2    \* period_count * period_size
NoPosition == -1

VARIABLES
  asKind,       \* the stream
  asConnected,  \* mConnectedDeviceProfiles
  asUpdated,    \* mConnectedDevicesUpdated
  asProxies,    \* the devices of mAlsaDeviceProxies
  asRunning,    \* mIoThreadIsRunning
  asPipe,       \* the frames in the MonoPipe
  asShut,       \* MonoPipe::shutdown(true) was called
  asIo,         \* the I/O thread: where it is, its buffer, the first frame to write
  asWorker,     \* "standby", "open", "opening", "idle", "checked", "transfer",
                \* "error", and "join" or "exit" when it joins the I/O thread
  asWant,       \* frames that the transfer under way asks for
  asGot,        \* frames read by the transfer under way
  asLast,       \* the last frame handed to the client
  asCaptured,   \* frames that the I/O thread read from the device
  asCount,      \* the frame counter of the stream's context
  asQueued,     \* frames in the kernel's buffer
  asOverrun,    \* frames that the hardware pointer ran past the written ones
  asPosition    \* the last refined position since start()

asIoVars == <<asPipe, asIo, asCaptured>>
asVars == <<asKind, asConnected, asUpdated, asProxies, asRunning, asShut, asIoVars,
            asWorker, asWant, asGot, asLast, asCount, asQueued, asOverrun, asPosition>>
IsPipe == asKind[1] = "pipe"
IsIn == asKind[2]
NoThread == [at |-> "none", buffer |-> <<>>, from |-> 1]
Least(a, b) == IF a < b THEN a ELSE b

AlsaStreamTypeOK ==
  /\ asKind \in AlsaKinds /\ asConnected \subseteq AlsaDevices
  /\ asProxies \subseteq AlsaDevices /\ {asUpdated, asRunning, asShut} \subseteq BOOLEAN
  /\ asIo.at \in {"none", "top", "pcm", "sink", "done"} /\ Len(asPipe) \in 0..PipeFrames
  /\ asWorker \in {"standby", "open", "opening", "idle", "checked", "transfer",
                   "error", "join", "exit", "closed"}
  /\ asQueued \in 0..KernelFrames /\ asWant \in 0..PipeFrames /\ asPosition \in Int

AlsaStreamInit ==
  /\ asKind \in AlsaKinds
  /\ asConnected \in {S \in SUBSET AlsaDevices : Cardinality(S) = 1} /\ asProxies = {}
  /\ asUpdated = ~IsPipe /\ asRunning = FALSE /\ asShut = FALSE
  /\ asPipe = <<>> /\ asIo = NoThread /\ asCaptured = 0
  /\ asWorker = "standby" /\ asWant = 0 /\ asGot = <<>> /\ asLast = 0 /\ asCount = 0
  /\ asQueued = 0 /\ asOverrun = 0 /\ asPosition = NoPosition

----------------------------------------------------------------------------------
(* start(): the devices are read under mLock, then opened one by one. When one  *)
(* cannot be opened a USB stream keeps those before it. A failed start or read is *)
(* an error, after which the worker only exits.                                  *)
alsaStart ==
  /\ asWorker = "standby" /\ asProxies = {}
  /\ asWorker' = "open"
  /\ UNCHANGED <<asKind, asConnected, asProxies, asUpdated, asRunning, asShut,
                 asIoVars, asWant, asGot, asLast, asCount, asQueued, asOverrun,
                 asPosition>>
getDeviceProfiles ==
  /\ asWorker = "open" /\ asWorker' = "opening"
  /\ asProxies' = asConnected /\ asUpdated' = FALSE
  /\ UNCHANGED <<asKind, asConnected, asRunning, asShut, asIoVars, asWant, asGot,
                 asLast, asCount, asQueued, asOverrun, asPosition>>
\* Mutant: the flag is cleared once the devices are open.
ClearedOnceOpen == FALSE
FlagOnceOpen == asUpdated
openDeviceProxies(ok) ==
  /\ asWorker = "opening" /\ (ok => asProxies # {})
  /\ IF ok THEN asProxies' = asProxies
     ELSE \E opened \in SUBSET asProxies :
            (IsPipe => opened = {}) /\ asProxies' = opened
  /\ asWorker' = IF ok THEN "idle" ELSE "error"
  /\ asRunning' = (ok /\ IsPipe) /\ asShut' = FALSE
  /\ asIo' = IF ok /\ IsPipe THEN [NoThread EXCEPT !.at = "top"] ELSE NoThread
  /\ asLast' = asCaptured /\ asQueued' = 0 /\ asOverrun' = 0 /\ asUpdated' = FlagOnceOpen
  /\ UNCHANGED <<asKind, asConnected, asPipe, asCaptured, asWant, asGot, asCount,
                 asPosition>>

(* setConnectedDevices() of a USB stream, on a binder thread.                    *)
usbSetConnectedDevices(devices) ==
  /\ ~IsPipe /\ (IsIn => Cardinality(devices) = 1)
  /\ asConnected' = devices /\ asUpdated' = TRUE
  /\ UNCHANGED <<asKind, asProxies, asRunning, asShut, asIoVars, asWorker, asWant,
                 asGot, asLast, asCount, asQueued, asOverrun, asPosition>>

----------------------------------------------------------------------------------
(* transfer(). A USB stream first looks whether its devices have changed, and    *)
(* then transfers nothing.                                                       *)
beginTransfer(n) ==
  /\ asWorker = "idle" /\ asCount + n <= AlsaFrames /\ asWant' = n
  /\ asWorker' = IF asUpdated /\ ~IsPipe THEN "idle" ELSE "checked"
  /\ UNCHANGED <<asKind, asConnected, asUpdated, asProxies, asRunning, asShut,
                 asIoVars, asGot, asLast, asCount, asQueued, asOverrun, asPosition>>
\* StreamAlsa: proxy_write_with_retries() waits for room and the result is ignored.
writeDevice(ok) ==
  /\ asWorker = "checked" /\ ~IsPipe /\ ~IsIn
  /\ ok => asQueued + asWant <= KernelFrames
  /\ asQueued' = IF ok THEN asQueued + asWant ELSE asQueued
  /\ asOverrun' = IF ok THEN 0 ELSE asOverrun
  /\ asCount' = asCount + asWant /\ asWorker' = "idle"
  /\ UNCHANGED <<asKind, asConnected, asUpdated, asProxies, asRunning, asShut,
                 asIoVars, asWant, asGot, asLast, asPosition>>
\* proxy_read_with_retries(): a failed read is an error of the transfer.
readDevice(ok) ==
  /\ asWorker = "checked" /\ ~IsPipe /\ IsIn
  /\ ok => asQueued >= asWant
  /\ asQueued' = IF ok THEN asQueued - asWant ELSE asQueued
  /\ asCount' = IF ok THEN asCount + asWant ELSE asCount
  /\ asWorker' = IF ok THEN "idle" ELSE "error"
  /\ UNCHANGED <<asKind, asConnected, asUpdated, asProxies, asRunning, asShut,
                 asIoVars, asWant, asGot, asLast, asOverrun, asPosition>>
\* MonoPipe::write() of the worker: what does not fit is lost.
writePipe ==
  /\ asWorker = "checked" /\ IsPipe /\ ~IsIn
  /\ LET room == Least(asWant, PipeFrames - Len(asPipe))
     IN asPipe' = asPipe \o [i \in 1..room |-> asCount + i]
  /\ asCount' = asCount + asWant /\ asWorker' = "idle"
  /\ UNCHANGED <<asKind, asConnected, asUpdated, asProxies, asRunning, asShut, asIo,
                 asCaptured, asWant, asGot, asLast, asQueued, asOverrun,
                 asPosition>>

(* The input path reads the pipe until it has a period of frames or a deadline   *)
(* has passed; silence stands for the frames that are missing then.              *)
readPipe ==
  /\ asWorker \in {"checked", "transfer"} /\ IsPipe /\ IsIn
  /\ asPipe # <<>> /\ Len(asGot) < asWant
  /\ LET n == Least(Len(asPipe), asWant - Len(asGot))
         frames == SubSeq(asPipe, 1, n)
     IN /\ asPipe' = SubSeq(asPipe, n + 1, Len(asPipe))
        /\ asGot' = asGot \o frames /\ asLast' = frames[n]
  /\ asWorker' = "transfer"
  /\ UNCHANGED <<asWant, asKind, asConnected, asUpdated, asProxies, asRunning,
                 asShut, asIo, asCaptured, asCount, asQueued, asOverrun,
                 asPosition>>
\* Mutant: the wait for a full period has no deadline.
WaitsForAll == Len(asGot) = asWant
Complete == Len(asGot) \in 0..asWant
endTransfer ==
  /\ asWorker \in {"checked", "transfer"} /\ IsPipe /\ IsIn /\ Complete
  /\ asGot' = <<>> /\ asWorker' = "idle" /\ asCount' = asCount + asWant
  /\ UNCHANGED <<asWant, asKind, asConnected, asUpdated, asProxies, asRunning,
                 asShut, asIoVars, asLast, asQueued, asOverrun, asPosition>>

----------------------------------------------------------------------------------
(* The I/O thread                                                                *)
ioThread(next) ==
  /\ asIo' = next
  /\ UNCHANGED <<asKind, asConnected, asUpdated, asProxies, asRunning, asShut,
                 asWorker, asWant, asGot, asLast, asCount, asOverrun, asPosition>>
IoAt(place) == [asIo EXCEPT !.at = place]

ioTop ==
  /\ asIo.at = "top"
  /\ IF ~asRunning THEN ioThread(IoAt("done")) /\ UNCHANGED <<asPipe, asCaptured>>
     ELSE IF IsIn THEN ioThread(IoAt("pcm")) /\ UNCHANGED <<asPipe, asCaptured>>
     ELSE /\ asPipe # <<>>
          /\ ioThread([at |-> "pcm", buffer |-> asPipe, from |-> 1])
          /\ asPipe' = <<>> /\ UNCHANGED asCaptured
  /\ UNCHANGED asQueued
\* pcm_read() and pcm_write() return with the data moved or with an error.
inputIoThread(ok) ==
  /\ asIo.at = "pcm" /\ IsIn /\ UNCHANGED <<asPipe, asQueued>>
  /\ IF ok
     THEN /\ asCaptured + PipeFrames <= AlsaFrames
          /\ ioThread([at |-> "sink", from |-> 1,
                       buffer |-> [i \in 1..PipeFrames |-> asCaptured + i]])
          /\ asCaptured' = asCaptured + PipeFrames
     ELSE ioThread(IoAt("top")) /\ UNCHANGED asCaptured
outputIoThread(ok) ==
  /\ asIo.at = "pcm" /\ ~IsIn /\ UNCHANGED <<asPipe, asCaptured>>
  /\ ok => asQueued + Len(asIo.buffer) <= KernelFrames
  /\ asQueued' = IF ok THEN asQueued + Len(asIo.buffer) ELSE asQueued
  /\ ioThread(IoAt("top"))

(* MonoPipe::write() of the input's I/O thread. A write that can block goes on   *)
(* from where it was until all frames are in the pipe or the pipe is shut down;  *)
(* one that cannot is repeated by the thread, from the start of its buffer.       *)
\* Mutant: the input's pipe is made for a writer that does not block.
NeverBlocks == FALSE
makeSink == IsIn
writeSink ==
  /\ asIo.at = "sink" /\ UNCHANGED <<asCaptured, asQueued>>
  /\ LET left == Len(asIo.buffer)
         n == Least(left, PipeFrames - Len(asPipe))
     IN IF asShut THEN ioThread(IoAt("done")) /\ UNCHANGED asPipe
        ELSE /\ n > 0
             /\ asPipe' = asPipe \o SubSeq(asIo.buffer, 1, n)
             /\ IF n = left THEN ioThread(IoAt("top"))
                ELSE ioThread([asIo EXCEPT !.buffer =
                       IF makeSink THEN SubSeq(@, n + 1, left) ELSE SubSeq(@, 1, left - n)])
ioSteps == \/ ioTop \/ writeSink
           \/ \E ok \in BOOLEAN : inputIoThread(ok) \/ outputIoThread(ok)

----------------------------------------------------------------------------------
(* standby() and shutdown()                                                      *)
shutPipes == asShut' = IsIn
shutSinks == shutPipes
teardownIo(next) ==
  /\ \/ asWorker = "idle"
     \/ next = "exit" /\ asWorker \in {"standby", "error"}
  /\ asWorker' = next /\ asRunning' = FALSE /\ shutSinks
  /\ UNCHANGED <<asKind, asConnected, asUpdated, asProxies, asIoVars, asWant, asGot,
                 asLast, asCount, asQueued, asOverrun, asPosition>>
alsaStandby ==
  /\ asWorker \in {"join", "exit"} /\ asIo.at \in {"none", "done"}
  /\ asWorker' = IF asWorker = "join" THEN "standby" ELSE "closed"
  /\ asProxies' = {} /\ asPipe' = <<>> /\ asIo' = NoThread
  /\ asQueued' = 0 /\ asPosition' = NoPosition
  /\ UNCHANGED <<asKind, asConnected, asUpdated, asRunning, asShut, asCaptured,
                 asGot, asWant, asLast, asCount, asOverrun>>

----------------------------------------------------------------------------------
(* The device plays or captures a frame; in an underrun the hardware pointer may *)
(* run past what was written, and the device reports more room than it has.       *)
alsaDevice ==
  /\ asProxies # {} /\ asWorker \in {"idle", "checked", "transfer"}
  /\ \/ /\ IsIn /\ ~IsPipe /\ asQueued < KernelFrames /\ asQueued' = asQueued + 1
        /\ UNCHANGED asOverrun
     \/ ~IsIn /\ asQueued > 0 /\ asQueued' = asQueued - 1 /\ UNCHANGED asOverrun
     \/ ~IsIn /\ asQueued = 0 /\ asOverrun = 0 /\ asOverrun' = 1 /\ UNCHANGED asQueued
  /\ UNCHANGED <<asKind, asConnected, asUpdated, asProxies, asRunning, asShut,
                 asIoVars, asWorker, asWant, asGot, asLast, asCount, asPosition>>

(* refinePosition(): the context's counter, corrected by what the kernel holds.  *)
Available == KernelFrames - asQueued + asOverrun
\* Mutant: the frames that the driver reports as available are not clamped.
Unclamped(avail) == avail
Clamped(avail) == Least(avail, KernelFrames)
presentationPosition ==
  asCount - KernelFrames + Clamped(Available) - KernelFrames
capturePosition == asCount + asQueued
refinePosition ==
  /\ asWorker = "idle" /\ asProxies # {} /\ (IsIn => ~IsPipe)
  /\ LET frames == IF IsIn THEN capturePosition ELSE presentationPosition
     IN frames >= 0 /\ asPosition' = frames
  /\ UNCHANGED <<asKind, asConnected, asUpdated, asProxies, asRunning, asShut,
                 asIoVars, asWorker, asWant, asGot, asLast, asCount, asQueued,
                 asOverrun>>

AlsaStreamNext ==
  \/ alsaStart \/ getDeviceProfiles \/ \E ok \in BOOLEAN : openDeviceProxies(ok)
  \/ \E devices \in SUBSET AlsaDevices : usbSetConnectedDevices(devices)
  \/ \E n \in 1..PipeFrames : beginTransfer(n)
  \/ readPipe \/ endTransfer \/ writePipe
  \/ \E ok \in BOOLEAN : writeDevice(ok) \/ readDevice(ok)
  \/ ioSteps \/ \E next \in {"join", "exit"} : teardownIo(next)
  \/ alsaStandby \/ alsaDevice \/ refinePosition

\* The threads run when they can, and time passes.
AlsaWorkerSteps ==
  \/ getDeviceProfiles \/ alsaStandby \/ readPipe \/ endTransfer \/ writePipe
  \/ \E ok \in BOOLEAN : openDeviceProxies(ok) \/ writeDevice(ok) \/ readDevice(ok)
AlsaFairness == WF_asVars(AlsaWorkerSteps) /\ WF_asVars(ioSteps)
AlsaStreamSpec == AlsaStreamInit /\ [][AlsaStreamNext]_asVars /\ AlsaFairness

----------------------------------------------------------------------------------
(* Frames go to the devices that the stream is connected to, unless the stream   *)
(* knows that they have changed: the flag is cleared with the devices it speaks  *)
(* of, although they are opened later and without the lock.                       *)
FedDevicesAreConnected ==
  ~IsPipe /\ asWorker = "idle" /\ ~asUpdated => asProxies = asConnected

(* A capture hands the client the frames in the order of the device, none twice  *)
(* and none left out between a start and a standby, although the I/O thread       *)
(* writes them to the pipe in pieces.                                             *)
CapturedInOrder ==
  [][asLast' # asLast /\ asGot' # asGot /\ IsPipe =>
       \A i \in Len(asGot) + 1..Len(asGot') : asGot'[i] = asLast + i - Len(asGot)]_asVars

(* A start, a transfer and a standby return, whatever the device and the I/O thread do:    *)
(* the input's read has a deadline and the teardown wakes a blocked writer.        *)
DriverCallsReturn ==
  asWorker \notin {"idle", "standby"} ~> asWorker \in {"idle", "standby", "error", "closed"}

(* The position that a USB stream reports does not go back while it runs. That   *)
(* of an output with a pipe does: frames in the pipe are not counted.              *)
PositionNeverGoesBack ==
  [][~IsPipe /\ asPosition' # NoPosition => asPosition' >= asPosition]_asVars
=================================================================================
