----------------------------- MODULE UsbGadgetHal -----------------------------
(* The USB gadget service: setCurrentUsbFunctions() and reset() on its single    *)
(* binder thread (usb/main.cpp) against the monitor thread, which pulls the      *)
(* gadget up when the daemons of all FunctionFS endpoints are there. Functions   *)
(* are "adb" and "mtp" (FunctionFS, for MTP and PTP alike) and "midi" (in the    *)
(* kernel, for every function of that kind). The kernel's part is external: the  *)
(* UDC takes a gadget whose functions are linked and ready, and lets it go when  *)
(* a function is unlinked or its daemon closes its endpoints.                    *)
EXTENDS Naturals, FiniteSets

GadgetFunction == {"adb", "mtp", "midi"}
Ffs == {"adb", "mtp"}
(* validateAndSetVidPid()                                                        *)
Supported == {{"mtp"}, {"adb", "mtp"}, {"adb"}, {"midi"}, {"adb", "midi"}}

VARIABLES
  mCurrentUsbFunctions,
  mCurrentUsbFunctionsApplied,
  links,         \* functions linked in the configuration
  udc,           \* the UDC is bound: the gadget is pulled up
  daemons,       \* FunctionFS functions whose endpoints exist
  mEndpointList, \* functions whose endpoints are monitored
  gadgetPullup,  \* the monitor's global flag
  monitorPc,     \* "none" (mMonitorRunning is false) or where the thread is
  writeUdc,      \* local of the monitor thread
  notified,      \* an inotify event is pending
  stopFlag,      \* 100 was written to mEventFd
  gadgetPc,      \* the binder thread
  reported,      \* the status of the last callback
  pulledUp       \* history: the functions of the last pull-up since a pull-down

gadgetVars == <<mCurrentUsbFunctions, mCurrentUsbFunctionsApplied, links, udc, daemons,
                mEndpointList, gadgetPullup, monitorPc, writeUdc, notified, stopFlag,
                gadgetPc, reported, pulledUp>>

GadgetTypeOK ==
  /\ {mCurrentUsbFunctions, links, pulledUp} \subseteq SUBSET GadgetFunction
  /\ daemons \subseteq Ffs /\ mEndpointList \subseteq Ffs
  /\ {mCurrentUsbFunctionsApplied, udc, gadgetPullup, writeUdc, notified, stopFlag}
       \subseteq BOOLEAN
  /\ monitorPc \in {"none", "check", "poll", "pull", "ended"}
  /\ reported \in {"none", "SUCCESS", "ERROR", "NOT_SUPPORTED"}

GadgetInit ==
  /\ mCurrentUsbFunctions = {} /\ mCurrentUsbFunctionsApplied = FALSE
  /\ links = {} /\ udc = FALSE /\ daemons = {} /\ mEndpointList = {}
  /\ gadgetPullup = FALSE /\ monitorPc = "none" /\ writeUdc = TRUE
  /\ notified = FALSE /\ stopFlag = FALSE
  /\ gadgetPc = "idle" /\ reported = "none" /\ pulledUp = {}

(* Writing the UDC's name.                                                       *)
CanPullUp == links # {} /\ links \intersect Ffs \subseteq daemons /\ ~udc

(* A daemon opens or closes its endpoints.                                       *)
DaemonOpens(f) ==
  /\ f \notin daemons /\ daemons' = daemons \union {f}
  /\ notified' = (notified \/ f \in mEndpointList)
  /\ UNCHANGED <<mCurrentUsbFunctions, mCurrentUsbFunctionsApplied, links, udc, mEndpointList,
                 gadgetPullup, monitorPc, writeUdc, stopFlag, gadgetPc, reported, pulledUp>>
DaemonCloses(f) ==
  /\ f \in daemons /\ daemons' = daemons \ {f}
  /\ udc' = (udc /\ f \notin links)
  /\ notified' = (notified \/ f \in mEndpointList)
  /\ UNCHANGED <<mCurrentUsbFunctions, mCurrentUsbFunctionsApplied, links, mEndpointList,
                 gadgetPullup, monitorPc, writeUdc, stopFlag, gadgetPc, reported, pulledUp>>

--------------------------------------------------------------------------------
(* The monitor thread, startMonitorFd().                                         *)
MonitorFrame == UNCHANGED <<mCurrentUsbFunctions, links, daemons, mEndpointList, stopFlag,
                            gadgetPc, reported>>
Present == mEndpointList \subseteq daemons

MonitorCheck ==
  /\ monitorPc = "check"
  /\ monitorPc' = IF Present THEN "pull" ELSE "poll"
  /\ MonitorFrame
  /\ UNCHANGED <<mCurrentUsbFunctionsApplied, udc, gadgetPullup, writeUdc, notified, pulledUp>>
(* One inotify event: endpoints gone, endpoints back, or nothing new.            *)
MonitorEvent ==
  /\ monitorPc = "poll" /\ notified /\ notified' = FALSE
  /\ IF Present /\ writeUdc THEN monitorPc' = "pull" /\ UNCHANGED writeUdc
     ELSE writeUdc' = (writeUdc \/ ~Present) /\ UNCHANGED monitorPc
  /\ MonitorFrame
  /\ UNCHANGED <<mCurrentUsbFunctionsApplied, udc, gadgetPullup, pulledUp>>
(* After the delay the UDC is written, and only a success is recorded.           *)
MonitorPullUp ==
  /\ monitorPc = "pull" /\ monitorPc' = "poll"
  /\ IF CanPullUp
     THEN /\ udc' = TRUE /\ pulledUp' = links
          /\ mCurrentUsbFunctionsApplied' = TRUE /\ gadgetPullup' = TRUE /\ writeUdc' = FALSE
     ELSE UNCHANGED <<udc, pulledUp, mCurrentUsbFunctionsApplied, gadgetPullup, writeUdc>>
  /\ MonitorFrame /\ UNCHANGED notified
MonitorEnds ==
  /\ monitorPc = "poll" /\ stopFlag /\ monitorPc' = "ended"
  /\ MonitorFrame
  /\ UNCHANGED <<mCurrentUsbFunctionsApplied, udc, gadgetPullup, writeUdc, notified, pulledUp>>

--------------------------------------------------------------------------------
(* The binder thread.                                                            *)
GadgetKeeps == UNCHANGED <<daemons, notified, writeUdc>>

setCurrentUsbFunctions(functions) ==
  /\ gadgetPc = "idle" /\ gadgetPc' = "pulldown"
  /\ mCurrentUsbFunctions' = functions /\ mCurrentUsbFunctionsApplied' = FALSE
  /\ reported' = "none"
  /\ GadgetKeeps
  /\ UNCHANGED <<links, udc, mEndpointList, gadgetPullup, monitorPc, stopFlag, pulledUp>>

(* resetGadget(): pull down, whether or not it works, then clear the classes,    *)
(* which may fail, and unlink.                                                   *)
resetGadget ==
  \/ /\ gadgetPc = "pulldown" /\ gadgetPc' = "unlink"
     /\ udc' = FALSE /\ pulledUp' = {}
     /\ GadgetKeeps
     /\ UNCHANGED <<mCurrentUsbFunctions, mCurrentUsbFunctionsApplied, links, mEndpointList,
                    gadgetPullup, monitorPc, stopFlag, reported>>
  \/ /\ gadgetPc = "unlink"
     /\ gadgetPc' = IF monitorPc = "none" THEN "setup" ELSE "stop"
     /\ links' = {} /\ udc' = FALSE /\ pulledUp' = {}
     /\ GadgetKeeps
     /\ UNCHANGED <<mCurrentUsbFunctions, mCurrentUsbFunctionsApplied, mEndpointList,
                    gadgetPullup, monitorPc, stopFlag, reported>>

\* Mutant: the event descriptor is not written.
StopSilently ==
  /\ gadgetPc = "stop" /\ gadgetPc' = "join"
  /\ GadgetKeeps
  /\ UNCHANGED <<mCurrentUsbFunctions, mCurrentUsbFunctionsApplied, links, udc, mEndpointList,
                 gadgetPullup, monitorPc, stopFlag, reported, pulledUp>>

(* MonitorFfs::reset(): signal the thread, join it, forget the endpoints.        *)
StopMonitor ==
  /\ gadgetPc = "stop" /\ gadgetPc' = "join" /\ stopFlag' = TRUE
  /\ GadgetKeeps
  /\ UNCHANGED <<mCurrentUsbFunctions, mCurrentUsbFunctionsApplied, links, udc, mEndpointList,
                 gadgetPullup, monitorPc, reported, pulledUp>>
\* Mutant: the flag of the last pull-up is kept.
JoinKeepsPullup ==
  /\ gadgetPc = "join" /\ monitorPc = "ended"
  /\ gadgetPc' = "setup" /\ monitorPc' = "none" /\ stopFlag' = FALSE
  /\ mEndpointList' = {} /\ notified' = FALSE
  /\ UNCHANGED <<mCurrentUsbFunctions, mCurrentUsbFunctionsApplied, links, udc, daemons,
                 writeUdc, reported, pulledUp, gadgetPullup>>

JoinMonitor ==
  /\ gadgetPc = "join" /\ monitorPc = "ended"
  /\ gadgetPc' = "setup" /\ monitorPc' = "none" /\ stopFlag' = FALSE
  /\ mEndpointList' = {} /\ gadgetPullup' = FALSE /\ notified' = FALSE
  /\ UNCHANGED <<mCurrentUsbFunctions, mCurrentUsbFunctionsApplied, links, udc, daemons,
                 writeUdc, reported, pulledUp>>

Report(status) == gadgetPc' = "idle" /\ reported' = status

(* A write to configfs fails in any step, which ends the call with ERROR.        *)
GadgetFails ==
  /\ gadgetPc \in {"unlink", "setup", "adb", "plain"}
  /\ Report("ERROR") /\ GadgetKeeps
  /\ UNCHANGED <<mCurrentUsbFunctions, mCurrentUsbFunctionsApplied, links, udc, mEndpointList,
                 gadgetPullup, monitorPc, stopFlag, pulledUp>>

(* NONE ends here; validateAndSetVidPid() refuses; addGenericAndroidFunctions()  *)
(* links what is not adb and adds its endpoints.                                 *)
SetupGeneric ==
  /\ gadgetPc = "setup"
  /\ LET generic == mCurrentUsbFunctions \ {"adb"} IN
     \/ /\ mCurrentUsbFunctions = {} /\ Report("SUCCESS") /\ UNCHANGED <<links, mEndpointList>>
     \/ /\ mCurrentUsbFunctions \notin Supported \union {{}}
        /\ Report("NOT_SUPPORTED") /\ UNCHANGED <<links, mEndpointList>>
     \/ /\ mCurrentUsbFunctions \in Supported
        /\ links' = generic /\ mEndpointList' = mEndpointList \union (generic \intersect Ffs)
        /\ gadgetPc' = IF "adb" \in mCurrentUsbFunctions THEN "adb"
                       ELSE IF generic \intersect Ffs = {} THEN "plain" ELSE "start"
        /\ UNCHANGED reported
  /\ GadgetKeeps
  /\ UNCHANGED <<mCurrentUsbFunctions, mCurrentUsbFunctionsApplied, udc, gadgetPullup,
                 monitorPc, stopFlag, pulledUp>>
addAdb ==
  /\ gadgetPc = "adb" /\ gadgetPc' = "start"
  /\ links' = links \union {"adb"} /\ mEndpointList' = mEndpointList \union {"adb"}
  /\ GadgetKeeps
  /\ UNCHANGED <<mCurrentUsbFunctions, mCurrentUsbFunctionsApplied, udc, gadgetPullup,
                 monitorPc, stopFlag, reported, pulledUp>>
PlainPullUp ==
  /\ gadgetPc = "plain" /\ CanPullUp
  /\ udc' = TRUE /\ pulledUp' = links /\ mCurrentUsbFunctionsApplied' = TRUE
  /\ Report("SUCCESS") /\ GadgetKeeps
  /\ UNCHANGED <<mCurrentUsbFunctions, links, mEndpointList, gadgetPullup, monitorPc, stopFlag>>
startMonitor ==
  /\ gadgetPc = "start" /\ gadgetPc' = "wait"
  /\ monitorPc' = "check" /\ writeUdc' = TRUE
  /\ UNCHANGED <<mCurrentUsbFunctions, mCurrentUsbFunctionsApplied, links, udc, daemons,
                 mEndpointList, gadgetPullup, notified, stopFlag, reported, pulledUp>>
(* The wait ends with the pull-up or at its timeout; the monitor goes on.        *)
waitForPullUp ==
  /\ gadgetPc = "wait"
  /\ Report(IF gadgetPullup THEN "SUCCESS" ELSE "ERROR") /\ GadgetKeeps
  /\ UNCHANGED <<mCurrentUsbFunctions, mCurrentUsbFunctionsApplied, links, udc, mEndpointList,
                 gadgetPullup, monitorPc, stopFlag, pulledUp>>

(* reset(): down and up again, the second of which may fail.                     *)
ResetDown ==
  /\ gadgetPc = "idle" /\ gadgetPc' = "up" /\ udc' = FALSE
  /\ GadgetKeeps
  /\ UNCHANGED <<mCurrentUsbFunctions, mCurrentUsbFunctionsApplied, links, mEndpointList,
                 gadgetPullup, monitorPc, stopFlag, reported, pulledUp>>
ResetUp ==
  /\ gadgetPc = "up" /\ gadgetPc' = "idle"
  /\ udc' \in {udc, udc \/ CanPullUp}
  /\ GadgetKeeps
  /\ UNCHANGED <<mCurrentUsbFunctions, mCurrentUsbFunctionsApplied, links, mEndpointList,
                 gadgetPullup, monitorPc, stopFlag, reported, pulledUp>>

GadgetNext ==
  \/ \E f \in Ffs : DaemonOpens(f) \/ DaemonCloses(f)
  \/ MonitorCheck \/ MonitorEvent \/ MonitorPullUp \/ MonitorEnds
  \/ \E functions \in SUBSET GadgetFunction : setCurrentUsbFunctions(functions)
  \/ resetGadget \/ StopMonitor \/ JoinMonitor \/ GadgetFails
  \/ SetupGeneric \/ addAdb \/ PlainPullUp \/ startMonitor \/ waitForPullUp
  \/ ResetDown \/ ResetUp

GadgetSpec == GadgetInit /\ [][GadgetNext]_gadgetVars
(* The monitor's and the binder thread's steps; the wait of a pull-up times out. *)
MonitorSteps == MonitorCheck \/ MonitorEvent \/ MonitorPullUp
BinderSteps == \/ resetGadget \/ StopMonitor \/ JoinMonitor \/ SetupGeneric \/ addAdb
               \/ PlainPullUp \/ startMonitor \/ waitForPullUp \/ ResetUp
GadgetFairness == /\ WF_gadgetVars(MonitorSteps) /\ SF_gadgetVars(MonitorEnds)
                  /\ WF_gadgetVars(BinderSteps)

--------------------------------------------------------------------------------
(* A SUCCESS that the framework is told is the gadget it asked for: the monitor  *)
(* of this call, not of an earlier one, pulled up exactly these functions.       *)
SuccessIsPulledUp == reported = "SUCCESS" => pulledUp = mCurrentUsbFunctions

(* setCurrentUsbFunctions() returns: the monitor, which may be in its delay when *)
(* it is told to stop, ends and can be joined.                                   *)
SetFunctionsReturns == gadgetPc # "idle" ~> gadgetPc = "idle"
================================================================================
