------------------------------- MODULE HciClient -------------------------------
(* The Bluetooth HCI service: initialize(), close(), send and the death of       *)
(* clients, above the socket and the rfkill switch of NetBluetoothMgmt. The      *)
(* service has one binder thread (main.cpp), which runs calls and death notices  *)
(* one after the other and may wait for the controller inside initialize(). A    *)
(* client is one callback object: a client that comes back is another one.       *)
EXTENDS Naturals

CONSTANTS HciClients, NoClient
ASSUME HciClientsAssumption == NoClient \notin HciClients

VARIABLES
  hciState,  \* mState; "FATAL" after LOG_ALWAYS_FATAL
  mCb,       \* the client of mCb and of the death recipient
  mFd,       \* the user channel socket is open
  mH4,       \* the protocol object exists
  watching,  \* mFdWatcher watches the socket
  rfkill,    \* Bluetooth is blocked
  opening,   \* the client whose initialize() waits in openHci(), or NoClient
  alive,     \* clients that live
  linked     \* clients linked to their death, whose notice has not been handled

hciDevice == <<mFd, mH4, watching, rfkill>>
hciVars == <<hciState, mCb, hciDevice, opening, alive, linked>>

HciTypeOK ==
  /\ hciState \in {"READY", "INITIALIZING", "ONE_CLIENT", "FATAL"}
  /\ {mCb, opening} \subseteq HciClients \union {NoClient}
  /\ {mFd, mH4, watching, rfkill} \subseteq BOOLEAN
  /\ alive \subseteq HciClients /\ linked \subseteq HciClients

HciInit == /\ hciState = "READY" /\ mCb = NoClient /\ opening = NoClient
           /\ mFd = FALSE /\ mH4 = FALSE /\ watching = FALSE /\ rfkill = FALSE
           /\ alive = HciClients /\ linked = {}

(* The binder thread can take a call or a notice.                                *)
HciFree == opening = NoClient /\ hciState # "FATAL"

(* rfKill() may find no switch, or fail to write it.                             *)
rfKill(block) == rfkill' \in {rfkill, block}

(* close(): ONE_CLIENT, then CLOSING while the watcher stops and the socket is   *)
(* closed, then READY. Nothing can ask for the state in between.                 *)
CloseEffect ==
  IF hciState = "ONE_CLIENT"
  THEN /\ hciState' = "READY" /\ mFd' = FALSE /\ mH4' = FALSE /\ watching' = FALSE
       /\ rfKill(FALSE)
  ELSE UNCHANGED <<hciState, hciDevice>>

(* initialize(): another client closes the session of the first and is refused.  *)
hciInitialize(c) ==
  /\ HciFree /\ c \in alive
  /\ \/ /\ hciState = "READY"
        /\ hciState' = "INITIALIZING" /\ mCb' = c /\ opening' = c
        /\ rfKill(TRUE)
        /\ UNCHANGED <<mFd, mH4, watching>>
     \/ hciState # "READY" /\ CloseEffect /\ UNCHANGED <<mCb, opening>>
  /\ UNCHANGED <<alive, linked>>

(* openHci() waits for the controller for as long as it takes.                   *)
WaitEnds == opening # NoClient /\ opening' = NoClient

OpenHciFails ==
  /\ WaitEnds /\ hciState' = "READY"
  /\ UNCHANGED <<mCb, hciDevice, alive, linked>>

\* Mutant: the session is opened without a link to the client's death.
OpenWithoutLink ==
  /\ WaitEnds
  /\ hciState' = "ONE_CLIENT" /\ mFd' = TRUE /\ mH4' = TRUE /\ watching' = TRUE
  /\ UNCHANGED <<rfkill, alive, linked, mCb>>

(* The controller appeared: link to death, which aborts when the client died     *)
(* during the wait, then protocol, watcher and initializationComplete(). That    *)
(* call fails when the client dies in between, and the session is closed.        *)
OpenHciSucceeds ==
  /\ WaitEnds
  /\ \/ /\ opening \notin alive
        /\ hciState' = "FATAL" /\ UNCHANGED <<hciDevice, linked, alive>>
     \/ /\ opening \in alive /\ linked' = linked \union {opening}
        /\ hciState' = "ONE_CLIENT" /\ mFd' = TRUE /\ mH4' = TRUE /\ watching' = TRUE
        /\ UNCHANGED <<rfkill, alive>>
     \/ /\ opening \in alive /\ linked' = linked \union {opening}
        /\ alive' = alive \ {opening}
        /\ hciState' = "READY" /\ rfKill(FALSE) /\ UNCHANGED <<mFd, mH4, watching>>
  /\ UNCHANGED mCb

hciClose(c) == /\ HciFree /\ c \in alive /\ CloseEffect
               /\ UNCHANGED <<mCb, opening, alive, linked>>

ClientDies(c) == /\ c \in alive /\ alive' = alive \ {c}
                 /\ UNCHANGED <<hciState, mCb, hciDevice, opening, linked>>

(* serviceDied(): the recipient looks at the client linked last, not at the one  *)
(* that died.                                                                    *)
serviceDied(c) ==
  /\ HciFree /\ c \in linked \ alive
  /\ linked' = linked \ {c}
  /\ IF mCb \notin alive THEN CloseEffect ELSE UNCHANGED <<hciState, hciDevice>>
  /\ UNCHANGED <<mCb, opening, alive>>

(* The controller disconnects: the watcher thread stops watching.                *)
Disconnect == /\ watching /\ watching' = FALSE
              /\ UNCHANGED <<hciState, mCb, mFd, mH4, rfkill, opening, alive, linked>>

HciNext ==
  \/ \E c \in HciClients : \/ hciInitialize(c) \/ hciClose(c)
                           \/ ClientDies(c) \/ serviceDied(c)
  \/ OpenHciFails \/ OpenHciSucceeds \/ Disconnect

HciSpec == HciInit /\ [][HciNext]_hciVars
(* The binder thread takes notices in the end; a client has one notice.          *)
HciFairness == SF_hciVars(\E c \in HciClients : serviceDied(c))

--------------------------------------------------------------------------------
(* A session's client is linked to its death: when it dies, there is a notice    *)
(* that closes the session, also when another client was linked in between.      *)
SessionIsLinked == hciState = "ONE_CLIENT" => mCb \in linked

(* The socket of a client that died is closed, so that the next client can have  *)
(* one, or another client has taken it over.                                     *)
DeadClientIsClosed ==
  \A c \in HciClients :
    (hciState = "ONE_CLIENT" /\ mCb = c /\ c \notin alive)
      ~> (hciState # "ONE_CLIENT" \/ mCb # c)
================================================================================
