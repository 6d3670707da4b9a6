----------------------------- MODULE BluetoothProxies -----------------------------
(* How the Bluetooth module passes its ports to streams: a connected device has *)
(* a port of the Bluetooth stack (a "proxy"), which the module keeps until a    *)
(* stream of a mix port patched to the device takes it; and how the switches of *)
(* the A2DP and LE profiles reach the open streams.                              *)
EXTENDS Naturals, FiniteSets
CONSTANTS
  MixHandles,      \* handles of the mix ports of outputs
  BtRates,         \* what configurations are told apart by
  LoadedRates(_),  \* those that the stack gives a device description
  MaxProxies,      \* bound: proxies that exist at once
  LastPortId,      \* bound: port ids ever allocated
  ConfiguresInUse  \* whether clients configure a device that a stream plays to

VARIABLES
  bpPorts,        \* connected device ports: id |-> device description
  bpNextPort,     \* nextPortId
  bpProxies,      \* mProxies: port id |-> proxy and its configuration
  bpWeak,         \* mProxiesWeak: device description |-> proxy
  bpConnections,  \* mConnections: mix handle |-> port id
  bpStreams,      \* mix handle |-> the stream opened on it
  bpState,        \* proxy |-> its device description and mState
  bpSettings      \* mEnabled of BluetoothA2dp and BluetoothLe
bpModule == <<bpPorts, bpNextPort, bpProxies, bpWeak, bpConnections>>
bpVars == <<bpModule, bpStreams, bpState, bpSettings>>

Descriptions == {"a2dp", "le"}
ProxyIds == 1..MaxProxies
NoProxy == 0
NoStream == [at |-> "none", proxy |-> NoProxy, enabled |-> TRUE]
Unregistered == [of |-> "a2dp", at |-> "DISABLED"]
NoPorts == [p \in {} |-> 0]
ASSUME ProxiesAssumption ==
  MaxProxies \in Nat /\ LastPortId \in Nat /\ \A d \in Descriptions : LoadedRates(d) \subseteq BtRates

BluetoothProxiesTypeOK ==
  /\ DOMAIN bpPorts \subseteq 1..LastPortId /\ bpNextPort \in 1..(LastPortId + 1)
  /\ \A p \in DOMAIN bpPorts : bpPorts[p] \in Descriptions
  /\ \A p \in DOMAIN bpProxies : bpProxies[p] \in [proxy : ProxyIds, rate : BtRates]
  /\ DOMAIN bpWeak \subseteq Descriptions /\ DOMAIN bpConnections \subseteq MixHandles
  /\ bpStreams \in [MixHandles -> [at : {"none", "open", "closing"},
                                   proxy : ProxyIds \union {NoProxy}, enabled : BOOLEAN]]
  /\ bpState \in [ProxyIds -> [of : Descriptions, at : {"DISABLED", "STANDBY", "STARTED"}]]
  /\ bpSettings \in [Descriptions -> BOOLEAN]

ProxiesInit ==
  /\ bpPorts = NoPorts /\ bpNextPort = 1 /\ bpProxies = NoPorts /\ bpWeak = NoPorts
  /\ bpConnections = NoPorts /\ bpStreams = [m \in MixHandles |-> NoStream]
  /\ bpState = [x \in ProxyIds |-> Unregistered] /\ bpSettings = [d \in Descriptions |-> FALSE]

\* std::map: insert() leaves an entry that is there; operator[] replaces it.
Inserted(f, k, v) == [x \in {k} \union DOMAIN f |-> IF x \in DOMAIN f THEN f[x] ELSE v]
Replaced(f, k, v) == [x \in {k} \union DOMAIN f |-> IF x = k THEN v ELSE f[x]]
Erased(f, k) == [x \in DOMAIN f \ {k} |-> f[x]]

\* A proxy lives as long as the module or a stream holds it.
Alive(x) == \/ \E p \in DOMAIN bpProxies : bpProxies[p].proxy = x
            \/ \E m \in MixHandles : bpStreams[m].proxy = x
FreeIds == {x \in ProxyIds : ~Alive(x)}

\* createProxy(): registered, in standby, and its configuration loaded.
createProxyFor(p, d, rate) == \E x \in FreeIds :
  /\ \A y \in FreeIds : x <= y
  /\ bpProxies' = Inserted(bpProxies, p, [proxy |-> x, rate |-> rate])
  /\ bpWeak' = Replaced(bpWeak, d, x)
  /\ bpState' = [bpState EXCEPT ![x] = [of |-> d, at |-> "STANDBY"]]

----------------------------------------------------------------------------------
(* The module *)
\* connectExternalDevice(): nothing but an id remains of an attempt that fails.
ConnectDevice(d, rate, ok) ==
  /\ bpNextPort <= LastPortId /\ \A p \in DOMAIN bpPorts : bpPorts[p] # d
  /\ bpNextPort' = bpNextPort + 1
  /\ IF ok THEN /\ createProxyFor(bpNextPort, d, rate)
                /\ bpPorts' = Replaced(bpPorts, bpNextPort, d)
     ELSE UNCHANGED <<bpPorts, bpProxies, bpWeak, bpState>>
  /\ UNCHANGED <<bpConnections, bpStreams, bpSettings>>

\* Mutant: the proxy of the port is not given back.
PortOnly(p) ==
  /\ p \in DOMAIN bpPorts /\ bpPorts' = Erased(bpPorts, p) /\ bpProxies' = bpProxies
  /\ UNCHANGED <<bpNextPort, bpWeak, bpConnections, bpStreams, bpState, bpSettings>>
DisconnectDevice(p) ==
  /\ p \in DOMAIN bpPorts
  /\ bpPorts' = Erased(bpPorts, p) /\ bpProxies' = Erased(bpProxies, p)
  /\ UNCHANGED <<bpNextPort, bpWeak, bpConnections, bpStreams, bpState, bpSettings>>

ProxyInUse(d) == d \in DOMAIN bpWeak /\ Alive(bpWeak[d]) /\ bpState[bpWeak[d]].of = d
StreamPlaysTo(d) == ProxyInUse(d) /\ \E m \in MixHandles : bpStreams[m].proxy = bpWeak[d]
\* setAudioPortConfig() of a device port: findOrCreateProxy(). The outcome of the
\* stack's part does not change that of the call.
ConfigureDevice(p, rate, ok) ==
  /\ p \in DOMAIN bpPorts \ DOMAIN bpProxies
  /\ LET d == bpPorts[p]
     IN /\ ConfiguresInUse \/ ~StreamPlaysTo(d)
        /\ IF ok /\ ProxyInUse(d)
           THEN /\ bpProxies' = Inserted(bpProxies, p, [proxy |-> bpWeak[d], rate |-> rate])
                /\ UNCHANGED <<bpWeak, bpState>>
           ELSE IF ok THEN createProxyFor(p, d, rate)
           ELSE bpWeak' = Erased(bpWeak, d) /\ UNCHANGED <<bpProxies, bpState>>
  /\ UNCHANGED <<bpPorts, bpNextPort, bpConnections, bpStreams, bpSettings>>

\* checkAudioPatchEndpointsMatch(): a device without a proxy matches anything and
\* is not remembered; neither is a second device of a mix port.
PatchEndpoints(m, p, rate) ==
  /\ p \in DOMAIN bpPorts \intersect DOMAIN bpProxies
  /\ bpProxies[p].rate = rate
  /\ bpConnections' = Inserted(bpConnections, m, p)
  /\ UNCHANGED <<bpPorts, bpNextPort, bpProxies, bpWeak, bpStreams, bpState, bpSettings>>

\* fetchAndCheckProxy(): the proxy of the device that the mix port was patched to
\* leaves the module, whether or not the stream is then opened.
Fetched(m) ==
  IF m \in DOMAIN bpConnections /\ bpConnections[m] \in DOMAIN bpProxies
  THEN bpProxies[bpConnections[m]].proxy ELSE NoProxy
\* Mutant: the module keeps a reference to the proxy.
Lent(m) == bpProxies
Handed(m) == IF Fetched(m) = NoProxy THEN bpProxies ELSE Erased(bpProxies, bpConnections[m])
OpenOnProxy(m, rate) ==
  /\ bpStreams[m].at = "none"
  /\ bpStreams' = IF Fetched(m) # NoProxy /\ bpProxies[bpConnections[m]].rate # rate
                  THEN bpStreams
                  ELSE [bpStreams EXCEPT ![m] = [NoStream EXCEPT !.at = "open",
                                                                 !.proxy = Fetched(m)]]
  /\ bpProxies' = Handed(m) /\ bpConnections' = Erased(bpConnections, m)
  /\ UNCHANGED <<bpPorts, bpNextPort, bpWeak, bpState, bpSettings>>

----------------------------------------------------------------------------------
(* The streams *)
StreamStep(m, from, state) ==
  /\ bpStreams[m].at = "open" /\ bpStreams[m].proxy # NoProxy
  /\ bpState[bpStreams[m].proxy].at \in from
  /\ bpState' = [bpState EXCEPT ![bpStreams[m].proxy].at = state]
  /\ UNCHANGED <<bpModule, bpSettings>>
StartPort(m) == /\ bpStreams[m].enabled /\ StreamStep(m, {"STANDBY"}, "STARTED")
                /\ UNCHANGED bpStreams
SuspendPort(m) == StreamStep(m, {"STARTED"}, "STANDBY") /\ UNCHANGED bpStreams
HeldElsewhere(m) == {bpProxies[p].proxy : p \in DOMAIN bpProxies}
                    \union {bpStreams[n].proxy : n \in MixHandles \ {m}}
\* close(): prepareToClose() stops the port, the worker then lets it go.
PrepareToClose(m) == /\ StreamStep(m, {"DISABLED", "STANDBY", "STARTED"}, "DISABLED")
                     /\ bpStreams' = [bpStreams EXCEPT ![m].at = "closing"]
ShutdownStream(m) ==
  /\ \/ bpStreams[m].at = "closing"
     \/ bpStreams[m].at = "open" /\ bpStreams[m].proxy = NoProxy
  /\ bpStreams' = [bpStreams EXCEPT ![m] = NoStream]
  /\ bpState' = [x \in ProxyIds |->
       IF x # bpStreams[m].proxy THEN bpState[x]
       ELSE IF x \in HeldElsewhere(m) THEN [bpState[x] EXCEPT !.at = "DISABLED"] ELSE Unregistered]
  /\ UNCHANGED <<bpModule, bpSettings>>
\* The session of a proxy ends.
SessionEnds(x) ==
  /\ Alive(x) /\ bpState' = [bpState EXCEPT ![x].at = "DISABLED"]
  /\ UNCHANGED <<bpModule, bpStreams, bpSettings>>

----------------------------------------------------------------------------------
(* The profiles *)
\* setEnabled() of a profile, and with it every stream's own call of
\* bluetoothParametersUpdated(): each applies the setting of its own profile. Of two
\* streams with one proxy the second finds it as the first leaves it.
\* Mutant: the first stream that reports an error ends the round.
FirstOnly(streams) == IF streams = {} THEN {} ELSE {CHOOSE m \in streams : TRUE}
Told(streams) == streams
ToldProxies == {bpStreams[m].proxy : m \in Told({n \in MixHandles : bpStreams[n].proxy # NoProxy})}
Switched(d, on) == [bpSettings EXCEPT ![d] = on]
SetEnabled(d, on, failing) ==
  /\ bpSettings' = Switched(d, on)
  /\ bpState' = [x \in ProxyIds |->
       IF x \notin ToldProxies THEN bpState[x]
       ELSE [bpState[x] EXCEPT !.at = IF ~bpSettings'[bpState[x].of] THEN "DISABLED"
                                      ELSE IF @ = "DISABLED" THEN "STANDBY" ELSE @]]
  /\ \E turned \in [ToldProxies -> MixHandles] :
       /\ \A x \in ToldProxies : bpStreams[turned[x]].proxy = x
       /\ bpStreams' = [m \in MixHandles |->
            LET x == bpStreams[m].proxy
            IN IF /\ x \in ToldProxies /\ turned[x] = m /\ bpState'[x] # bpState[x]
                  /\ ~(bpState[x].at = "STARTED" /\ failing)
               THEN [bpStreams[m] EXCEPT !.enabled = bpSettings'[bpState[x].of]] ELSE bpStreams[m]]
  /\ UNCHANGED bpModule

ProxiesNext ==
  \/ \E d \in Descriptions, ok \in BOOLEAN : \E rate \in LoadedRates(d) : ConnectDevice(d, rate, ok)
  \/ \E p \in DOMAIN bpPorts : \/ DisconnectDevice(p)
                              \/ \E rate \in LoadedRates(bpPorts[p]), ok \in BOOLEAN :
                                   ConfigureDevice(p, rate, ok)
  \/ \E m \in MixHandles : \/ StartPort(m) \/ SuspendPort(m)
                           \/ PrepareToClose(m) \/ ShutdownStream(m)
                           \/ \E rate \in BtRates : OpenOnProxy(m, rate)
  \/ \E m \in MixHandles, p \in DOMAIN bpPorts, rate \in BtRates : PatchEndpoints(m, p, rate)
  \/ \E x \in ProxyIds : SessionEnds(x)
  \/ \E d \in Descriptions, on, failing \in BOOLEAN : SetEnabled(d, on, failing)
ProxiesSpec == ProxiesInit /\ [][ProxiesNext]_bpVars

(* The port of a device is in the hands of one stream: closing it stops, and    *)
(* switching off disables, what no other stream plays through.                   *)
OneStreamPerPort ==
  \A m, n \in MixHandles : bpStreams[m].proxy = bpStreams[n].proxy
                            => m = n \/ bpStreams[m].proxy = NoProxy

(* Once a device is disconnected the module holds no port for it: the session   *)
(* ends with the last stream that plays through it.                              *)
PortsAreGivenBack == DOMAIN bpProxies \subseteq DOMAIN bpPorts

Silenced ==
  bpSettings' # bpSettings =>
    \A m \in MixHandles : bpStreams[m].proxy # NoProxy =>
      LET x == bpState'[bpStreams[m].proxy] IN bpSettings'[x.of] \/ x.at = "DISABLED"
(* When the setting of a profile has been passed on, nothing plays that is      *)
(* switched off, though every stream reports an error for the second of the two *)
(* keys it is filed under.                                                       *)
SwitchedOffIsSilent == [][Silenced]_bpVars
==================================================================================
