-------------------------------- MODULE MCAudio --------------------------------
(* The audio service without its threads: the tables of the module, what its      *)
(* streams share or talk to, and the effects. In the code each part guards its    *)
(* own state: a behaviour is of one part, picked at the start, while the others   *)
(* keep their initial state, and a sentence about one part speaks of that part's  *)
(* behaviours only.                                                               *)
EXTENDS AudioModule, SubmixRoutes, BluetoothProxies, AlsaDevice, UsbMixer,
        SwitcherStream, MpegBursts, BundleContext, EffectConfig, EffectSessions,
        ReverbContext, DynamicsProcessing, VisualizerCapture, PolicyConfig

VARIABLE part
streamVars == <<moduleVars, rsVars, bpVars, adVars, umVars, swVars, mgVars, pcVars>>
effectVars == <<bnVars, cfVars, esVars, rvVars, dpVars, vzVars>>
audioVars == <<part, streamVars, effectVars>>

Init ==
  /\ part \in {"module", "submix", "bt_proxies", "alsa_device", "usb_mixer", "switcher", "mpeg",
               "bundle", "effect_file", "sessions", "reverb", "dynamics", "visualizer", "policy"}
  /\ ModuleInit /\ ProxiesInit /\ AlsaDeviceInit /\ SwitcherInit /\ CfInit /\ EsInit /\ VzInit
  \* One initial state of a part that has several stands in for the others.
  /\ SubmixInit /\ (part # "submix" => rsPresent = CHOOSE s \in SubmixSessions : TRUE)
  /\ UsbMixerInit /\ (part # "usb_mixer" =>
                        umWorks = [c \in UsbCards |-> [k \in MasterControls |-> 3]])
  /\ MpegInit /\ (part # "mpeg" => mgFile = CHOOSE f \in Files : TRUE)
  /\ BnInit /\ (part # "bundle" => bnType = "EQUALIZER" /\ bnEnergy = 0)
  /\ RvInit /\ (part # "reverb" => rvType = "AUX_ENV")
  /\ DpInit /\ (part # "dynamics" => dpArch = CHOOSE a \in Architectures : a.frequency)
  /\ PolicyInit /\ (part # "policy" => pcSource = "none")

Module(A) == /\ part = "module" /\ A
             /\ UNCHANGED <<part, rsVars, bpVars, adVars, umVars, swVars, mgVars, pcVars, effectVars>>
Submix(A) == /\ part = "submix" /\ A
             /\ UNCHANGED <<part, moduleVars, bpVars, adVars, umVars, swVars, mgVars, pcVars, effectVars>>
Proxies(A) == /\ part = "bt_proxies" /\ A
              /\ UNCHANGED <<part, moduleVars, rsVars, adVars, umVars, swVars, mgVars, pcVars, effectVars>>
Device(A) == /\ part = "alsa_device" /\ A
             /\ UNCHANGED <<part, moduleVars, rsVars, bpVars, umVars, swVars, mgVars, pcVars, effectVars>>
Mixer(A) == /\ part = "usb_mixer" /\ A
            /\ UNCHANGED <<part, moduleVars, rsVars, bpVars, adVars, swVars, mgVars, pcVars, effectVars>>
Switcher(A) == /\ part = "switcher" /\ A
               /\ UNCHANGED <<part, moduleVars, rsVars, bpVars, adVars, umVars, mgVars, pcVars, effectVars>>
Mpeg(A) == /\ part = "mpeg" /\ A
           /\ UNCHANGED <<part, moduleVars, rsVars, bpVars, adVars, umVars, swVars, pcVars, effectVars>>
Policy(A) == /\ part = "policy" /\ A
             /\ UNCHANGED <<part, moduleVars, rsVars, bpVars, adVars, umVars, swVars, mgVars, effectVars>>
Bundle(A) == /\ part = "bundle" /\ A
             /\ UNCHANGED <<part, cfVars, esVars, rvVars, dpVars, vzVars, streamVars>>
File(A) == /\ part = "effect_file" /\ A
           /\ UNCHANGED <<part, bnVars, esVars, rvVars, dpVars, vzVars, streamVars>>
Session(A) == /\ part = "sessions" /\ A
              /\ UNCHANGED <<part, bnVars, cfVars, rvVars, dpVars, vzVars, streamVars>>
Reverb(A) == /\ part = "reverb" /\ A
             /\ UNCHANGED <<part, bnVars, cfVars, esVars, dpVars, vzVars, streamVars>>
Dynamics(A) == /\ part = "dynamics" /\ A
               /\ UNCHANGED <<part, bnVars, cfVars, esVars, rvVars, vzVars, streamVars>>
Visualizer(A) == /\ part = "visualizer" /\ A
                 /\ UNCHANGED <<part, bnVars, cfVars, esVars, rvVars, dpVars, streamVars>>
Next ==
  \/ Module(ModuleNext) \/ Submix(SubmixNext) \/ Proxies(ProxiesNext)
  \/ Device(AlsaDeviceNext) \/ Mixer(UsbMixerNext) \/ Switcher(SwitcherNext) \/ Mpeg(MpegNext)
  \/ Policy(PolicyNext)
  \/ Bundle(BnNext) \/ File(CfNext) \/ Session(EsNext) \/ Reverb(RvNext)
  \/ Dynamics(DpNext) \/ Visualizer(VzNext)
AudioSpec == Init /\ [][Next]_audioVars
----------------------------------------------------------------------------------
(* The instance *)
CONSTANTS o1, o2, i1, i2
MCPort(tag, profiles) == [tag |-> tag, device |-> <<0, "none">>, profiles |-> profiles]
MCPorts == <<MCPort("mix", FALSE), MCPort("mix", TRUE), MCPort("attached", TRUE),
             MCPort("template", FALSE)>>
MCRoutes == {[srcs |-> {1, 2}, sink |-> 3, exclusive |-> TRUE],
             [srcs |-> {1}, sink |-> 4, exclusive |-> FALSE]}
MCSessions == {{o1, i1}, {i1, i2}, {o1, o2}}
OneConfig(s) == 1
MCLoaded(d) == IF d = "a2dp" THEN {16} ELSE {44}
MCConnected == {{}, {"d"}, {"e"}}
\* Tags in front of the frames, between them and at the end of a first clip.
Item(kind, start, length) == [kind |-> kind, start |-> start, length |-> length]
MCFiles ==
  {{Item("id3v2", 0, 5), Item("frame", 5, 4), Item("frame", 9, 5), Item("id3v1", 14, 3),
    Item("frame", 17, 4), Item("frame", 21, 4)},
   {Item("frame", 0, 4), Item("frame", 4, 4), Item("id3v1", 8, 3), Item("id3v2", 11, 4),
    Item("frame", 15, 5), Item("frame", 20, 4)}}

\* Policy files: the two that the device ships, shortened, and others with faults.
D(tag, role, connection) == [tag |-> tag, role |-> role, connection |-> connection]
X(name, role) == [name |-> name, role |-> role]
R(sink, sources) == [sink |-> sink, sources |-> sources, type |-> "mix"]
Md(name, devices, attached, default, mixes, joins) ==
  [name |-> name, devicePorts |-> <<devices>>, mixPorts |-> <<mixes>>, attached |-> attached,
   default |-> default, routes |-> joins]
MCModuleElements ==
  {Md("primary", <<D("Speaker", "sink", ""), D("Built-In Mic", "source", "")>>,
      {"Speaker", "Built-In Mic"}, "Speaker", <<X("primary output", "source"), X("primary input", "sink")>>,
      <<R("Speaker", <<"primary output">>), R("primary input", <<"Built-In Mic">>)>>),
   Md("usb", <<D("Out", "sink", "usb"), D("In", "source", "usb"), D("Headset In", "source", "usb")>>, {}, "",
      <<X("usb_device output", "source"), X("usb_device input", "sink")>>,
      <<R("Out", <<"usb_device output">>), R("usb_device input", <<"In", "Headset In">>)>>),
   Md("car", <<D("Bus", "sink", ""), D("Front", "source", ""), D("Back", "source", "")>>,
      {"Bus", "Front", "Back"}, "Bus", <<X("in", "sink")>>, <<R("in", <<"Back", "Front">>)>>),
   Md("stub", <<D("Out", "sink", "usb")>>, {"Out"}, "Out", <<X("out", "source")>>, <<>>),
   Md("bluetooth", <<D("Out", "sink", "bt-a2dp")>>, {}, "", <<>>, <<R("Out", <<"a2dp output">>)>>),
   [name |-> "r_submix", devicePorts |-> <<<<>>, <<>>>>, mixPorts |-> <<>>, attached |-> {},
    default |-> "", routes |-> <<>>]}
MCAttribute(ref, default) == <<[ref |-> ref, default |-> default]>>
MCStrategyElements ==
  {[name |-> "STRATEGY_MEDIA", id |-> Missing, groups |-> <<MCAttribute("all", FALSE)>>],
   [name |-> "own", id |-> Missing, groups |-> <<MCAttribute(Missing, FALSE)>>],
   [name |-> "nav", id |-> Missing, groups |-> <<MCAttribute(Missing, TRUE)>>],
   [name |-> "nav", id |-> 1001, groups |-> <<>>],
   [name |-> "bad", id |-> 3, groups |-> <<>>],
   [name |-> "bad", id |-> Missing, groups |-> <<MCAttribute("none", FALSE)>>]}
MCReferences == [all |-> TRUE]
MCCurve(ref, points) == [ref |-> ref, points |-> points]
MCGroupElements == {[name |-> "g", curves |-> <<MCCurve("full", {}), MCCurve(Missing, {0, 100})>>],
                    [name |-> "h", curves |-> <<MCCurve("full", {}), MCCurve(Missing, {101})>>]}
MCStreamVolumes == {[stream |-> "music", curve |-> MCCurve("full", {})],
                    [stream |-> "music", curve |-> MCCurve(Missing, {50})],
                    [stream |-> "ring", curve |-> MCCurve("none", {})],
                    [stream |-> "ring", curve |-> MCCurve(Missing, {1})]}
MCVolumeReferences == [full |-> {0, 100}]
MCLegacy == [STRATEGY_MEDIA |-> 5]

MCVolumes == {-96, -4, 0}
MCTypes == [e \in Effects |-> IF e = "e3" THEN "VOLUME" ELSE "EQUALIZER"]

MCLibrary(library, uuid, type) == [library |-> library, uuid |-> uuid, type |-> type]
MCLibraries == {[name |-> "a", found |-> TRUE], [name |-> "b", found |-> TRUE],
                [name |-> "a", found |-> FALSE]}
MCEffectElements ==
  {[name |-> "volume", proxy |-> Nil, libraries |-> <<MCLibrary("a", "u1", Nil)>>],
   [name |-> "volume", proxy |-> Nil, libraries |-> <<MCLibrary("b", "u2", "t")>>],
   [name |-> "own", proxy |-> "p",
    libraries |-> <<MCLibrary("a", "u1", Nil), MCLibrary("b", "u3", "t")>>],
   [name |-> "own", proxy |-> Nil, libraries |-> <<MCLibrary("b", Nil, "t")>>]}
MCChains == {[type |-> "music", apply |-> <<"volume">>],
             [type |-> "music", apply |-> <<"own", "none", "volume">>],
             [type |-> Nil, apply |-> <<"volume">>]}

\* The two tables of the reverb, the second one cut to four rows, and two presets.
MCLevelMapping ==
  <<-12000, -4000, -3398, -3046, -2796, -2603, -2444, -2310, -2194, -2092, -2000>>
MCLPFMapping == <<[roomHf |-> -1000, lpf |-> 1666], [roomHf |-> -600, lpf |-> 2895],
                  [roomHf |-> -200, lpf |-> 6537], [roomHf |-> -18, lpf |-> 23999]>>
MCPresets ==
  [SMALLROOM |-> [roomLevel |-> -400, roomHfLevel |-> -600, decayTime |-> 1100,
                  decayHfRatio |-> 830, level |-> -400, diffusion |-> 1000, density |-> 1000],
   PLATE |-> [roomLevel |-> -400, roomHfLevel |-> -200, decayTime |-> 1300,
              decayHfRatio |-> 900, level |-> 0, diffusion |-> 1000, density |-> 750]]
MCSettings == [roomLevel |-> {-1000, 0}, roomHfLevel |-> {}, decayTime |-> {7001},
               decayHfRatio |-> {100}, level |-> {-600, 0}, diffusion |-> {}, density |-> {0}]

MCArchitecture(frequency, stage, bands) ==
  [frequency |-> frequency, limiter |-> stage = "preEq",
   inUse |-> [s \in {"preEq", "mbc", "postEq"} |-> s = stage],
   bandCount |-> [s \in {"preEq", "mbc", "postEq"} |-> IF s = stage THEN bands ELSE 0]]
MCArchitectures == {MCArchitecture(TRUE, "preEq", 1), MCArchitecture(TRUE, "postEq", 1),
                    MCArchitecture(FALSE, "preEq", 2)}
MCBands == {[on |-> TRUE, stop |-> 1, gain |-> 3], [on |-> FALSE, stop |-> 0, gain |-> 3]}
----------------------------------------------------------------------------------
(* The tables of the module agree through every order of connects, configs,      *)
(* patches and streams: ids resolve where a lookup would end the service, the     *)
(* index of the patches is theirs, a port has profiles while a device brings them *)
(* and a sink of exclusive routes is in one patch. The tables that come of a      *)
(* policy file do too: its routes name its ports, a strategy has the id of its     *)
(* name, a stream one volume group, and every module that is known is served.      *)
TablesAgree ==
  /\ part = "module" =>
       ModuleTypeOK /\ ReferencesHold /\ PatchesIndexed /\ ProfilesAreOwned /\ ExclusiveSink
  /\ part = "policy" =>
       /\ PolicyTypeOK /\ RoutesResolve /\ OneDefaultInput /\ StrategiesAreNamed
       /\ OneGroupPerStream /\ KnownModulesServed

(* What streams share follows them: a submix route counts its inputs and goes      *)
(* with its last stream, a Bluetooth port is in the hands of one stream and goes   *)
(* with its device.                                                                *)
SharedFollowsStreams ==
  /\ part = "submix" => InputsAreCounted /\ RoutesAreRemoved
  /\ part = "bt_proxies" => BluetoothProxiesTypeOK /\ OneStreamPerPort /\ PortsAreGivenBack

(* A USB card that was plugged in serves: a configuration that its port offers      *)
(* opens, and it has the master volume and mute of all cards.                       *)
CardsAreServed ==
  /\ part = "alsa_device" => OfferedConfigOpens
  /\ part = "usb_mixer" => UsbMixerTypeOK /\ MasterOnAllCards

(* An MP3 file cut anywhere: the parser knows where the item goes on that a burst   *)
(* cut, and no clip is longer than its frames.                                     *)
MpegClipsAreExact == part = "mpeg" => PendingIsRest /\ DurationIsBounded

(* No frame of an effect is held back or out of place: the block converter keeps     *)
(* less than one advance of a block, every burst of an enabled bundle effect reaches *)
(* the library, however often it was stopped in its tail, and what the visualizer    *)
(* shows is what was played, in order and once, wherever its ring wraps.             *)
NoFrameIsLost ==
  /\ part = "dynamics" => LatencyBounded
  /\ part = "bundle" => BurstReachesLibrary
  /\ part = "visualizer" => CaptureIsInOrder /\ MeasuresAreRecent

(* What a client has set with success is what the library works with: reverb        *)
(* parameters that share one of the library's, bands of a stage, a level that the    *)
(* modes and the volume limit together.                                             *)
ParametersAreApplied ==
  /\ part = "reverb" => LibraryFollowsParameters
  /\ part = "dynamics" => SuccessIsStored
  /\ part = "bundle" => LevelLimited

(* What was asked for holds for what serves it now: the inner stream has the effects *)
(* of the client and a stub no devices, a profile that was switched off is silent, a *)
(* burst is shaped with the parameters that were last set, and the chains of effects *)
(* stay as the file gave them.                                                       *)
RequestsAreFollowed ==
  []SwitcherKeepsRequests /\ SwitchedOffIsSilent /\ BurstIsShaped /\ ChainsStay
==================================================================================
