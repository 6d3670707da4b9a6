----------------------------- MODULE BundleContext ------------------------------
(* One effect of the bundle: an equalizer, a bass boost, a virtualizer or a      *)
(* volume. Its operating mode in the library follows START and STOP and the      *)
(* devices; the level in the library leaves room for what the mode adds.         *)
EXTENDS Integers, FiniteSetsExt

CONSTANTS
  VolumesDb,   \* the volumes a client sets
  Energies     \* what an effect may add to the level, rounded up: at most 9 dB for a
               \* bass boost or a virtualizer, and 29 dB for an equalizer
ASSUME BundleAssumption == VolumesDb \subseteq -96..0 /\ Energies \subseteq 0..96 /\ 0 \in Energies

VARIABLES
  bnType,      \* mType
  bnEnabled,   \* mEnabled
  bnMode,      \* whether the operating mode is on in the library
  bnTemp,      \* mBassTempDisabled and mVirtualizerTempDisabled
  bnDevices,   \* whether the type is supported on all of mOutputDevice
  bnDrain,     \* whether the type is in mEffectInDrain, and its exit count is not 0
  bnCounts,    \* mNumberEffectsEnabled and mNumberEffectsCalled
  bnEnergy,    \* what the effect adds while the mode is on
  bnVolume,    \* mVolumedB, mLevelSaveddB and mMuteEnabled
  bnLevel      \* VC_EffectLevel in the library
bnVars == <<bnType, bnEnabled, bnMode, bnTemp, bnDevices, bnDrain, bnCounts, bnEnergy,
            bnVolume, bnLevel>>

BundleTypes == {"EQUALIZER", "BASS_BOOST", "VIRTUALIZER", "VOLUME"}
FollowsDevices == bnType \in {"BASS_BOOST", "VIRTUALIZER"}
TempDisabled == FollowsDevices /\ bnTemp[bnType]

BnInit ==
  /\ bnType \in BundleTypes /\ bnEnabled = FALSE /\ bnMode = FALSE
  /\ bnTemp = [BASS_BOOST |-> FALSE, VIRTUALIZER |-> FALSE]
  /\ bnDevices = TRUE /\ bnDrain = [bit |-> FALSE, exit |-> FALSE]
  /\ bnCounts = [enabled |-> 0, called |-> 0]
  /\ bnEnergy \in IF bnType \in {"EQUALIZER", "VIRTUALIZER"} THEN Energies ELSE {0}
  /\ bnVolume = [db |-> 0, saved |-> 0, mute |-> FALSE] /\ bnLevel = 0

----------------------------------------------------------------------------------
\* limitLevel(): the volume, lowered by what exceeds 0 with the energy of the
\* active mode, and not below -96. Mutant: the volume alone.
VolumeOnly(mode, energy, volume) == bnLevel' = volume.db
limitLevel(mode, energy, volume) ==
  LET round == IF mode THEN energy ELSE 0
      correction == Max({0, round + volume.db})
  IN bnLevel' = Max({-96, volume.db - correction})
\* enableOperatingMode() and disableOperatingMode().
OperatingMode(on) ==
  /\ bnMode' = (on /\ bnType # "VOLUME")
  /\ limitLevel(bnMode', bnEnergy, bnVolume)

\* The effect counts as one more unless it is still draining: a volume is while its
\* bit is set, the others while samples of their tail are left.
\* Mutant: it counts anew each time.
CountAnew == TRUE
Counted == ~(IF bnType = "VOLUME" THEN bnDrain.bit ELSE bnDrain.exit)
enableBundle ==
  /\ ~bnEnabled /\ bnEnabled' = TRUE
  /\ bnDrain' = [bit |-> FALSE, exit |-> bnType # "VOLUME"]
  /\ bnCounts' = IF Counted THEN [bnCounts EXCEPT !.enabled = @ + 1] ELSE bnCounts
  /\ IF TempDisabled THEN UNCHANGED <<bnMode, bnLevel>> ELSE OperatingMode(TRUE)
  /\ UNCHANGED <<bnType, bnTemp, bnDevices, bnEnergy, bnVolume>>
disableBundle ==
  /\ bnEnabled /\ bnEnabled' = FALSE
  /\ bnDrain' = [bnDrain EXCEPT !.bit = TRUE] /\ OperatingMode(FALSE)
  /\ UNCHANGED <<bnType, bnTemp, bnDevices, bnCounts, bnEnergy, bnVolume>>

setOutputDevice(supported) ==
  /\ bnDevices' = supported
  /\ IF ~FollowsDevices THEN UNCHANGED <<bnMode, bnTemp, bnLevel>>
     ELSE /\ bnTemp' = [bnTemp EXCEPT ![bnType] = ~supported]
          /\ IF bnEnabled # supported THEN OperatingMode(supported) ELSE UNCHANGED <<bnMode, bnLevel>>
  /\ UNCHANGED <<bnType, bnEnabled, bnDrain, bnCounts, bnEnergy, bnVolume>>
\* setForcedDevice(): a device the virtualizer does not support, or none, leaves
\* the decision to the output devices. No setter looks at the type of its effect:
\* this one disables the mode of another type, once.
setForcedDevice(supported) ==
  /\ LET on == bnType = "VIRTUALIZER" /\ bnEnabled /\ (supported \/ bnDevices)
     IN /\ bnTemp' = [bnTemp EXCEPT !["VIRTUALIZER"] = ~on]
        /\ IF bnTemp["VIRTUALIZER"] = on THEN OperatingMode(on) ELSE UNCHANGED <<bnMode, bnLevel>>
  /\ UNCHANGED <<bnType, bnEnabled, bnDevices, bnDrain, bnCounts, bnEnergy, bnVolume>>

----------------------------------------------------------------------------------
\* setBassBoostStrength() and setVirtualizerStrength() limit the level again; what
\* the virtualizer adds does not depend on its strength.
setStrength(energy) ==
  /\ bnEnergy' = IF bnType = "BASS_BOOST" THEN energy ELSE bnEnergy
  /\ limitLevel(bnMode, bnEnergy', bnVolume)
  /\ UNCHANGED <<bnType, bnEnabled, bnMode, bnTemp, bnDevices, bnDrain, bnCounts, bnVolume>>
\* setEqualizerBandLevels() and setEqualizerPreset() do not.
updateControlParameter(energy) ==
  /\ bnEnergy' = IF bnType = "EQUALIZER" THEN energy ELSE bnEnergy
  /\ UNCHANGED <<bnType, bnEnabled, bnMode, bnTemp, bnDevices, bnDrain, bnCounts, bnVolume, bnLevel>>
\* setVolumeLevel(), of a client's parameter and of setVolumeStereo().
setVolumeLevel(db) ==
  /\ bnVolume' = IF bnVolume.mute THEN [bnVolume EXCEPT !.saved = db] ELSE [bnVolume EXCEPT !.db = db]
  /\ limitLevel(bnMode, bnEnergy, bnVolume')
  /\ UNCHANGED <<bnType, bnEnabled, bnMode, bnTemp, bnDevices, bnDrain, bnCounts, bnEnergy>>
setVolumeMute(mute) ==
  /\ bnVolume' = IF mute THEN [db |-> -96, saved |-> bnVolume.db, mute |-> TRUE]
                 ELSE [bnVolume EXCEPT !.db = bnVolume.saved, !.mute = FALSE]
  /\ limitLevel(bnMode, bnEnergy, bnVolume')
  /\ UNCHANGED <<bnType, bnEnabled, bnMode, bnTemp, bnDevices, bnDrain, bnCounts, bnEnergy>>

\* process(), which EffectImpl calls between START and STOP: the library takes the
\* burst when as many effects were called as are counted.
processBundle ==
  /\ bnEnabled
  /\ bnCounts' = [bnCounts EXCEPT !.called = IF @ + 1 >= bnCounts.enabled THEN 0 ELSE @ + 1]
  /\ UNCHANGED <<bnType, bnEnabled, bnMode, bnTemp, bnDevices, bnDrain, bnEnergy, bnVolume, bnLevel>>

BnNext ==
  \/ enableBundle \/ disableBundle \/ processBundle
  \/ \E on \in BOOLEAN : setOutputDevice(on) \/ setForcedDevice(on) \/ setVolumeMute(on)
  \/ \E energy \in Energies : setStrength(energy) \/ updateControlParameter(energy)
  \/ \E db \in VolumesDb : setVolumeLevel(db)
BnSpec == BnInit /\ [][BnNext]_bnVars

----------------------------------------------------------------------------------
(* Every burst of an enabled effect reaches the library: however often it was    *)
(* stopped in its tail and started again, the next process() completes the       *)
(* round of the effects that are counted as enabled.                             *)
BurstReachesLibrary == bnEnabled => bnCounts.called + 1 >= bnCounts.enabled

(* A bass boost or a virtualizer cannot drive the output over full scale: the    *)
(* level in the library and what the active mode adds to it stay at 0 dB or      *)
(* below, through every change of the mode, the devices, the strength and the    *)
(* volume.                                                                       *)
LevelLimited == FollowsDevices /\ bnMode => bnLevel + bnEnergy <= 0

================================================================================
