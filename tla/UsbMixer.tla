--------------------------------- MODULE UsbMixer ---------------------------------
(* The master mute and the master volume of the USB module, which               *)
(* UsbAlsaMixerControl applies to the mixers of the sound cards that it knows. A  *)
(* mixer control has a value per channel; a card may lack a control or fail to set *)
(* it from some channel on. The audio server makes one call at a time.             *)
EXTENDS Naturals, FiniteSets
CONSTANTS UsbCards,  \* numbers of sound cards
          Levels     \* volumes, in thousandths
ASSUME UsbMixerAssumption ==
  UsbCards \subseteq Nat /\ Levels \subseteq 0..1000 /\ 1000 \in Levels

UsbChannels == 1..2
MasterControls == {"MASTER_SWITCH", "MASTER_VOLUME"}
PortsPerCard == 2   \* a card has an input and an output port

VARIABLES
  umPorts,    \* the number of connected device ports per card
  umMixers,   \* the keys of mMixerControls
  umWorks,    \* per card and control, the first channel that cannot be set: 1 when
              \* there is no such control
  umValues,   \* per card and control, the values of the channels
  umMaster    \* mMasterMute and mMasterVolume of the module
umVars == <<umPorts, umMixers, umWorks, umValues, umMaster>>

UsbMixerTypeOK ==
  /\ umPorts \in [UsbCards -> 0..PortsPerCard] /\ umMixers \subseteq UsbCards
  /\ umWorks \in [UsbCards -> [MasterControls -> 1..3]]
  /\ umValues \in [UsbCards -> [MasterControls -> [UsbChannels -> Nat]]]
  /\ umMaster.mute \in BOOLEAN /\ umMaster.volume \in Levels

UsbMixerInit ==
  /\ umPorts = [c \in UsbCards |-> 0] /\ umMixers = {}
  /\ umWorks \in [UsbCards -> [MasterControls -> 1..3]]
  /\ umValues = [c \in UsbCards |-> [k \in MasterControls |-> [i \in UsbChannels |-> 7]]]
  /\ umMaster = [mute |-> FALSE, volume |-> 1000]

----------------------------------------------------------------------------------
(* Mixer. setMixerControlPercent() and setMixerControlValue() stop at the first   *)
(* error; a volume becomes a percentage, a mute the opposite of the switch.        *)
ValueOf(control, master) ==
  IF control = "MASTER_VOLUME" THEN master.volume \div 10
  ELSE IF master.mute THEN 0 ELSE 1
setMixerControl(values, card, control, master) ==
  [values EXCEPT ![card][control] =
     [i \in UsbChannels |-> IF i < umWorks[card][control] THEN ValueOf(control, master) ELSE @[i]]]

\* UsbAlsaMixerControl: one card after the other, until one fails.
Failing(control) == {c \in umMixers : umWorks[c][control] <= Cardinality(UsbChannels)}
setMasterOnCards(values, control, master) ==
  LET reached == {c \in umMixers : \A f \in Failing(control) : c <= f}
  IN [c \in UsbCards |-> IF c \in reached
                         THEN setMixerControl(values, c, control, master)[c] ELSE values[c]]

----------------------------------------------------------------------------------
\* Module::setMasterMute() and setMasterVolume(): the cards get the old value back
\* when one of them fails. Mutant: the others keep the new one.
NotReset(set, control) == set
Reset(set, control) == setMasterOnCards(set, control, umMaster)
setMaster(control, master) ==
  LET set == setMasterOnCards(umValues, control, master)
  IN /\ IF Failing(control) = {}
        THEN umMaster' = master /\ umValues' = set
        ELSE umMaster' = umMaster /\ umValues' = Reset(set, control)
     /\ UNCHANGED <<umPorts, umMixers, umWorks>>

(* onExternalDeviceConnectionChanged(): the values are set on a new mixer, which  *)
(* enters the map unless one of the same card is there.                            *)
connectDevice(card, opens) ==
  /\ umPorts[card] < PortsPerCard /\ umPorts' = [umPorts EXCEPT ![card] = @ + 1]
  /\ umMixers' = IF opens THEN umMixers \union {card} ELSE umMixers
  /\ umValues' = IF opens
                 THEN setMixerControl(setMixerControl(umValues, card, "MASTER_SWITCH", umMaster),
                                      card, "MASTER_VOLUME", umMaster)
                 ELSE umValues
  /\ UNCHANGED <<umWorks, umMaster>>
disconnectDevice(card) ==
  /\ umPorts[card] > 0 /\ umPorts' = [umPorts EXCEPT ![card] = @ - 1]
  /\ umMixers' = umMixers \ {card}
  /\ UNCHANGED <<umWorks, umValues, umMaster>>

UsbMixerNext ==
  \/ \E mute \in BOOLEAN : setMaster("MASTER_SWITCH", [umMaster EXCEPT !.mute = mute])
  \/ \E level \in Levels : setMaster("MASTER_VOLUME", [umMaster EXCEPT !.volume = level])
  \/ \E card \in UsbCards : disconnectDevice(card)
                            \/ \E opens \in BOOLEAN : connectDevice(card, opens)
UsbMixerSpec == UsbMixerInit /\ [][UsbMixerNext]_umVars

----------------------------------------------------------------------------------
(* "Master volume settings will be applied to all sound cards": a card that the   *)
(* module knows has its master mute and volume on every channel that can be set,    *)
(* also when a change has failed on another card.                                   *)
MasterOnAllCards ==
  \A card \in umMixers, control \in MasterControls, i \in UsbChannels :
    i < umWorks[card][control] => umValues[card][control][i] = ValueOf(control, umMaster)
=================================================================================
