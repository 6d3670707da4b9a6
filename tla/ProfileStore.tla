------------------------------ MODULE ProfileStore ------------------------------
(* The installed profile and its predecessor, as a2bctl writes them: each file *)
(* is replaced by an exclusively created .new file that is written, synced and *)
(* renamed, under a lock file, by callers that can be killed and on storage    *)
(* that can lose power at any step. One profile id: ids share only the lock.   *)
EXTENDS Naturals, Sequences
CONSTANTS StoreCallers, StoreTexts

Nobody == "nobody"
ASSUME StoreCallersAssumption == Nobody \notin StoreCallers
StoreFile == {"main", "previous"}
NoText == [text |-> "none", data |-> "none"]
NoStoreCall == [op |-> "none", text |-> "none", old |-> "none", todo |-> <<>>]

VARIABLES
  storeNames,   \* the files that a reader finds: the two profiles
  storeDisk,    \* the names as the last sync of the directory left them
  storeTemp,    \* the .new file of each
  storeLock,    \* the holder of the flock
  storeCall,    \* the command of each caller and its remaining steps
  storeLast     \* history: what the last call that changed the store promised

storeVars == <<storeNames, storeDisk, storeTemp, storeLock, storeCall, storeLast>>

Contents == [text: StoreTexts, data: {"partial", "written", "synced"}] \union {NoText}
StoreTypeOK ==
  /\ storeNames \in [StoreFile -> Contents] /\ storeDisk \in [StoreFile -> Contents]
  /\ storeTemp \in [StoreFile -> Contents]
  /\ storeLock \in StoreCallers \union {Nobody}
  /\ \A c \in StoreCallers : storeCall[c].op \in {"none", "install", "rollback"}

StoreInit ==
  /\ storeNames = [f \in StoreFile |-> NoText] /\ storeDisk = storeNames
  /\ storeTemp = storeNames
  /\ storeLock = Nobody
  /\ storeCall = [c \in StoreCallers |-> NoStoreCall]
  /\ storeLast = NoStoreCall

StoreStep(c, step) == /\ storeCall[c].todo # <<>> /\ Head(storeCall[c].todo) = step
                      /\ (step[1] = "lock" \/ storeLock = c)
Advance(c) == storeCall' = [storeCall EXCEPT ![c].todo = Tail(@)]
\* Mutants: the data, or the directory, is not synced.
ReplaceUnsynced(f) == << <<"create", f>>, <<"write", f>>, <<"rename", f>>, <<"directory", f>> >>
ReplaceUnsettled(f) == << <<"create", f>>, <<"write", f>>, <<"sync", f>>, <<"rename", f>> >>

ReplaceSteps(f) == << <<"create", f>>, <<"write", f>>, <<"sync", f>>, <<"rename", f>>,
                      <<"directory", f>> >>
Finish(c) == /\ storeCall' = [storeCall EXCEPT ![c] = NoStoreCall]
             /\ storeLock' = IF storeLock = c THEN Nobody ELSE storeLock

install(c, text) ==
  /\ storeCall[c] = NoStoreCall
  /\ storeCall' = [storeCall EXCEPT ![c] = [op |-> "install", text |-> text, old |-> "none",
                     todo |-> << <<"lock", "main">>, <<"read", "main">> >>]]
  /\ UNCHANGED <<storeNames, storeDisk, storeTemp, storeLock, storeLast>>
rollback(c) ==
  /\ storeCall[c] = NoStoreCall
  /\ storeCall' = [storeCall EXCEPT ![c] = [op |-> "rollback", text |-> "none", old |-> "none",
                     todo |-> << <<"lock", "main">>, <<"read", "previous">> >>]]
  /\ UNCHANGED <<storeNames, storeDisk, storeTemp, storeLock, storeLast>>
lock(c) == /\ StoreStep(c, <<"lock", "main">>) /\ storeLock = Nobody
           /\ storeLock' = c /\ Advance(c)
           /\ UNCHANGED <<storeNames, storeDisk, storeTemp, storeLast>>

(* install copies what is installed, if anything is; rollback needs a whole    *)
(* predecessor. What does not parse ends either.                               *)
readInstalled(c) ==
  /\ StoreStep(c, <<"read", "main">>)
  /\ IF storeNames["main"].data = "partial" THEN Finish(c)
     ELSE /\ storeCall' = [storeCall EXCEPT
               ![c].old = storeNames["main"].text,
               ![c].todo = (IF storeNames["main"] = NoText THEN <<>>
                            ELSE ReplaceSteps("previous"))
                           \o ReplaceSteps("main") \o << <<"end", "main">> >>]
          /\ UNCHANGED storeLock
  /\ UNCHANGED <<storeNames, storeDisk, storeTemp, storeLast>>
readPrevious(c) ==
  /\ StoreStep(c, <<"read", "previous">>)
  /\ IF storeNames["previous"].data \in {"none", "partial"} THEN Finish(c)
     ELSE /\ storeCall' = [storeCall EXCEPT
               ![c].text = storeNames["previous"].text,
               ![c].todo = ReplaceSteps("main") \o << <<"end", "main">> >>]
          /\ UNCHANGED storeLock
  /\ UNCHANGED <<storeNames, storeDisk, storeTemp, storeLast>>

TextFor(c, f) == IF f = "main" THEN storeCall[c].text ELSE storeCall[c].old
create(c, f) ==
  /\ StoreStep(c, <<"create", f>>)
  /\ IF storeTemp[f] # NoText THEN Finish(c) /\ UNCHANGED storeTemp
     ELSE /\ storeTemp' = [storeTemp EXCEPT ![f] = [text |-> TextFor(c, f), data |-> "partial"]]
          /\ Advance(c) /\ UNCHANGED storeLock
  /\ UNCHANGED <<storeNames, storeDisk, storeLast>>
write(c, f) == /\ StoreStep(c, <<"write", f>>)
               /\ storeTemp' = [storeTemp EXCEPT ![f].data = "written"]
               /\ Advance(c)
               /\ UNCHANGED <<storeNames, storeDisk, storeLock, storeLast>>
sync(c, f) == /\ StoreStep(c, <<"sync", f>>)
              /\ storeTemp' = [storeTemp EXCEPT ![f].data = "synced"]
              /\ Advance(c)
              /\ UNCHANGED <<storeNames, storeDisk, storeLock, storeLast>>
rename(c, f) == /\ StoreStep(c, <<"rename", f>>)
                /\ storeNames' = [storeNames EXCEPT ![f] = storeTemp[f]]
                /\ storeTemp' = [storeTemp EXCEPT ![f] = NoText]
                /\ storeLast' = NoStoreCall
                /\ Advance(c)
                /\ UNCHANGED <<storeDisk, storeLock>>
syncDirectory(c, f) == /\ StoreStep(c, <<"directory", f>>)
                       /\ storeDisk' = storeNames
                       /\ Advance(c)
                       /\ UNCHANGED <<storeNames, storeTemp, storeLock, storeLast>>
(* A write, sync or rename that fails removes the .new file.                    *)
replaceFails(c, f) ==
  /\ \E step \in {"write", "sync", "rename"} : StoreStep(c, <<step, f>>)
  /\ storeTemp' = [storeTemp EXCEPT ![f] = NoText]
  /\ Finish(c)
  /\ UNCHANGED <<storeNames, storeDisk, storeLast>>
acknowledge(c) == /\ StoreStep(c, <<"end", "main">>)
                  /\ storeLast' = [storeCall[c] EXCEPT !.todo = <<>>]
                  /\ Finish(c)
                  /\ UNCHANGED <<storeNames, storeDisk, storeTemp>>

(* The caller is killed: the kernel drops its lock and nothing else.            *)
Kill(c) == /\ storeCall[c] # NoStoreCall /\ Finish(c)
           /\ UNCHANGED <<storeNames, storeDisk, storeTemp, storeLast>>
(* Names that were not synced may be lost, and data that was not is.            *)
StorePowerLoss ==
  /\ \E names \in {storeNames, storeDisk} :
       /\ storeNames' = [f \in StoreFile |->
                           IF names[f].data = "written" THEN [names[f] EXCEPT !.data = "partial"]
                           ELSE names[f]]
       /\ storeDisk' = storeNames'
  /\ \E kept \in SUBSET StoreFile :
       storeTemp' = [f \in StoreFile |->
                       IF f \notin kept \/ storeTemp[f] = NoText THEN NoText
                       ELSE [storeTemp[f] EXCEPT !.data = "partial"]]
  /\ storeLock' = Nobody
  /\ storeCall' = [c \in StoreCallers |-> NoStoreCall]
  /\ UNCHANGED storeLast

StoreNext ==
  \/ StorePowerLoss
  \/ \E c \in StoreCallers :
       \/ \E text \in StoreTexts : install(c, text)
       \/ rollback(c) \/ lock(c) \/ readInstalled(c) \/ readPrevious(c)
       \/ \E f \in StoreFile : create(c, f) \/ write(c, f) \/ sync(c, f) \/ rename(c, f)
                               \/ syncDirectory(c, f) \/ replaceFails(c, f)
       \/ acknowledge(c) \/ Kill(c)
StoreSpec == StoreInit /\ [][StoreNext]_storeVars

(* A profile file that can be found is whole, whoever was killed and whenever  *)
(* power failed: the controller parses it at the next boot.                     *)
FilesAreWhole == \A f \in StoreFile : storeNames[f].data \in {"none", "synced"}

(* Once an install is acknowledged, and until a later command replaces a file, *)
(* the installed profile is its text and the predecessor is the profile it     *)
(* replaced, also after a power loss: that is what rollback brings back.        *)
InstallIsUndoable ==
  storeLast.op = "install" =>
    /\ storeNames["main"].text = storeLast.text
    /\ storeLast.old # "none" => storeNames["previous"].text = storeLast.old
=============================================================================
