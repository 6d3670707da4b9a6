------------------------------- MODULE MpegBursts -------------------------------
(* An MP3 file written to an offload stream: the client sends it in bursts cut  *)
(* anywhere and sends again what was not taken; the handler of a burst finds    *)
(* tags and frames in it and lengthens the clip that the DSP is to play.         *)
EXTENDS Naturals, Sequences, FiniteSets
CONSTANTS
  Files,          \* the files: sets of items with a kind, a start and a length
  BurstSizes,     \* bytes in a burst
  TagHeader,      \* kID3v2TagHeaderSize
  TagIdentifier,  \* kID3TagIdentifierSize
  FrameHeader,    \* kFrameHeaderSize
  FrameSamples    \* frameSize of a frame

VARIABLES
  mgFile,     \* the file
  mgPosition, \* the first byte that the stream has not taken
  mgAt,       \* currentPtr and endPtr of the handler; equal between bursts
  mgEnd,
  mgPending,  \* mMpegFrameState.bytesPending
  mgFrame,    \* its isAudioFrame and totalFrameLengthBytes
  mgEnded,    \* its clipEnded
  mgClips,    \* mState.clips, with what has been played of them
  mgFailed    \* the stream is in ERROR
mgVars == <<mgFile, mgPosition, mgAt, mgEnd, mgPending, mgFrame, mgEnded, mgClips, mgFailed>>

StopOf(i) == i.start + i.length
EndsFile(i, file) == \A j \in file : StopOf(j) <= StopOf(i)
\* A file is its items, one behind the other from byte 0 on; an item is at least as
\* long as what it is known by. A tag of version 2 stands in front of a frame, one of
\* version 1 in front of a frame or of the other tag, or at the end of the file.
MinLength(kind) == CASE kind = "id3v2" -> TagHeader
                     [] kind = "id3v1" -> TagIdentifier
                     [] kind = "frame" -> FrameHeader
MayFollow(i, j) ==
  j.start = StopOf(i) /\ (i.kind = "frame" \/ j.kind = "frame" \/ (i.kind = "id3v1" /\ j.kind = "id3v2"))
ASSUME FilesAssumption ==
  /\ {TagHeader, TagIdentifier, FrameHeader} \subseteq Nat \ {0} /\ TagIdentifier <= FrameHeader
  /\ FrameSamples \in Nat /\ BurstSizes \subseteq Nat \ {0}
  /\ \A file \in Files :
       /\ IsFiniteSet(file)
       /\ file \subseteq [kind : {"id3v2", "id3v1", "frame"}, start : Nat, length : Nat]
       /\ \A i \in file : MinLength(i.kind) <= i.length
       /\ \A i, j \in file : i = j \/ StopOf(i) <= j.start \/ StopOf(j) <= i.start
       /\ \A i \in file : (i.kind # "id3v2" /\ EndsFile(i, file)) \/ \E j \in file : MayFollow(i, j)
       /\ (\E i \in file : i.start = 0) /\ (\E i \in file : EndsFile(i, file))

FileEnd == CHOOSE e \in {StopOf(i) : i \in mgFile} : \A i \in mgFile : StopOf(i) <= e
Nearer(a, b) == IF a < b THEN a ELSE b
Farther(a, b) == IF a < b THEN b ELSE a
\* Mutant: the length of the item, not that of its rest.
WholeItem(i, p) == i.length
RestOf(i, p) == StopOf(i) - p
Between == mgAt = mgEnd

MpegInit ==
  /\ mgFile \in Files /\ mgPosition = 0 /\ mgAt = 0 /\ mgEnd = 0 /\ mgPending = 0
  /\ mgFrame = [audio |-> FALSE, length |-> 0] /\ mgEnded = FALSE /\ mgClips = <<>>
  /\ mgFailed = FALSE

\* Mutant: the whole frame is counted with its header, as if none were cut.
WholeFrames(bytes, length) == FrameSamples
\* What the bytes of a frame last, rounded down.
SamplesOf(bytes, length) == (FrameSamples * bytes) \div length
\* updateLastFrames()
LastLengthened(clips, n) ==
  IF clips = <<>> THEN clips ELSE [clips EXCEPT ![Len(clips)] = @ + n]

----------------------------------------------------------------------------------
(* findID3v2Tag(), findID3v1Tag() and findMpegFrame(), from byte p of the file   *)
(* with the buffer's end at e: the tag that begins there, and the first header   *)
(* of a frame behind it.                                                         *)
TagAt(p, e) == {i \in mgFile : i.start = p /\ \/ i.kind = "id3v2" /\ p + TagHeader <= e
                                              \/ i.kind = "id3v1" /\ p + TagIdentifier <= e}
BehindTag(p, e) == CHOOSE q \in 0..e :
  IF TagAt(p, e) = {} THEN q = p ELSE \E i \in TagAt(p, e) : q = Nearer(StopOf(i), e)
FramesIn(p, e) == {f \in mgFile : /\ f.kind = "frame" /\ BehindTag(p, e) <= f.start
                                  /\ f.start + FrameHeader <= e}
FirstFrame(p, e) == {f \in FramesIn(p, e) : \A g \in FramesIn(p, e) : f.start <= g.start}
TagOnly(p, e) == TagAt(p, e) # {} /\ BehindTag(p, e) = e
NothingFound(p, e) == ~TagOnly(p, e) /\ FramesIn(p, e) = {}
\* The last item found, and where the search leaves off.
Found(p, e) == IF TagOnly(p, e) THEN TagAt(p, e) ELSE FirstFrame(p, e)
Unread(p, e) == Farther(BehindTag(p, e), (e + 1) - Nearer(FrameHeader, e + 1))

----------------------------------------------------------------------------------
(* handleMpegTransfer() *)
StillPending(size) == mgPending - Nearer(mgPending, size)
\* No burst ends in a tag of version 2 that it does not begin with, in the tag's header,
\* or less than the header of a frame behind the tag: there the parser loses the tag,
\* and may count its bytes as audio.
HidesTag(e) ==
  \E i \in mgFile : /\ i.kind = "id3v2" /\ i.start < e /\ e + 1 < StopOf(i) + FrameHeader
                    /\ (mgPosition # i.start \/ e < i.start + TagHeader)
BeginBurst(size) ==
  /\ Between /\ ~mgFailed /\ mgPosition + size <= FileEnd
  /\ ~HidesTag(mgPosition + size)
  /\ LET n == Nearer(mgPending, size)
     IN /\ mgAt' = mgPosition + n /\ mgPosition' = mgPosition + n
        /\ mgClips' = IF mgFrame.audio /\ mgFrame.length > 0 /\ n > 0
                      THEN LastLengthened(mgClips, SamplesOf(n, mgFrame.length)) ELSE mgClips
  /\ mgEnd' = mgPosition + size /\ mgPending' = StillPending(size)
  /\ UNCHANGED <<mgFile, mgFrame, mgEnded, mgFailed>>

\* The burst ends at byte p: the client goes on from there.
EndBurst(p) == mgAt' = p /\ mgEnd' = p /\ mgPosition' = p

FindNothing ==
  /\ ~Between /\ NothingFound(mgAt, mgEnd)
  /\ EndBurst(Unread(mgAt, mgEnd)) /\ mgPending' = 0
  /\ UNCHANGED <<mgFile, mgFrame, mgEnded, mgClips, mgFailed>>

\* A tag of version 2 that nothing follows in the burst has no sample rate.
FindTagOnly ==
  /\ ~Between /\ \E i \in TagAt(mgAt, mgEnd) : i.kind = "id3v2"
  /\ TagOnly(mgAt, mgEnd) /\ mgFailed' = TRUE /\ EndBurst(mgAt)
  /\ mgFrame' = [mgFrame EXCEPT !.audio = FALSE]
  /\ UNCHANGED <<mgFile, mgPending, mgEnded, mgClips>>

\* Anything else: a frame behind a tag counts as the tag.
FindItem == \E i \in Found(mgAt, mgEnd) :
  LET tags == TagAt(mgAt, mgEnd)
      ends == \E t \in tags : t.kind = "id3v1"
      after == Nearer(StopOf(i), mgEnd)
      begins == ~ends /\ (tags # {} \/ mgClips = <<>> \/ mgEnded)
      clips == IF begins THEN Append(mgClips, 0) ELSE mgClips
      length == IF i.kind = "frame" THEN i.length ELSE 0
  IN /\ ~Between /\ (TagOnly(mgAt, mgEnd) => ends)
     /\ mgEnded' = (ends \/ (mgEnded /\ ~begins))
     /\ mgClips' = IF tags = {} THEN LastLengthened(clips, SamplesOf(after - mgAt, length)) ELSE clips
     /\ IF after = mgEnd
        THEN /\ EndBurst(after) /\ mgPending' = RestOf(i, after)
             /\ mgFrame' = [audio |-> tags = {}, length |-> length]
        ELSE /\ mgAt' = after /\ mgFrame' = [mgFrame EXCEPT !.audio = tags = {}]
             /\ UNCHANGED <<mgPosition, mgEnd, mgPending>>
     /\ UNCHANGED <<mgFile, mgFailed>>

MpegNext == \/ \E size \in BurstSizes : BeginBurst(size)
            \/ FindNothing \/ FindTagOnly \/ FindItem
MpegSpec == MpegInit /\ [][MpegNext]_mgVars

(* Between bursts the parser knows where the next item of the file begins: what *)
(* is pending is the rest of an item that was cut, however often.                *)
PendingIsRest ==
  Between /\ mgPending > 0 =>
    \E i \in mgFile : i.start < mgPosition /\ mgPosition + mgPending = StopOf(i)

\* The sum of the durations of the clips: the frames of clip k are <<k, 1>>, <<k, 2>>, ...
ClipFrames(clips) == UNION {{k} \X (1..clips[k]) : k \in DOMAIN clips}
Durations == Cardinality(ClipFrames(mgClips))
\* Of the file up to byte p: the frames that end there, and what the one lasts that is cut.
Frames == {i \in mgFile : i.kind = "frame"}
TakenFrames(p) == {f \in Frames : StopOf(f) <= p}
CutFrames(p) == {f \in Frames : f.start < p /\ p < StopOf(f)}
PartOfCut(p) == IF CutFrames(p) = {} THEN 0
                ELSE LET f == CHOOSE g \in CutFrames(p) : TRUE IN SamplesOf(p - f.start, f.length)

(* However the file is cut, no frame is counted for more than it lasts: the     *)
(* durations of the clips do not exceed that of what has been taken.             *)
DurationIsBounded ==
  Durations <= FrameSamples * Cardinality(TakenFrames(mgAt)) + PartOfCut(mgAt)

==================================================================================
