--------------------------- MODULE SegmentProofs ---------------------------
(***************************************************************************)
(* That no Play is lost between the video lane and a resume, for every     *)
(* container, queue, pipeline, device and fault, and any number of pauses. *)
(* Each of the two may skip the one Play of a segment and leave it to the  *)
(* other.  What makes that safe is that there is always somebody on the    *)
(* way to it: while it is unclaimed, whoever has yet to look (LookInv);    *)
(* once it is claimed, whoever has yet to play (PlayInv).                  *)
(***************************************************************************)
EXTENDS Segment, TLAPS

(* What the claim of Play depends on.                                      *)
playVars == <<paused, fed, cut, ui, video, playRequested, playing>>

(* A pause under way is a pause.                                           *)
PauseInv == ui \in {"pausing", "muting"} => paused

(* Frames fed and nobody asked for Play: somebody is about to look.        *)
LookInv ==
  ~cut /\ ~playRequested /\ ~paused /\ fed > 0
    => video \in {"checking", "claiming"} \/ ui \in {"unmuting", "resuming", "claiming"}

(* Play asked for and not in effect: somebody is about to play.            *)
PlayInv ==
  ~cut /\ playRequested /\ ~paused /\ ~playing
    => video = "playing" \/ ui \in {"unmuting", "resuming", "playing", "replaying"}

ClaimInv == PauseInv /\ LookInv /\ PlayInv

-----------------------------------------------------------------------------
(* Types.                                                                  *)

(* The flags, each by itself.                                              *)
LEMMA Flags ==
  TypeOK <=>
    /\ stream \in Streams
    /\ running \in BOOLEAN /\ flowing \in BOOLEAN /\ closed \in BOOLEAN
    /\ interrupted \in BOOLEAN /\ playing \in BOOLEAN /\ stale \in BOOLEAN
    /\ playRequested \in BOOLEAN /\ paused \in BOOLEAN /\ cut \in BOOLEAN
    /\ reader \in {"reading", "pushing", "ended"} /\ read \in 0..Len(stream)
    /\ videoQueue \in 0..VideoSlots /\ audioQueue \in 0..AudioSlots
    /\ video \in {"popping", "pacing", "feeding", "checking", "claiming", "playing",
                  "leaving", "joining", "ended"}
    /\ audio \in {"popping", "pacing", "syncing", "writing", "ended"}
    /\ taken \in Nat /\ heard \in Nat /\ fed \in Nat /\ displayed \in Nat
    /\ sink \in {"running", "paused", "dropped"}
    /\ ui \in {"free", "pausing", "muting", "unmuting", "resuming", "claiming",
               "playing", "replaying"}
    /\ pauses \in Nat
BY DEF TypeOK

LEMMA Sizes ==
  /\ VideoSlots \in Nat /\ AudioSlots \in Nat
  /\ stream \in Streams => Len(stream) \in Nat
<1>1. stream \in Streams => stream \in Seq({"video", "audio"})
  BY StreamsAssumption DEF StreamsAssumption
<1> QED
  BY <1>1, SlotsAssumption DEF SlotsAssumption

LEMMA InitTyped == Init => TypeOK
<1> SUFFICES ASSUME Init PROVE TypeOK
  OBVIOUS
<1>1. read \in 0..Len(stream) /\ videoQueue \in 0..VideoSlots /\ audioQueue \in 0..AudioSlots
  BY Sizes DEF Init
<1>2. running \in BOOLEAN /\ flowing \in BOOLEAN /\ closed \in BOOLEAN
      /\ interrupted \in BOOLEAN /\ playing \in BOOLEAN /\ stale \in BOOLEAN
      /\ playRequested \in BOOLEAN /\ paused \in BOOLEAN /\ cut \in BOOLEAN
  BY DEF Init
<1> QED
  BY <1>1, <1>2, Flags DEF Init

LEMMA ReaderTyped == ASSUME TypeOK, ReaderStep PROVE TypeOK'
<1> USE DEF TypeOK, flags, queues, readerVars, videoVars, audioVars, pipeVars, uiVars
<1>1. CASE ReaderReads
  BY <1>1, Sizes DEF ReaderReads
<1>2. CASE ReaderPushes
  BY <1>2, Sizes DEF ReaderPushes
<1>3. CASE ReaderEnds
  BY <1>3 DEF ReaderEnds
<1> QED
  BY <1>1, <1>2, <1>3 DEF ReaderStep

LEMMA VideoTyped == ASSUME TypeOK, VideoStep PROVE TypeOK'
<1> USE DEF TypeOK, flags, queues, readerVars, videoVars, audioVars, pipeVars, uiVars,
            VideoAt
<1>1. CASE VideoPops
  BY <1>1, Sizes DEF VideoPops
<1>2. CASE VideoDrained \/ VideoPaces \/ VideoFeeds
  BY <1>2 DEF VideoDrained, VideoPaces, VideoFeeds
<1>5. CASE VideoGivesUp
  BY <1>5 DEF VideoGivesUp
<1>3. CASE VideoChecks \/ VideoClaims \/ VideoPlays \/ VideoCannotPlay
  BY <1>3 DEF VideoChecks, VideoClaims, VideoPlays, VideoCannotPlay, Refused
<1>4. CASE VideoLeaves \/ VideoJoins
  BY <1>4 DEF VideoLeaves, VideoJoins, Interrupting
<1> QED
  BY <1>1, <1>2, <1>3, <1>4, <1>5 DEF VideoStep

LEMMA AudioTyped == ASSUME TypeOK, AudioStep PROVE TypeOK'
<1> USE DEF TypeOK, flags, queues, readerVars, videoVars, audioVars, pipeVars, uiVars,
            AudioAt
<1>1. CASE AudioPops
  BY <1>1, Sizes DEF AudioPops
<1>2. CASE AudioDrained \/ AudioPaces \/ AudioSyncs \/ AudioWrites \/ AudioFails
  BY <1>2 DEF AudioDrained, AudioPaces, AudioSyncs, AudioWrites, AudioFails
<1> QED
  BY <1>1, <1>2 DEF AudioStep

LEMMA UiTyped == ASSUME TypeOK, Pause \/ Resume \/ UiStep \/ Interrupt PROVE TypeOK'
<1> USE DEF TypeOK, flags, queues, readerVars, videoVars, audioVars, pipeVars, uiVars,
            UiAt
<1>1. CASE Pause
  <2>1. paused' \in BOOLEAN /\ pauses' \in Nat
    BY <1>1 DEF Pause
  <2> QED
    BY <1>1, <2>1 DEF Pause
<1>5. CASE Resume
  BY <1>5 DEF Resume
<1>4. CASE Interrupt
  BY <1>4 DEF Interrupt, Interrupting
<1>2. CASE PausesPipeline \/ Mutes \/ Unmutes \/ ResumeChecks
  BY <1>2 DEF PausesPipeline, Mutes, Unmutes, ResumeChecks
<1>3. CASE ResumeClaims \/ ResumePlays \/ ResumeCannotPlay
  BY <1>3 DEF ResumeClaims, ResumePlays, ResumeCannotPlay, Refused
<1> QED
  BY <1>1, <1>2, <1>3, <1>4, <1>5 DEF UiStep

LEMMA TypeStep == TypeOK /\ [Next]_vars => TypeOK'
<1> SUFFICES ASSUME TypeOK, [Next]_vars PROVE TypeOK'
  OBVIOUS
<1> USE DEF TypeOK, flags, queues, readerVars, videoVars, audioVars, pipeVars, uiVars
<1>1. CASE Displays
  <2>1. displayed' \in Nat
    BY <1>1 DEF Displays
  <2>2. {running', flowing', closed', interrupted', playing', stale', playRequested', paused',
         cut'} \subseteq BOOLEAN
    BY <1>1 DEF Displays
  <2> QED
    BY <1>1, <2>1, <2>2 DEF Displays
<1>3. CASE GoesStale
  BY <1>3 DEF GoesStale
<1>4. CASE PipelineError
  BY <1>4 DEF PipelineError
<1>2. CASE Over \/ UNCHANGED vars
  BY <1>2 DEF Over, vars
<1> QED
  BY <1>1, <1>2, <1>3, <1>4, ReaderTyped, VideoTyped, AudioTyped, UiTyped DEF Next

(* The segment's state is well typed: in particular neither queue ever     *)
(* holds more than its slots, nor fewer than none.                         *)
THEOREM SegmentTypeCorrect == Spec => []TypeOK
BY InitTyped, TypeStep, PTL DEF Spec

-----------------------------------------------------------------------------
(* The one Play.                                                           *)

LEMMA InitClaim == Init => ClaimInv
BY DEF Init, ClaimInv, PauseInv, LookInv, PlayInv

LEMMA OthersClaim == ASSUME ClaimInv, UNCHANGED playVars PROVE ClaimInv'
BY DEF ClaimInv, PauseInv, LookInv, PlayInv, playVars

LEMMA VideoClaimsPlay == ASSUME TypeOK, ClaimInv, VideoStep PROVE ClaimInv'
<1> USE DEF ClaimInv, PauseInv, LookInv, PlayInv, VideoAt, videoVars, pipeVars, uiVars
<1>0. /\ fed \in Nat /\ playing \in BOOLEAN /\ playRequested \in BOOLEAN
      /\ paused \in BOOLEAN /\ cut \in BOOLEAN
  BY DEF TypeOK
<1>1. CASE VideoPops \/ VideoDrained \/ VideoPaces \/ VideoLeaves \/ VideoJoins
  BY <1>1 DEF VideoPops, VideoDrained, VideoPaces, VideoLeaves, VideoJoins
<1>2. CASE VideoFeeds
  BY <1>0, <1>2 DEF VideoFeeds
<1>3. CASE VideoGivesUp
  BY <1>0, <1>3 DEF VideoGivesUp
<1>4. CASE VideoChecks
  BY <1>0, <1>4 DEF VideoChecks
<1>5. CASE VideoClaims
  BY <1>0, <1>5 DEF VideoClaims
<1>6. CASE VideoPlays
  BY <1>0, <1>6 DEF VideoPlays
<1>7. CASE VideoCannotPlay
  BY <1>0, <1>7 DEF VideoCannotPlay, Refused
<1> QED
  BY <1>1, <1>2, <1>3, <1>4, <1>5, <1>6, <1>7 DEF VideoStep

LEMMA UiClaimsPlay ==
  ASSUME TypeOK, ClaimInv, Pause \/ Resume \/ UiStep \/ Interrupt
  PROVE  ClaimInv'
<1> USE DEF ClaimInv, PauseInv, LookInv, PlayInv, UiAt, videoVars, pipeVars, uiVars
<1>0. /\ fed \in Nat /\ playing \in BOOLEAN /\ playRequested \in BOOLEAN
      /\ paused \in BOOLEAN /\ cut \in BOOLEAN
  BY DEF TypeOK
<1>1. CASE Pause
  BY <1>0, <1>1 DEF Pause
<1>2. CASE Resume
  BY <1>0, <1>2 DEF Resume
<1>3. CASE PausesPipeline
  BY <1>0, <1>3 DEF PausesPipeline
<1>4. CASE Mutes \/ Unmutes
  BY <1>0, <1>4 DEF Mutes, Unmutes
<1>5. CASE ResumeChecks
  BY <1>0, <1>5 DEF ResumeChecks
<1>6. CASE ResumeClaims
  BY <1>0, <1>6 DEF ResumeClaims
<1>7. CASE ResumePlays
  BY <1>0, <1>7 DEF ResumePlays
<1>8. CASE ResumeCannotPlay
  BY <1>0, <1>8 DEF ResumeCannotPlay, Refused
<1>9. CASE Interrupt
  BY <1>0, <1>9 DEF Interrupt
<1> QED
  BY <1>1, <1>2, <1>3, <1>4, <1>5, <1>6, <1>7, <1>8, <1>9 DEF UiStep

LEMMA ClaimStep == TypeOK /\ ClaimInv /\ [Next]_vars => ClaimInv'
<1> SUFFICES ASSUME TypeOK, ClaimInv, [Next]_vars PROVE ClaimInv'
  OBVIOUS
<1> USE DEF videoVars, pipeVars, uiVars
<1>1. CASE ReaderStep
  <2>1. UNCHANGED playVars
    BY <1>1 DEF ReaderStep, ReaderReads, ReaderPushes, ReaderEnds, playVars
  <2> QED
    BY <2>1, OthersClaim
<1>2. CASE AudioStep
  <2>1. UNCHANGED playVars
    BY <1>2 DEF AudioStep, AudioPops, AudioDrained, AudioPaces, AudioSyncs, AudioWrites,
                AudioFails, playVars
  <2> QED
    BY <2>1, OthersClaim
<1>3. CASE Displays \/ GoesStale
  <2>1. UNCHANGED playVars
    BY <1>3 DEF Displays, GoesStale, playVars
  <2> QED
    BY <2>1, OthersClaim
<1>4. CASE PipelineError
  BY <1>4 DEF PipelineError, ClaimInv, PauseInv, LookInv, PlayInv
<1>5. CASE Over \/ UNCHANGED vars
  <2>1. UNCHANGED playVars
    BY <1>5 DEF Over, vars, playVars
  <2> QED
    BY <2>1, OthersClaim
<1> QED
  BY <1>1, <1>2, <1>3, <1>4, <1>5, VideoClaimsPlay, UiClaimsPlay DEF Next

(* However a pause, a resume and the video lane interleave: once frames    *)
(* were fed and both are past the claim, the pipeline plays.               *)
THEOREM PlaysAreNotLost == Spec => []PlayIsNotLost
<1>1. TypeOK /\ ClaimInv => PlayIsNotLost
  BY DEF TypeOK, ClaimInv, LookInv, PlayInv, PlayIsNotLost
<1> QED
  BY <1>1, InitTyped, InitClaim, TypeStep, ClaimStep, PTL DEF Spec
=============================================================================
