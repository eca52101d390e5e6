---------------------------- MODULE PlayerProofs ----------------------------
(***************************************************************************)
(* That a stop sticks and that a segment starts where it was last asked to,*)
(* for every item, every source, every set of jumps and any number of      *)
(* them.  Both are about who may pass whom at segment_mutex: the session   *)
(* that is past its checks and inside it ("locked", "taken") against the   *)
(* UI thread that stops or seeks.                                          *)
(***************************************************************************)
EXTENDS Player, TLAPS, WellFoundedInduction

(* A stop that is past its interrupt, or over, has caught the session      *)
(* outside the stretch that starts a segment.                              *)
StopInv ==
  /\ ui \in {"stopping", "idling"} => ~running
  /\ ui = "idling" \/ stopped => ~running /\ ~flowing /\ session # "locked"

(* What the target of the last request is kept in, from the request to the *)
(* segment that starts there.  A seek that failed leaves base behind, but  *)
(* the session unwanted.                                                   *)
SeekInv ==
  /\ flowing => ~seekPending /\ base = asked
  /\ flowing => session = "segment" \/ (session \in {"parked", "closing"} /\ ~running)
  /\ seekPending => seekTo = asked
  /\ ~seekPending =>
       /\ session \in {"taken", "seeking"} => target = asked
       /\ session \in {"opening", "waiting", "anchoring", "announcing", "locked", "segment"}
            => base = asked
       /\ session \in {"deciding", "acquiring"} /\ running => base = asked

-----------------------------------------------------------------------------
LEMMA StopInit == Init => StopInv
BY DEF Init, StopInv

LEMMA StopStep == StopInv /\ [Next]_vars => StopInv'
<1> SUFFICES ASSUME StopInv, [Next]_vars PROVE StopInv'
  OBVIOUS
<1> USE DEF StopInv, historyVars, lookVars, timeVars, seekVars
<1>1. CASE SessionStep
  BY <1>1 DEF SessionStep, Steady, Open, OpenFails, WaitForLoad, Anchor, Announce, Decide,
              Acquire, TakeSeek, DropOrigin, SeekLands, SeekFails, StartSegment, Parked,
              Close, Exit
<1>2. CASE ReaderSetsOrigin \/ SegmentFails \/ SegmentEnds \/ LoadCompleted
       \/ PipelineError \/ FrameReady
  BY <1>2 DEF ReaderSetsOrigin, SegmentFails, SegmentEnds, LoadCompleted, PipelineError,
              FrameReady, Steady
<1>3. ASSUME NEW at \in Positions, AskToPlay(at) PROVE StopInv'
  BY <1>3 DEF AskToPlay
<1>4. ASSUME NEW wanted, RequestSeek(wanted) PROVE StopInv'
  BY <1>4 DEF RequestSeek
<1>5. CASE Play
  BY <1>5 DEF Play, Joined
<1>6. CASE PlayFails
  BY <1>6 DEF PlayFails, Joined
<1>7. CASE StopWanted \/ StopInterrupts \/ StopReturns
  BY <1>7 DEF StopWanted, StopInterrupts, StopReturns, MutexFree
<1>8. CASE LookStep
  BY <1>8 DEF LookStep, LookBegins, LookReadsClock, LookReadsReady, LookReadsOrigin,
              Looking, LookForgets
<1>9. CASE UNCHANGED vars
  BY <1>9 DEF vars
<1> QED
  BY <1>1, <1>2, <1>3, <1>4, <1>5, <1>6, <1>7, <1>8, <1>9
     DEF Next, Seek, SeekTo, AudioSelect

(* Once jf_player_stop has returned, nothing flows until the next play,    *)
(* wherever the session was when it was called.                            *)
THEOREM StopsStick == Spec => []StopSticks
<1>1. StopInv => StopSticks
  BY DEF StopInv, StopSticks
<1> QED
  BY <1>1, StopInit, StopStep, PTL DEF Spec

-----------------------------------------------------------------------------
LEMMA SeekInit == Init => SeekInv
BY DEF Init, SeekInv

LEMMA SeekStep == SeekInv /\ [Next]_vars => SeekInv'
<1> SUFFICES ASSUME SeekInv, [Next]_vars PROVE SeekInv'
  OBVIOUS
<1> USE DEF SeekInv, historyVars, lookVars, timeVars, seekVars
<1>1. CASE Open \/ OpenFails \/ WaitForLoad \/ Anchor \/ Announce \/ Decide \/ Acquire
  BY <1>1 DEF Steady, Open, OpenFails, WaitForLoad, Anchor, Announce, Decide, Acquire
<1>2. CASE TakeSeek \/ DropOrigin \/ SeekLands \/ SeekFails
  BY <1>2 DEF Steady, TakeSeek, DropOrigin, SeekLands, SeekFails
<1>3. CASE StartSegment \/ Parked \/ Close \/ Exit
  BY <1>3 DEF Steady, StartSegment, Parked, Close, Exit
<1>4. CASE ReaderSetsOrigin \/ SegmentFails \/ SegmentEnds \/ LoadCompleted
       \/ PipelineError \/ FrameReady
  BY <1>4 DEF ReaderSetsOrigin, SegmentFails, SegmentEnds, LoadCompleted, PipelineError,
              FrameReady, Steady
<1>5. ASSUME NEW at \in Positions, AskToPlay(at) PROVE SeekInv'
  BY <1>5 DEF AskToPlay
<1>6. ASSUME NEW wanted, RequestSeek(wanted) PROVE SeekInv'
  BY <1>6 DEF RequestSeek, MutexFree
<1>7. CASE Play
  BY <1>7 DEF Play, Joined
<1>8. CASE PlayFails
  BY <1>8 DEF PlayFails, Joined
<1>9. CASE StopWanted \/ StopInterrupts \/ StopReturns
  BY <1>9 DEF StopWanted, StopInterrupts, StopReturns
<1>10. CASE LookStep
  BY <1>10 DEF LookStep, LookBegins, LookReadsClock, LookReadsReady, LookReadsOrigin,
              Looking, LookForgets
<1>11. CASE UNCHANGED vars
  BY <1>11 DEF vars
<1> QED
  BY <1>1, <1>2, <1>3, <1>4, <1>5, <1>6, <1>7, <1>8, <1>9, <1>10, <1>11
     DEF Next, Seek, SeekTo, AudioSelect, SessionStep

(* No segment overtakes a seek: while a request is pending none flows, and *)
(* the one that flows starts where the last request asked.                 *)
THEOREM SegmentsStartWhereAsked == Spec => []SegmentIsWhereAsked
<1>1. SeekInv => SegmentIsWhereAsked
  BY DEF SeekInv, SegmentIsWhereAsked
<1> QED
  BY <1>1, SeekInit, SeekStep, PTL DEF Spec

-----------------------------------------------------------------------------
(* A source that is entered at keyframes has one at or before every        *)
(* position, the last of which is where a seek lands.                      *)
LEMMA LandingType == ASSUME NEW t \in Nat PROVE Landing(t) \in Nat
<1>1. CASE Transcoded
  BY <1>1 DEF Landing
<1>2. ASSUME ~Transcoded PROVE Landing(t) \in Keyframes
  <2> DEFINE Before == {k \in Keyframes: k <= t}
             Gaps == {t - k: k \in Before}
  <2>1. Gaps \subseteq Nat /\ Gaps # {}
    <3>1. 0 \in Before /\ \A k \in Before: k \in Nat /\ k <= t
      BY KeyframesAssumption, EndAssumption
    <3>2. t - 0 \in Gaps
      BY <3>1
    <3>3. \A g \in Gaps: g \in Nat
      BY <3>1
    <3> QED
      BY <3>2, <3>3
  <2>2. PICK g \in Gaps: \A h \in Gaps: <<h, g>> \notin OpToRel(<, Nat)
    BY <2>1, WFMin, NatLessThanWellFounded, Zenon
  <2>3. \A h \in Gaps: g <= h
    <3> SUFFICES ASSUME NEW h \in Gaps, h < g PROVE FALSE
      BY <2>1
    <3>1. h \in Nat /\ g \in Nat
      BY <2>1
    <3>2. <<h, g>> \in OpToRel(<, Nat)
      BY <3>1 DEF OpToRel
    <3> QED
      BY <3>2, <2>2
  <2>4. PICK k \in Before: g = t - k
    BY <2>2
  <2>5. \A j \in Keyframes: j <= t => j <= k
    <3> SUFFICES ASSUME NEW j \in Keyframes, j <= t PROVE j <= k
      OBVIOUS
    <3>1. t - j \in Gaps
      OBVIOUS
    <3>2. t - k <= t - j
      BY <3>1, <2>3, <2>4
    <3>3. j \in Nat /\ k \in Nat
      BY <2>4, KeyframesAssumption, EndAssumption
    <3> QED
      BY <3>2, <3>3
  <2> DEFINE Lands(l) == l <= t /\ \A j \in Keyframes: j <= t => j <= l
  <2>6. \E l \in Keyframes: Lands(l)
    BY <2>4, <2>5
  <2>7. (CHOOSE l \in Keyframes: Lands(l)) \in Keyframes
    <3> HIDE DEF Lands
    <3> QED
      BY <2>6
  <2>8. Landing(t) = CHOOSE l \in Keyframes: Lands(l)
    BY <1>2, Zenon DEF Landing
  <2> QED
    BY <2>7, <2>8, Zenon
<1>3. \A k \in Keyframes: k \in Nat
  BY KeyframesAssumption, EndAssumption
<1> QED
  BY <1>1, <1>2, <1>3

(* TypeOK, in parts small enough to be looked at one by one.               *)
FlagsType ==
  /\ state \in {"IDLE", "LOADING", "PLAYING", "FAILED"}
  /\ running \in BOOLEAN /\ flowing \in BOOLEAN
  /\ loaded \in BOOLEAN /\ loadComplete \in BOOLEAN
  /\ session \in SessionPhases
RequestType ==
  /\ seekPending \in BOOLEAN /\ seekTo \in Nat /\ held \in Nat \cup {None}
  /\ target \in Nat /\ duration \in {0, End}
TimeType ==
  /\ position \in Nat /\ base \in Nat
  /\ originReady \in BOOLEAN /\ origin \in Int
  /\ clock \in Nat \cup {None}
UiType ==
  /\ ui \in UiPhases /\ start \in Positions
  /\ seen \in Nat \cup {None} /\ early \in BOOLEAN /\ asked \in Nat
  /\ landing \in BOOLEAN /\ overrun \in BOOLEAN /\ stopped \in BOOLEAN
  /\ seeks \in Nat

Parts == FlagsType /\ RequestType /\ TimeType /\ UiType
LEMMA TypeParts == (TypeOK <=> Parts) /\ (TypeOK' <=> Parts')
BY DEF TypeOK, Parts, FlagsType, RequestType, TimeType, UiType

LEMMA ClampedType ==
  ASSUME TypeOK, NEW wanted \in Int PROVE Clamped(wanted) \in Nat
BY EndAssumption DEF TypeOK, Clamped

LEMMA DisplayedType == ASSUME TypeOK PROVE Displayed \in Int
BY DEF TypeOK, Displayed, Now, None

LEMMA TypeInit == Init => TypeOK
<1> SUFFICES ASSUME Init PROVE TypeOK
  OBVIOUS
<1>1. FlagsType
  BY DEF Init, FlagsType, SessionPhases
<1>2. RequestType
  BY DEF Init, RequestType
<1>3. TimeType
  <2>1. position \in Nat /\ base \in Nat
    BY DEF Init
  <2>2. originReady \in BOOLEAN
    BY DEF Init
  <2>3. origin \in Int
    BY DEF Init
  <2>4. clock \in Nat \cup {None}
    BY DEF Init
  <2> QED
    BY <2>1, <2>2, <2>3, <2>4 DEF TimeType
<1>4. UiType
  <2>1. ui \in UiPhases /\ seen \in Nat \cup {None} /\ early \in BOOLEAN
    BY DEF Init, UiPhases
  <2>2. start \in Positions
    BY EndAssumption DEF Init, Positions
  <2>3. landing \in BOOLEAN /\ overrun \in BOOLEAN /\ stopped \in BOOLEAN
    BY DEF Init
  <2>4. asked \in Nat /\ seeks \in Nat
    BY DEF Init
  <2> QED
    BY <2>1, <2>2, <2>3, <2>4 DEF UiType

<1> QED
  BY <1>1, <1>2, <1>3, <1>4, TypeParts DEF Parts

(* The steps of the session thread and of the pipeline.                    *)
LEMMA SessionTypes ==
  ASSUME TypeOK,
         \/ SessionStep \/ ReaderSetsOrigin \/ SegmentFails \/ SegmentEnds
         \/ LoadCompleted \/ PipelineError \/ FrameReady
  PROVE  TypeOK'
<1> USE DEF historyVars, lookVars, timeVars, seekVars, SessionStep, Steady, Open, OpenFails,
            WaitForLoad, Anchor, Announce, Decide, Acquire, TakeSeek, DropOrigin, SeekLands,
            SeekFails, StartSegment, Parked, Close, Exit, ReaderSetsOrigin, SegmentFails, SegmentEnds,
            LoadCompleted, PipelineError, FrameReady
<1>1. FlagsType'
  BY TypeParts DEF Parts, FlagsType, SessionPhases
<1>2. RequestType'
  BY TypeParts DEF Parts, RequestType
<1>3. TimeType'
  <2>1. CASE ReaderSetsOrigin
    BY <2>1, TypeParts, LandingType DEF Parts, TimeType
  <2>2. CASE FrameReady
    BY <2>2, TypeParts, EndAssumption DEF Parts, TimeType, None
  <2>3. CASE SessionStep \/ SegmentFails \/ SegmentEnds \/ LoadCompleted \/ PipelineError
    BY <2>3, TypeParts DEF Parts, TimeType, RequestType
  <2> QED
    BY <2>1, <2>2, <2>3
<1>4. UiType'
  BY TypeParts DEF Parts, UiType
<1> QED
  BY <1>1, <1>2, <1>3, <1>4, TypeParts DEF Parts

(* The UI thread asks for a seek.                                          *)
LEMMA RequestTypes ==
  ASSUME TypeOK, NEW wanted \in Int, RequestSeek(wanted) PROVE TypeOK'
<1> USE DEF RequestSeek, timeVars, lookVars
<1>1. Clamped(wanted) \in Nat
  BY ClampedType
<1>2. FlagsType'
  BY TypeParts DEF Parts, FlagsType
<1>3. RequestType'
  BY <1>1, TypeParts DEF Parts, RequestType
<1>4. TimeType'
  BY TypeParts DEF Parts, TimeType
<1>5. UiType'
  BY <1>1, TypeParts DEF Parts, UiType
<1> QED
  BY <1>2, <1>3, <1>4, <1>5, TypeParts DEF Parts

(* The UI thread's other steps.                                            *)
LEMMA UiTypes ==
  ASSUME TypeOK,
         \/ \E at \in Positions: AskToPlay(at)
         \/ Play \/ PlayFails \/ StopWanted \/ StopInterrupts \/ StopReturns \/ LookStep
  PROVE  TypeOK'
<1> USE DEF historyVars, lookVars, timeVars, seekVars, AskToPlay, Play, PlayFails, StopWanted,
            StopInterrupts, StopReturns, LookStep, LookBegins, LookReadsClock,
            LookReadsReady, LookReadsOrigin, Looking, LookForgets
<1>1. FlagsType'
  BY TypeParts DEF Parts, FlagsType, SessionPhases
<1>2. RequestType'
  <2>1. CASE Play
    BY <2>1, TypeParts, EndAssumption DEF Parts, RequestType, UiType, Positions
  <2>2. CASE LookStep
    BY <2>2, TypeParts DEF Parts, RequestType
  <2>3. CASE \/ \E at \in Positions: AskToPlay(at)
             \/ PlayFails \/ StopWanted \/ StopInterrupts \/ StopReturns
    BY <2>3, TypeParts DEF Parts, RequestType
  <2> QED
    BY <2>1, <2>2, <2>3
<1>3. TimeType'
  <2>1. CASE Play
    <3>1. TimeType
      BY TypeParts DEF Parts
    <3>2. start \in Nat
      BY TypeParts, EndAssumption DEF Parts, UiType, Positions
    <3>3. position' = start /\ base' = start
      BY <2>1
    <3>4. originReady' = FALSE
      BY <2>1
    <3>5. UNCHANGED <<origin, clock>>
      BY <2>1
    <3> QED
      BY <3>1, <3>2, <3>3, <3>4, <3>5 DEF TimeType
  <2>2. CASE \/ \E at \in Positions: AskToPlay(at)
             \/ PlayFails \/ StopWanted \/ StopInterrupts \/ StopReturns \/ LookStep
    <3>1. TimeType
      BY TypeParts DEF Parts
    <3>2. UNCHANGED <<position, base, origin>>
      BY <2>2
    <3>3. UNCHANGED <<originReady, clock>>
      BY <2>2
    <3> QED
      BY <3>1, <3>2, <3>3 DEF TimeType, None
  <2> QED
    BY <2>1, <2>2
<1>4. UiType'
  <2>1. CASE Play
    <3>1. UiType
      BY TypeParts DEF Parts
    <3>2. start \in Nat
      BY <3>1, EndAssumption DEF UiType, Positions
    <3>3. ui' \in UiPhases /\ start' = start /\ asked' = start
      BY <2>1 DEF UiPhases
    <3>4. landing' \in BOOLEAN
      BY <2>1
    <3>5. overrun' = FALSE /\ stopped' = FALSE
      BY <2>1
    <3>7. UNCHANGED <<seen, early>>
      BY <2>1
    <3>6. UNCHANGED seeks
      BY <2>1
    <3> QED
      BY <3>1, <3>2, <3>3, <3>4, <3>5, <3>6, <3>7, Zenon DEF UiType
  <2>2. CASE \E at \in Positions: AskToPlay(at)
    <3>1. UiType
      BY TypeParts DEF Parts
    <3>2. ui' \in UiPhases /\ start' \in Positions
      BY <2>2 DEF UiPhases
    <3>3. UNCHANGED asked /\ seeks' = seeks + 1
      BY <2>2
    <3>5. UNCHANGED <<seen, early>>
      BY <2>2
    <3>4. UNCHANGED <<landing, overrun, stopped>>
      BY <2>2
    <3> QED
      BY <3>1, <3>2, <3>3, <3>4, <3>5 DEF UiType, None
  <2>3. CASE PlayFails \/ StopWanted \/ StopInterrupts \/ StopReturns
    BY <2>3, TypeParts DEF Parts, UiType, UiPhases, None
  <2>4. CASE LookStep
    <3>1. UiType /\ clock \in Nat \cup {None}
      BY TypeParts DEF Parts, TimeType
    <3>2. ui' \in UiPhases
      BY <2>4 DEF UiPhases
    <3>3. UNCHANGED <<start, asked, landing, stopped, seeks>>
      BY <2>4
    <3>4. seen' \in Nat \cup {None}
      BY <2>4, <3>1 DEF UiType, None
    <3>5. early' \in BOOLEAN
      <4>1. (session \in {"taken", "seeking"}) \in BOOLEAN /\ early \in BOOLEAN
        BY <3>1 DEF UiType
      <4>2. \/ early' = early
            \/ early' = FALSE
            \/ early' = (session \in {"taken", "seeking"})
        BY <2>4, Zenon
      <4> QED
        BY <4>1, <4>2, Zenon
    <3>6. overrun' \in BOOLEAN
      <4>1. (overrun \/ (early /\ held' # held)) \in BOOLEAN /\ overrun \in BOOLEAN
        BY <3>1 DEF UiType
      <4>2. \/ overrun' = overrun
            \/ overrun' = (overrun \/ (early /\ held' # held))
        BY <2>4, Zenon
      <4> QED
        BY <4>1, <4>2, Zenon
    <3> QED
      BY <3>1, <3>2, <3>3, <3>4, <3>5, <3>6 DEF UiType
  <2> QED
    BY <2>1, <2>2, <2>3, <2>4
<1> QED
  BY <1>1, <1>2, <1>3, <1>4, TypeParts DEF Parts

LEMMA TypeStep == TypeOK /\ [Next]_vars => TypeOK'
<1> SUFFICES ASSUME TypeOK, [Next]_vars PROVE TypeOK'
  OBVIOUS
<1>1. ASSUME NEW delta \in Deltas, Seek(delta) PROVE TypeOK'
  BY <1>1, RequestTypes, DisplayedType, DeltasAssumption DEF Seek
<1>2. ASSUME NEW at \in Positions, SeekTo(at) PROVE TypeOK'
  BY <1>2, RequestTypes, EndAssumption DEF SeekTo, Positions
<1>3. CASE AudioSelect
  BY <1>3, RequestTypes, DisplayedType DEF AudioSelect
<1>4. CASE UNCHANGED vars
  BY <1>4 DEF vars, TypeOK, historyVars, lookVars, timeVars, seekVars
<1> QED
  BY <1>1, <1>2, <1>3, <1>4, SessionTypes, UiTypes DEF Next

(* The state of the session stays well typed: in particular no position is *)
(* ever negative, whatever was asked for, displayed or landed on.          *)
THEOREM PlayerTypeCorrect == Spec => []TypeOK
BY TypeInit, TypeStep, PTL DEF Spec

-----------------------------------------------------------------------------
(* What the bar's promise rests on.  Until the session drops the old       *)
(* origin it still tells the time, so what a frame or a look at it may do  *)
(* is only harmless while the request is pending; afterwards it has no     *)
(* origin, and once it has a new one every frame is either short of the    *)
(* target or the landing.                                                  *)
OriginInv ==
  /\ session \in {"opening", "waiting", "anchoring", "announcing", "seeking"} => ~originReady
  /\ session = "announcing" => clock = None
  /\ session \in {"deciding", "acquiring", "locked", "segment", "parked"}
       /\ running /\ ~originReady => clock = None
  /\ session = "closing" /\ running /\ landing /\ ~seekPending /\ ~originReady
       => clock = None

(* A look holds a reading of the clock that is still good, unless it was   *)
(* taken early: while it looks the UI asks for nothing, so the session,    *)
(* which has taken the last request, has nothing left to take.             *)
LookInv ==
  /\ landing /\ session \in {"opening", "waiting", "anchoring", "announcing"} => seekPending
  /\ session \in {"none", "releasing", "exited"} => ~running
  /\ ui \in {"looking", "timing", "placing"} => ~seekPending
  /\ ui \in {"timing", "placing"} /\ ~early /\ landing /\ running /\ ~overrun =>
       /\ session \in {"deciding", "acquiring", "locked", "segment", "parked", "closing"}
       /\ originReady /\ origin + seen < asked

HoldInv ==
  landing /\ running /\ ~overrun =>
    held = asked /\ (seekPending \/ session = "taken" \/ Now < asked)
BarInv == TypeOK /\ SeekInv /\ OriginInv /\ LookInv /\ HoldInv

LEMMA BarInit == Init => BarInv
<1> SUFFICES ASSUME Init PROVE BarInv
  OBVIOUS
<1>1. OriginInv /\ LookInv /\ HoldInv
  BY DEF Init, OriginInv, LookInv, HoldInv
<1> QED
  BY <1>1, TypeInit, SeekInit DEF BarInv

LEMMA OriginStep == TypeOK /\ OriginInv /\ LookInv /\ [Next]_vars => OriginInv'
<1> SUFFICES ASSUME TypeOK, OriginInv, LookInv, [Next]_vars PROVE OriginInv'
  OBVIOUS
<1> USE DEF OriginInv, LookInv, historyVars, lookVars, timeVars, seekVars
<1>1. CASE Open \/ OpenFails \/ WaitForLoad \/ Anchor \/ Announce \/ Decide \/ Acquire
  BY <1>1 DEF Steady, Open, OpenFails, WaitForLoad, Anchor, Announce, Decide, Acquire
<1>2. CASE TakeSeek \/ DropOrigin \/ SeekLands \/ SeekFails
  BY <1>2 DEF Steady, TakeSeek, DropOrigin, SeekLands, SeekFails
<1>3. CASE StartSegment \/ Parked \/ Close \/ Exit
  BY <1>3 DEF Steady, StartSegment, Parked, Close, Exit
<1>4. CASE ReaderSetsOrigin \/ SegmentFails \/ SegmentEnds \/ LoadCompleted
       \/ PipelineError \/ FrameReady
  BY <1>4 DEF ReaderSetsOrigin, SegmentFails, SegmentEnds, LoadCompleted, PipelineError,
              FrameReady, Steady
<1>5. ASSUME NEW at \in Positions, AskToPlay(at) PROVE OriginInv'
  BY <1>5 DEF AskToPlay
<1>6. ASSUME NEW wanted, RequestSeek(wanted) PROVE OriginInv'
  BY <1>6 DEF RequestSeek
<1>7. CASE Play
  BY <1>7 DEF Play, Joined
<1>8. CASE PlayFails \/ StopWanted \/ StopInterrupts \/ StopReturns
  BY <1>8 DEF PlayFails, StopWanted, StopInterrupts, StopReturns
<1>9. CASE LookStep
  BY <1>9 DEF LookStep, LookBegins, LookReadsClock, LookReadsReady, LookReadsOrigin,
              Looking, LookForgets
<1>10. CASE UNCHANGED vars
  BY <1>10 DEF vars
<1> QED
  BY <1>1, <1>2, <1>3, <1>4, <1>5, <1>6, <1>7, <1>8, <1>9, <1>10
     DEF Next, Seek, SeekTo, AudioSelect, SessionStep

LEMMA LookInvStep == BarInv /\ [Next]_vars => LookInv'
<1> SUFFICES ASSUME BarInv, [Next]_vars PROVE LookInv'
  OBVIOUS
<1>0. TypeOK /\ OriginInv /\ LookInv /\ HoldInv
  BY DEF BarInv
<1>t. /\ asked \in Nat /\ clock \in Nat \cup {None} /\ origin \in Int
      /\ held \in Nat \cup {None} /\ seekPending \in BOOLEAN /\ running \in BOOLEAN
      /\ landing \in BOOLEAN /\ overrun \in BOOLEAN /\ originReady \in BOOLEAN
      /\ seekPending' \in BOOLEAN /\ running' \in BOOLEAN /\ landing' \in BOOLEAN
      /\ overrun' \in BOOLEAN /\ originReady' \in BOOLEAN
  BY <1>0, TypeStep DEF TypeOK
<1> USE <1>0, <1>t DEF LookInv, HoldInv, Now, None, historyVars, lookVars, timeVars, seekVars
<1>1. CASE \/ Open \/ OpenFails \/ WaitForLoad \/ Announce \/ Decide \/ Acquire
           \/ StartSegment \/ Parked \/ Close \/ Exit
  BY <1>1 DEF Steady, Open, OpenFails, WaitForLoad, Announce, Decide, Acquire,
              StartSegment, Parked, Close, Exit
<1>2. CASE Anchor \/ SeekLands \/ DropOrigin
  BY <1>2 DEF Steady, Anchor, SeekLands, DropOrigin
<1>3. CASE TakeSeek
  BY <1>3 DEF TakeSeek
<1>13. CASE SeekFails
  BY <1>13 DEF SeekFails, Steady
<1>4. CASE ReaderSetsOrigin
  BY <1>4 DEF Steady, ReaderSetsOrigin, OriginInv
<1>5. CASE FrameReady
  BY <1>5 DEF FrameReady
<1>6. CASE SegmentFails \/ SegmentEnds \/ LoadCompleted \/ PipelineError
  BY <1>6 DEF SegmentFails, SegmentEnds, LoadCompleted, PipelineError, Steady
<1>7. ASSUME NEW at \in Positions, AskToPlay(at) PROVE LookInv'
  BY <1>7 DEF AskToPlay
<1>8. ASSUME NEW wanted, RequestSeek(wanted) PROVE LookInv'
  BY <1>8 DEF RequestSeek
<1>9. CASE Play
  BY <1>9 DEF Play, Joined
<1>10. CASE PlayFails \/ StopWanted \/ StopInterrupts \/ StopReturns
  BY <1>10 DEF PlayFails, StopWanted, StopInterrupts, StopReturns
<1>11. CASE LookStep
  <2> USE DEF LookBegins, LookReadsClock, LookReadsReady, LookReadsOrigin, Looking,
              LookForgets
  <2>1. CASE LookBegins
    BY <2>1
  <2>2. CASE LookReadsClock
    <3>1. CASE ui' = "free"
      BY <2>2, <3>1
    <3>2. CASE ui' = "timing" /\ landing /\ running /\ ~early' /\ ~overrun
      <4>1. seen' = clock /\ clock # None /\ session \notin {"taken", "seeking"}
        BY <2>2, <3>2
      <4>2. ~seekPending
        BY <2>2
      <4>3. session \in {"deciding", "acquiring", "locked", "segment", "parked", "closing"}
        BY <4>1, <4>2, <3>2 DEF TypeOK, SessionPhases
      <4>4. originReady
        BY <4>1, <4>2, <4>3, <3>2 DEF OriginInv
      <4>5. origin + clock < asked
        BY <4>1, <4>2, <4>4, <3>2
      <4> QED
        BY <2>2, <3>2, <4>1, <4>2, <4>3, <4>4, <4>5
    <3> QED
      BY <2>2, <3>1, <3>2
  <2>3. CASE LookReadsReady
    BY <2>3
  <2>4. CASE LookReadsOrigin
    BY <2>4
  <2> QED
    BY <1>11, <2>1, <2>2, <2>3, <2>4 DEF LookStep
<1>12. CASE UNCHANGED vars
  BY <1>12 DEF vars
<1> QED
  BY <1>1, <1>2, <1>3, <1>4, <1>5, <1>6, <1>7, <1>8, <1>9, <1>10, <1>11, <1>12,
     <1>13 DEF Next, Seek, SeekTo, AudioSelect, SessionStep

LEMMA HoldStep == BarInv /\ [Next]_vars => HoldInv'
<1> SUFFICES ASSUME BarInv, [Next]_vars PROVE HoldInv'
  OBVIOUS
<1>0. TypeOK /\ OriginInv /\ LookInv /\ HoldInv
  BY DEF BarInv
<1>t. /\ asked \in Nat /\ clock \in Nat \cup {None} /\ origin \in Int
      /\ held \in Nat \cup {None} /\ seekPending \in BOOLEAN /\ running \in BOOLEAN
      /\ landing \in BOOLEAN /\ overrun \in BOOLEAN /\ originReady \in BOOLEAN
      /\ seekPending' \in BOOLEAN /\ running' \in BOOLEAN /\ landing' \in BOOLEAN
      /\ overrun' \in BOOLEAN /\ originReady' \in BOOLEAN
  BY <1>0, TypeStep DEF TypeOK
<1> USE <1>0, <1>t DEF HoldInv, Now, None, historyVars, lookVars, timeVars, seekVars
<1>1. CASE \/ Open \/ OpenFails \/ WaitForLoad \/ Announce \/ Decide \/ Acquire
           \/ StartSegment \/ Parked \/ Close \/ Exit
  BY <1>1 DEF Steady, Open, OpenFails, WaitForLoad, Announce, Decide, Acquire,
              StartSegment, Parked, Close, Exit
<1>2. CASE Anchor \/ SeekLands \/ DropOrigin
  <2>1. Now' = None
    BY <1>2 DEF Anchor, SeekLands, DropOrigin
  <2>2. UNCHANGED <<held, asked, landing, overrun, running>>
    BY <1>2 DEF Steady, Anchor, SeekLands, DropOrigin
  <2> QED
    BY <2>1, <2>2
<1>3. CASE TakeSeek
  BY <1>3 DEF TakeSeek
<1>13. CASE SeekFails
  BY <1>13 DEF SeekFails
<1>4. CASE ReaderSetsOrigin
  BY <1>4 DEF Steady, ReaderSetsOrigin, OriginInv
<1>5. CASE FrameReady
  BY <1>5 DEF FrameReady, OriginInv
<1>6. CASE SegmentFails \/ SegmentEnds \/ LoadCompleted \/ PipelineError
  BY <1>6 DEF SegmentFails, SegmentEnds, LoadCompleted, PipelineError, Steady
<1>7. ASSUME NEW at \in Positions, AskToPlay(at) PROVE HoldInv'
  BY <1>7 DEF AskToPlay
<1>8. ASSUME NEW wanted, RequestSeek(wanted) PROVE HoldInv'
  BY <1>8 DEF RequestSeek
<1>9. CASE Play
  BY <1>9 DEF Play, Joined
<1>10. CASE PlayFails \/ StopWanted \/ StopInterrupts \/ StopReturns
  BY <1>10 DEF PlayFails, StopWanted, StopInterrupts, StopReturns
<1>11. CASE LookStep
  BY <1>11 DEF LookStep, LookBegins, LookReadsClock, LookReadsReady, LookReadsOrigin,
              Looking, LookForgets, LookInv
<1>12. CASE UNCHANGED vars
  BY <1>12 DEF vars
<1> QED
  BY <1>1, <1>2, <1>3, <1>4, <1>5, <1>6, <1>7, <1>8, <1>9, <1>10, <1>11, <1>12,
     <1>13 DEF Next, Seek, SeekTo, AudioSelect, SessionStep

LEMMA BarStep == BarInv /\ [Next]_vars => BarInv'
BY TypeStep, SeekStep, OriginStep, LookInvStep, HoldStep DEF BarInv

LEMMA BarShows == BarInv => BarHoldsTarget
<1> SUFFICES ASSUME BarInv, landing, running, ~overrun
             PROVE  held = asked /\ (session # "taken" => Displayed = asked)
  BY DEF BarHoldsTarget
<1>1. asked \in Nat /\ held = asked /\ (seekPending => seekTo = asked)
  BY DEF BarInv, TypeOK, HoldInv, SeekInv
<1>2. seekPending \/ session = "taken" \/ Now < asked
  BY DEF BarInv, HoldInv
<1>3. ASSUME session # "taken" PROVE Displayed = asked
  BY <1>1, <1>2, <1>3 DEF Displayed, None
<1> QED
  BY <1>1, <1>3

(* From a request until playback reaches it no look lets go of the bar's   *)
(* target, for every item, source and number of requests, however the      *)
(* reads of the look and the steps of the other threads fall -- but for a  *)
(* look that read the clock between the session's taking the request and   *)
(* seek_to's resetting it.  There the code does fall back: undisturbed,    *)
(* between 1161 and 1166, or late, against the new segment's origin.       *)
THEOREM TheBarHolds == Spec => []BarHoldsTarget
BY BarInit, BarStep, BarShows, PTL DEF Spec

(* Presses add up: a jump asked for while another is landing starts from   *)
(* that one's target, however often and wherever the session is.           *)
THEOREM PressesAdd == Spec => PressesAddUp
<1>1. ASSUME BarInv, [Next]_vars
      PROVE  [\A delta \in Deltas:
                Seek(delta) /\ landing /\ ~overrun => asked' = Clamped(asked + delta)]_vars
  <2> SUFFICES ASSUME NEW delta \in Deltas, Seek(delta), landing, ~overrun
               PROVE  asked' = Clamped(asked + delta)
    OBVIOUS
  <2>1. RequestSeek(Displayed + delta)
    BY DEF Seek
  <2>2. running /\ session # "taken" /\ asked' = Clamped(Displayed + delta)
    BY <2>1 DEF RequestSeek, MutexFree
  <2>3. BarHoldsTarget
    BY <1>1, BarShows
  <2>4. Displayed = asked
    BY <2>2, <2>3 DEF BarHoldsTarget
  <2> QED
    BY <2>2, <2>4
<1> QED
  BY <1>1, BarInit, BarStep, PTL DEF Spec, PressesAddUp

(* Whatever fails, the error stays on screen until the user stops or plays *)
(* again, or the session announces that it plays at that very moment.      *)
THEOREM ErrorsStay == Spec => ErrorStays
<1>1. ASSUME [Next]_vars, state = "FAILED", state' # "FAILED"
      PROVE  StopReturns \/ Play \/ Announce
  <2> USE <1>1
  <2>1. ASSUME SessionStep PROVE Announce
    BY <2>1 DEF SessionStep, Steady, Open, OpenFails, WaitForLoad, Anchor, Decide, Acquire,
                TakeSeek, DropOrigin, SeekLands, SeekFails, StartSegment, Parked, Close, Exit
  <2>2. ~(ReaderSetsOrigin \/ SegmentFails \/ SegmentEnds \/ LoadCompleted
          \/ PipelineError \/ FrameReady)
    BY DEF ReaderSetsOrigin, SegmentFails, SegmentEnds, LoadCompleted, PipelineError,
           FrameReady
  <2>3. \A at: ~AskToPlay(at) /\ ~RequestSeek(at)
    BY DEF AskToPlay, RequestSeek
  <2>4. ~(PlayFails \/ StopWanted \/ StopInterrupts \/ LookStep \/ UNCHANGED vars)
    BY DEF PlayFails, StopWanted, StopInterrupts, LookStep, LookBegins, LookReadsClock,
           LookReadsReady, LookReadsOrigin, Looking, vars
  <2> QED
    BY <2>1, <2>2, <2>3, <2>4 DEF Next, Seek, SeekTo, AudioSelect
<1> QED
  BY <1>1, PTL DEF Spec, ErrorStays
=============================================================================
