------------------------------- MODULE Player -------------------------------
(***************************************************************************)
(* jf/player.c: the life of a playback session as its threads share it --  *)
(* the session thread that opens, loads, runs segments and seeks between   *)
(* them; the UI thread that plays, stops, seeks and draws the position;    *)
(* and the pipeline's event thread.  What goes on inside one segment (the  *)
(* reader, the lanes, pausing) is module Segment; here a segment is a      *)
(* stretch that ends when it is interrupted, fails or runs out.            *)
(* Positions are the item's, in units of a second; -1 stands for "none".   *)
(***************************************************************************)
EXTENDS Integers

CONSTANTS End,          \* the item's duration
          Keyframes,    \* the positions a static original can be entered at
          Transcoded,   \* whether the source is the server's transcode
          Deltas,       \* jumps the UI asks for
          MaxSeeks      \* bound: seek requests in one behaviour

ASSUME EndAssumption == End \in Nat \ {0}
ASSUME KeyframesAssumption == 0 \in Keyframes /\ Keyframes \subseteq 0..End
ASSUME TranscodedAssumption == Transcoded \in BOOLEAN
ASSUME DeltasAssumption == Deltas \subseteq Int
ASSUME MaxSeeksAssumption == MaxSeeks \in Nat

VARIABLES
  state,        \* playback_state, what the UI shows
  running,      \* the session is wanted
  flowing,      \* segment_flowing
  loaded,       \* between smp_load and smp_unload: events can arrive
  loadComplete, \* load_complete
  session,      \* where the session thread is
  seekPending, seekTo, held,   \* a request, its target, what the bar holds
  target,       \* the request the session took
  duration,     \* duration_ms, 0 until known
  position, base,              \* position_ms, stream_base_ms
  originReady, origin,         \* clock_origin_ready, timeline_origin_ms
  clock,        \* jf_clock_pts, from the segment's zero, or None
  ui,           \* where the UI thread is
  start,        \* the position the UI asked jf_player_play for
  asked,        \* history: the position last asked for
  seen,         \* the clock reading a look at the position is holding
  landing,      \* history: asked for and not reached yet
  early,        \* history: `seen` is of before the seek reset the clock
  overrun,      \* history: a look let go of the target by such a reading
  stopped,      \* history: jf_player_stop returned, no play since
  seeks         \* bound: requests so far

seekVars == <<seekPending, seekTo, held>>
timeVars == <<position, base, originReady, origin, clock>>
lookVars == <<seen, early>>
historyVars == <<asked, landing, overrun, stopped, seeks>>
vars == <<state, running, flowing, loaded, loadComplete, session, seekVars,
          target, duration, timeVars, ui, start, lookVars, historyVars>>

None == -1
Positions == 0..End

(* Where the session thread stands, in the order it goes.  "locked" and    *)
(* "taken" are inside segment_mutex.                                       *)
SessionPhases ==
  {"none", "opening", "waiting", "anchoring", "announcing", "deciding",
   "acquiring", "locked", "taken", "seeking", "segment", "parked",
   "closing", "releasing", "exited"}
UiPhases ==
  {"free", "joining", "stopping", "idling", "looking", "timing", "placing"}
MutexFree == session \notin {"locked", "taken"}

Init ==
  /\ state = "IDLE" /\ running = FALSE /\ flowing = FALSE
  /\ loaded = FALSE /\ loadComplete = FALSE
  /\ session = "none"
  /\ seekPending = FALSE /\ seekTo = 0 /\ held = None /\ target = 0
  /\ duration = 0 /\ position = 0 /\ base = 0
  /\ originReady = FALSE /\ origin = 0 /\ clock = None
  /\ ui = "free" /\ start = 0 /\ seen = None /\ early = FALSE
  /\ asked = 0 /\ landing = FALSE /\ overrun = FALSE
  /\ stopped = FALSE /\ seeks = 0

-----------------------------------------------------------------------------
(* jf_player_subtitle_ms.                                                  *)
Now == IF clock = None \/ ~originReady THEN None ELSE origin + clock

(* Mutant: the clock before the held target.                               *)
DisplayedByClock == IF seekPending THEN seekTo ELSE IF Now # None THEN Now ELSE position

(* What jf_player_position returns when nothing gets in between its reads. *)
Displayed == IF seekPending THEN seekTo
             ELSE IF held # None /\ Now < held THEN held
             ELSE IF Now # None THEN Now ELSE position

(* The target request_seek_locked settles on: not within a second of the   *)
(* end, once the end is known, and not before the start.                   *)
Clamped(wanted) ==
  LET low == IF duration > 0 /\ wanted > duration - 1 THEN duration - 1 ELSE wanted
  IN  IF low < 0 THEN 0 ELSE low

(* Where the reader's first packet after a seek to `t` is.                 *)
Landing(t) ==
  IF Transcoded THEN t
  ELSE CHOOSE k \in Keyframes: k <= t /\ \A j \in Keyframes: j <= t => j <= k

-----------------------------------------------------------------------------
(* The UI thread.                                                          *)

(* jf_player_play waits for the previous session before anything else.     *)
AskToPlay(at) ==
  /\ ui = "free" /\ ~running
  /\ seeks < MaxSeeks
  /\ ui' = "joining" /\ start' = at
  /\ seeks' = seeks + 1
  /\ UNCHANGED <<state, running, flowing, loaded, loadComplete, session, seekVars,
                 target, duration, timeVars, lookVars, asked, landing, overrun,
                 stopped>>

Joined == ui = "joining" /\ session \in {"none", "exited"}

(* The rest of jf_player_play: a resume position is a seek already         *)
(* pending when the session starts, if its thread can be.                  *)
Play ==
  /\ Joined
  /\ ui' = "free"
  /\ duration' = 0
  /\ originReady' = FALSE
  /\ seekTo' = start /\ seekPending' = (start > 0)
  /\ held' = IF start > 0 THEN start ELSE None
  /\ position' = start /\ base' = start
  /\ \/ state' = "LOADING" /\ running' = TRUE /\ session' = "opening"
     \/ state' = "FAILED" /\ UNCHANGED <<running, session>>
  /\ asked' = start /\ landing' = (start > 0) /\ overrun' = FALSE
  /\ stopped' = FALSE
  /\ UNCHANGED <<flowing, loaded, loadComplete, target, origin, clock, start, lookVars,
                 seeks>>

(* The address is too long, or there is no video window.                   *)
PlayFails ==
  /\ Joined
  /\ ui' = "free" /\ state' = "FAILED"
  /\ duration' \in {duration, 0}
  /\ UNCHANGED <<running, flowing, loaded, loadComplete, session, seekVars, target,
                 timeVars, start, lookVars, historyVars>>

(* Mutant: the segment is not interrupted.                                 *)
RequestSeekQuietly(wanted) ==
  /\ ui = "free" /\ MutexFree /\ running /\ seeks < MaxSeeks
  /\ seekTo' = Clamped(wanted) /\ held' = seekTo' /\ asked' = seekTo'
  /\ seekPending' = TRUE /\ landing' = TRUE /\ seeks' = seeks + 1
  /\ UNCHANGED <<state, running, flowing, loaded, loadComplete, session, target,
                 duration, timeVars, ui, start, lookVars, overrun, stopped>>

(* request_seek_locked, with interrupt_segment_locked at its end.          *)
RequestSeek(wanted) ==
  /\ ui = "free" /\ MutexFree /\ running
  /\ seeks < MaxSeeks
  /\ seekTo' = Clamped(wanted) /\ held' = Clamped(wanted)
  /\ seekPending' = TRUE
  /\ flowing' = FALSE
  /\ asked' = Clamped(wanted) /\ landing' = TRUE
  /\ seeks' = seeks + 1
  /\ UNCHANGED <<state, running, loaded, loadComplete, session, target, duration,
                 timeVars, ui, start, lookVars, overrun, stopped>>

Seek(delta) == RequestSeek(Displayed + delta)    \* jf_player_seek
SeekTo(at) == RequestSeek(at)                    \* jf_player_seek_to
AudioSelect == RequestSeek(Displayed)            \* jf_player_audio_select

(* jf_player_stop: three steps, the middle one under segment_mutex.        *)
StopWanted ==
  /\ ui = "free"
  /\ running' = FALSE
  /\ ui' = "stopping"
  /\ UNCHANGED <<state, flowing, loaded, loadComplete, session, seekVars, target,
                 duration, timeVars, start, lookVars, historyVars>>

StopInterrupts ==
  /\ ui = "stopping" /\ MutexFree
  /\ flowing' = FALSE
  /\ ui' = "idling"
  /\ UNCHANGED <<state, running, loaded, loadComplete, session, seekVars, target,
                 duration, timeVars, start, lookVars, historyVars>>

StopReturns ==
  /\ ui = "idling"
  /\ state' = "IDLE"
  /\ ui' = "free" /\ stopped' = TRUE
  /\ UNCHANGED <<running, flowing, loaded, loadComplete, session, seekVars, target,
                 duration, timeVars, start, lookVars, asked, landing, overrun, seeks>>

(* jf_player_position as the screen asks for it, without any lock: five    *)
(* reads, with every other thread in between, and the compare-and-swap     *)
(* that lets go of the target.  Only the UI thread sets seek_pending and   *)
(* `held`, so they stand still during a look; with a request pending or    *)
(* nothing held, a look changes nothing and is no step.                    *)
Looking(from) ==
  /\ ui = from
  /\ UNCHANGED <<state, running, flowing, loaded, loadComplete, session, seekPending,
                 seekTo, target, duration, timeVars, start, asked, landing, stopped,
                 seeks>>

LookForgets == seen' = None /\ early' = FALSE

(* Mutant: seek_pending is not asked for.                                  *)
LookBeginsAnyway ==
  /\ Looking("free") /\ session \notin {"none", "exited"}
  /\ held # None
  /\ ui' = "looking"
  /\ UNCHANGED <<held, lookVars, overrun>>

LookBegins ==
  /\ Looking("free") /\ session \notin {"none", "exited"}
  /\ ~seekPending /\ held # None
  /\ ui' = "looking"
  /\ UNCHANGED <<held, lookVars, overrun>>

(* jf_clock_pts: nothing, also when the last frame is too long ago.        *)
LookReadsClock ==
  /\ Looking("looking")
  /\ \/ ui' = "free" /\ UNCHANGED lookVars
     \/ /\ clock # None /\ ui' = "timing"
        /\ seen' = clock /\ early' = (session \in {"taken", "seeking"})
  /\ UNCHANGED <<held, overrun>>

LookReadsReady ==
  /\ Looking("timing")
  /\ \/ originReady /\ ui' = "placing" /\ UNCHANGED lookVars
     \/ ~originReady /\ ui' = "free" /\ LookForgets
  /\ UNCHANGED <<held, overrun>>

LookReadsOrigin ==
  /\ Looking("placing")
  /\ held' = IF origin + seen < held THEN held ELSE None
  /\ overrun' = (overrun \/ (early /\ held' # held))
  /\ ui' = "free" /\ LookForgets

LookStep == LookBegins \/ LookReadsClock \/ LookReadsReady \/ LookReadsOrigin

-----------------------------------------------------------------------------
(* The pipeline's event thread, on_event.                                  *)

LoadCompleted ==
  /\ loaded /\ ~loadComplete
  /\ loadComplete' = TRUE
  /\ UNCHANGED <<state, running, flowing, loaded, session, seekVars, target, duration,
                 timeVars, ui, start, lookVars, historyVars>>

PipelineError ==
  /\ loaded
  /\ state' = "FAILED" /\ running' = FALSE
  /\ UNCHANGED <<flowing, loaded, loadComplete, session, seekVars, target, duration,
                 timeVars, ui, start, lookVars, historyVars>>

(* A frame is displayed.  The pipeline plays on after an interrupt until   *)
(* seek_to pauses it.                                                      *)
FrameReady ==
  /\ loaded /\ session \in {"segment", "parked", "deciding", "acquiring", "locked",
                            "taken", "seeking"}
  /\ originReady \/ (session = "seeking" /\ clock # None)
  /\ origin + clock < End
  /\ clock' = clock + 1
  /\ position' = IF base + clock + 1 > End THEN End ELSE base + clock + 1
  /\ landing' = (landing /\ (seekPending \/ session \in {"taken", "seeking"}
                              \/ origin + clock + 1 < asked))
  /\ UNCHANGED <<state, running, flowing, loaded, loadComplete, session, seekVars,
                 target, duration, base, originReady, origin, ui, start, lookVars, asked,
                 overrun, stopped, seeks>>

-----------------------------------------------------------------------------
(* The session thread.                                                     *)

Steady == UNCHANGED <<seekVars, ui, start, lookVars, historyVars>>

Open ==
  /\ session = "opening"
  /\ duration' = End
  /\ loadComplete' = FALSE /\ loaded' = TRUE
  /\ session' = "waiting"
  /\ UNCHANGED <<state, running, flowing, target, timeVars>> /\ Steady

OpenFails ==
  /\ session \in {"opening", "anchoring"}
  /\ state' = "FAILED"
  /\ session' = "closing"
  /\ UNCHANGED <<running, flowing, loaded, loadComplete, target, duration, timeVars>>
  /\ Steady

(* Mutant: only the pipeline can end the wait.                             *)
WaitForLoadOnly ==
  /\ session = "waiting" /\ loadComplete
  /\ session' = IF running THEN "anchoring" ELSE "closing"
  /\ UNCHANGED <<state, running, flowing, loaded, loadComplete, target, duration, timeVars>>
  /\ Steady

WaitForLoad ==
  /\ session = "waiting" /\ (loadComplete \/ ~running)
  /\ session' = IF running THEN "anchoring" ELSE "closing"
  /\ UNCHANGED <<state, running, flowing, loaded, loadComplete, target, duration, timeVars>>
  /\ Steady

(* pipeline_begin_segment and reset_segment_timeline.                      *)
Anchor ==
  /\ session = "anchoring"
  /\ clock' = None
  /\ session' = "announcing"
  /\ UNCHANGED <<state, running, flowing, loaded, loadComplete, target, duration,
                 position, base, originReady, origin>> /\ Steady

Announce ==
  /\ session = "announcing"
  /\ state' = "PLAYING"
  /\ session' = "deciding"
  /\ UNCHANGED <<running, flowing, loaded, loadComplete, target, duration, timeVars>>
  /\ Steady

Decide ==
  /\ session = "deciding"
  /\ session' = IF running THEN "acquiring" ELSE "closing"
  /\ UNCHANGED <<state, running, flowing, loaded, loadComplete, target, duration, timeVars>>
  /\ Steady

(* Mutant: not read again.                                                 *)
AcquireUnchecked ==
  /\ session = "acquiring" /\ session' = "locked"
  /\ UNCHANGED <<state, running, flowing, loaded, loadComplete, target, duration, timeVars>>
  /\ Steady

(* segment_mutex, and `running` read again under it.                       *)
Acquire ==
  /\ session = "acquiring"
  /\ session' = IF running THEN "locked" ELSE "closing"
  /\ UNCHANGED <<state, running, flowing, loaded, loadComplete, target, duration, timeVars>>
  /\ Steady

TakeSeek ==
  /\ session = "locked" /\ seekPending
  /\ seekPending' = FALSE /\ target' = seekTo
  /\ session' = "taken"
  /\ UNCHANGED <<state, running, flowing, loaded, loadComplete, seekTo, held, duration,
                 timeVars, ui, start, lookVars, historyVars>>

DropOrigin ==
  /\ session = "taken"
  /\ originReady' = FALSE
  /\ session' = "seeking"
  /\ UNCHANGED <<state, running, flowing, loaded, loadComplete, target, duration,
                 position, base, origin, clock>> /\ Steady

(* seek_to, once the source has moved.                                     *)
SeekLands ==
  /\ session = "seeking"
  /\ base' = target /\ position' = target
  /\ originReady' = FALSE /\ clock' = None
  /\ session' = "deciding"
  /\ UNCHANGED <<state, running, flowing, loaded, loadComplete, target, duration, origin>>
  /\ Steady

SeekFails ==
  /\ session = "seeking"
  /\ state' = "FAILED" /\ running' = FALSE
  /\ session' = "deciding"
  /\ UNCHANGED <<flowing, loaded, loadComplete, target, duration, timeVars>> /\ Steady

(* Mutant: a segment starts although a seek is pending.                    *)
StartAnyway ==
  /\ session = "locked" /\ flowing' = TRUE /\ session' = "segment"
  /\ UNCHANGED <<state, running, loaded, loadComplete, target, duration, timeVars>>
  /\ Steady

StartSegment ==
  /\ session = "locked" /\ ~seekPending
  /\ flowing' = TRUE
  /\ session' = "segment"
  /\ UNCHANGED <<state, running, loaded, loadComplete, target, duration, timeVars>>
  /\ Steady

(* The reader's first packet sets the origin; it may be past the check of  *)
(* flowing() when the segment is interrupted.                              *)
ReaderSetsOrigin ==
  /\ session = "segment" /\ ~originReady
  /\ originReady' = TRUE /\ origin' = Landing(base)
  /\ UNCHANGED <<state, running, flowing, loaded, loadComplete, session, target,
                 duration, position, base, clock>> /\ Steady

(* run_segment without a reader, before anything of it runs.               *)
SegmentFails ==
  /\ session = "segment" /\ ~originReady
  /\ state' = "FAILED" /\ running' = FALSE
  /\ session' = "parked"
  /\ UNCHANGED <<flowing, loaded, loadComplete, target, duration, timeVars>> /\ Steady

(* run_segment returns: interrupted, out of packets, or a feed refused     *)
(* while it flowed.  Its interrupt_segment clears the flag on the way out. *)
SegmentEnds ==
  /\ session = "segment" /\ MutexFree
  /\ flowing' = FALSE
  /\ state' \in {state} \cup (IF flowing /\ running THEN {"FAILED"} ELSE {})
  /\ session' = "parked"
  /\ UNCHANGED <<running, loaded, loadComplete, target, duration, timeVars>> /\ Steady

Parked ==
  /\ session = "parked"
  /\ session' = IF seekPending THEN "deciding" ELSE "closing"
  /\ UNCHANGED <<state, running, flowing, loaded, loadComplete, target, duration, timeVars>>
  /\ Steady

Close ==
  /\ session = "closing"
  /\ running' = FALSE /\ flowing' = FALSE
  /\ session' = "releasing"
  /\ UNCHANGED <<state, loaded, loadComplete, target, duration, timeVars>> /\ Steady

(* Mutant: said over an error.                                             *)
ExitOverError ==
  /\ session = "releasing" /\ session' = "exited" /\ loaded' = FALSE /\ state' = "IDLE"
  /\ UNCHANGED <<running, flowing, loadComplete, target, duration, timeVars>> /\ Steady

(* smp_unload joins the pipeline's events; the session's last word.        *)
Exit ==
  /\ session = "releasing"
  /\ loaded' = FALSE
  /\ state' = IF state = "FAILED" THEN state ELSE "IDLE"
  /\ session' = "exited"
  /\ UNCHANGED <<running, flowing, loadComplete, target, duration, timeVars>> /\ Steady

SessionStep ==
  \/ Open \/ OpenFails \/ WaitForLoad \/ Anchor \/ Announce \/ Decide \/ Acquire
  \/ TakeSeek \/ DropOrigin \/ SeekLands \/ SeekFails \/ StartSegment
  \/ Parked \/ Close \/ Exit

Next ==
  \/ SessionStep \/ ReaderSetsOrigin \/ SegmentFails \/ SegmentEnds
  \/ LoadCompleted \/ PipelineError \/ FrameReady
  \/ \E at \in Positions: AskToPlay(at) \/ SeekTo(at)
  \/ \E delta \in Deltas: Seek(delta)
  \/ AudioSelect
  \/ Play \/ PlayFails \/ StopWanted \/ StopInterrupts \/ StopReturns \/ LookStep

Spec == Init /\ [][Next]_vars

(* Every thread runs, and an interrupted segment ends, which is what       *)
(* module Segment is about.  The pipeline need not complete a load.        *)
Fairness ==
  /\ WF_vars(SessionStep)
  /\ WF_vars(SegmentEnds /\ ~(running /\ flowing))
  /\ WF_vars(Play \/ PlayFails) /\ WF_vars(StopInterrupts) /\ WF_vars(StopReturns)
  /\ WF_vars(LookStep /\ ui # "free")
FairSpec == Spec /\ Fairness

-----------------------------------------------------------------------------
(* Every variable has its type.                                            *)
TypeOK ==
  /\ state \in {"IDLE", "LOADING", "PLAYING", "FAILED"}
  /\ running \in BOOLEAN /\ flowing \in BOOLEAN
  /\ loaded \in BOOLEAN /\ loadComplete \in BOOLEAN
  /\ session \in SessionPhases
  /\ seekPending \in BOOLEAN /\ seekTo \in Nat /\ held \in Nat \cup {None}
  /\ target \in Nat /\ duration \in {0, End}
  /\ position \in Nat /\ base \in Nat
  /\ originReady \in BOOLEAN /\ origin \in Int
  /\ clock \in Nat \cup {None}
  /\ ui \in UiPhases /\ start \in Positions
  /\ seen \in Nat \cup {None} /\ early \in BOOLEAN /\ asked \in Nat
  /\ landing \in BOOLEAN /\ overrun \in BOOLEAN /\ stopped \in BOOLEAN
  /\ seeks \in Nat

(* A stop sticks: once jf_player_stop has returned nothing flows until the *)
(* next play, however the session raced it into a new segment              *)
(* (player.c:1153-1175 against 1343-1348).                                 *)
StopSticks == stopped => ~running /\ ~flowing

(* A seek is never overtaken by a segment: while a request is pending no   *)
(* segment flows, and the one that flows starts where the last request     *)
(* asked (player.c:1159-1174).                                             *)
SegmentIsWhereAsked == flowing => ~seekPending /\ base = asked

(* From a request until playback reaches it the bar shows its target       *)
(* (player.c:179-181): no look lets go of it, and one that nothing gets    *)
(* into shows it.  Excepted are looks that read the clock between the      *)
(* session's taking the request (1161) and seek_to's resetting the clock   *)
(* (956): if such a reading still finds an origin -- the old one, before   *)
(* it is dropped (1166), or already the new segment's -- it is held        *)
(* against the new target, which may be let go of for good.                *)
BarHoldsTarget ==
  landing /\ running /\ ~overrun =>
    held = asked /\ (session # "taken" => Displayed = asked)

(* Presses faster than the seek lands add up (player.c:1303): a jump asked *)
(* for while another is landing starts from that one's target.             *)
PressesAddUp ==
  [][\A delta \in Deltas:
       Seek(delta) /\ landing /\ ~overrun => asked' = Clamped(asked + delta)]_vars

(* An error stays on screen until the user stops or plays again; the one   *)
(* step that can lose it is the session announcing that it plays while the *)
(* pipeline fails (player.c:1150 against 376, 1198).                       *)
ErrorStays ==
  [][state = "FAILED" /\ state' # "FAILED" => StopReturns \/ Play \/ Announce]_vars

(* Every request is taken, or the session it was made to ends, unless the  *)
(* pipeline never loads (player.c:1133-1138, 1153-1162, 1178).             *)
SeekIsTaken == seekPending ~> (~seekPending \/ session = "exited" \/ ~loadComplete)

(* A session nobody wants ends, loaded or not, so that the join in         *)
(* jf_player_play returns (player.c:1133-1138, 1209-1214).                 *)
SessionEnds == ~running ~> (session \in {"none", "exited"} \/ running)
=============================================================================
