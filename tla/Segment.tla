------------------------------ MODULE Segment ------------------------------
(***************************************************************************)
(* jf/player.c run_segment: one stretch of uninterrupted playback.  The    *)
(* reader demuxes into two bounded queues; the session thread feeds video  *)
(* to the pipeline; the audio thread places sound on the picture's clock   *)
(* (jf/audio_alsa.c, jf/clock.c); the UI pauses, resumes and interrupts.   *)
(* The queues are module PacketQueue's, here as counts: both lanes are     *)
(* first in first out, so the n-th packet popped is the n-th pushed.  The  *)
(* pts of a lane's n-th packet is n-1, and so is the n-th displayed        *)
(* frame's, which is what the clock reads.                                 *)
(***************************************************************************)
EXTENDS Integers, Sequences

CONSTANTS Streams,       \* the packet orders a container can have
          VideoSlots, AudioSlots,  \* what each queue holds
          PipeSlots,     \* frames the pipeline takes before BufferFull
          VideoAhead, AudioAhead,  \* VIDEO_FEED_AHEAD_NS, AUDIO_FEED_AHEAD_NS
          CanPause,      \* whether snd_pcm_pause can succeed
          Faults,        \* what may fail: "audio", "feed", "play", "pipeline"
          MaxPauses      \* bound: pauses in one behaviour

ASSUME StreamsAssumption == \A s \in Streams: s \in Seq({"video", "audio"})
ASSUME SlotsAssumption ==
  {VideoSlots, AudioSlots, PipeSlots} \subseteq Nat \ {0}
ASSUME AheadAssumption == {VideoAhead, AudioAhead} \subseteq Nat
ASSUME FaultsAssumption ==
  CanPause \in BOOLEAN /\ Faults \subseteq {"audio", "feed", "play", "pipeline"}
ASSUME MaxPausesAssumption == MaxPauses \in Nat

VARIABLES
  stream,                  \* this segment's packets
  running, flowing,        \* the two flags of flowing()
  closed,                  \* both queues, which only ever close together
  interrupted,             \* the audio writer's flag
  reader, read,            \* the reader, and the packets it has read
  videoQueue, audioQueue,  \* packets queued
  video, taken,            \* the video lane, and the frames it has popped
  audio, heard,            \* the audio lane, and the chunks it has popped
  fed, displayed,          \* frames the pipeline accepted, and showed
  playing, stale,          \* the pipeline plays; its last report is too old
  playRequested, paused,   \* play_requested, paused
  sink,                    \* the ALSA device
  ui,                      \* the UI thread
  pauses,                  \* bound: pauses so far
  cut                      \* history: interrupted, or something failed

flags == <<running, flowing, closed, interrupted>>
readerVars == <<reader, read>>
queues == <<videoQueue, audioQueue>>
videoVars == <<video, taken, fed>>
audioVars == <<audio, heard>>
pipeVars == <<playing, displayed, stale, playRequested>>
uiVars == <<ui, paused, pauses>>
vars == <<stream, flags, readerVars, queues, videoVars, audioVars, pipeVars,
          sink, uiVars, cut>>

None == -1

(* session() resets queues, flags and timeline before run_segment; paused  *)
(* survives from one segment to the next.                                  *)
Init ==
  /\ stream \in Streams
  /\ running = TRUE /\ flowing = TRUE /\ closed = FALSE /\ interrupted = FALSE
  /\ reader = "reading" /\ read = 0
  /\ videoQueue = 0 /\ audioQueue = 0
  /\ video = "popping" /\ taken = 0 /\ audio = "popping" /\ heard = 0
  /\ fed = 0 /\ displayed = 0 /\ playing = FALSE /\ stale = FALSE
  /\ playRequested = FALSE /\ paused \in BOOLEAN
  /\ sink = "running" /\ ui = "free" /\ pauses = 0 /\ cut = FALSE

Flowing == running /\ flowing
(* jf_clock_pts: nothing before the first frame, and nothing from a        *)
(* running clock whose last frame is over a quarter of a second old.       *)
Clock == IF displayed = 0 \/ (playing /\ stale) THEN None ELSE displayed - 1
(* Mutant: no clock, no packet.                                            *)
PacedByClock(pts, ahead) ==
  ~playRequested \/ ~Flowing \/ (Clock # None /\ pts <= Clock + ahead)

(* pace() lets a packet through: at once before Play, else when it is due  *)
(* within `ahead` of a usable clock.                                       *)
Paced(pts, ahead) ==
  ~playRequested \/ ~Flowing \/ Clock = None \/ pts <= Clock + ahead

-----------------------------------------------------------------------------
(* reader_thread.                                                          *)

ReaderReads ==
  /\ reader = "reading" /\ Flowing /\ read < Len(stream)
  /\ reader' = "pushing" /\ read' = read + 1
  /\ UNCHANGED <<stream, flags, queues, videoVars, audioVars, pipeVars, sink, uiVars, cut>>

ReaderPushes ==
  /\ reader = "pushing" /\ ~closed
  /\ \/ /\ stream[read] = "video" /\ videoQueue < VideoSlots
        /\ videoQueue' = videoQueue + 1 /\ UNCHANGED audioQueue
     \/ /\ stream[read] = "audio" /\ audioQueue < AudioSlots
        /\ audioQueue' = audioQueue + 1 /\ UNCHANGED videoQueue
  /\ reader' = "reading"
  /\ UNCHANGED <<stream, flags, read, videoVars, audioVars, pipeVars, sink, uiVars, cut>>

(* Interrupted, out of packets, or refused by a closed queue.              *)
ReaderEnds ==
  /\ \/ reader = "reading" /\ (~Flowing \/ read = Len(stream))
     \/ reader = "pushing" /\ closed
  /\ reader' = "ended" /\ closed' = TRUE
  /\ UNCHANGED <<stream, running, flowing, interrupted, read, queues, videoVars,
                 audioVars, pipeVars, sink, uiVars, cut>>

-----------------------------------------------------------------------------
(* The video lane: run_segment's own loop, on the session thread.          *)

VideoAt(from, to) == video = from /\ video' = to

VideoPops ==
  /\ videoQueue > 0
  /\ videoQueue' = videoQueue - 1
  /\ \/ VideoAt("popping", "pacing") /\ Flowing /\ taken' = taken + 1
     \/ VideoAt("popping", "leaving") /\ ~Flowing /\ UNCHANGED taken
  /\ UNCHANGED <<stream, flags, readerVars, audioQueue, audioVars, fed, pipeVars, sink,
                 uiVars, cut>>

VideoDrained ==
  /\ videoQueue = 0 /\ closed
  /\ VideoAt("popping", "leaving")
  /\ UNCHANGED <<stream, flags, readerVars, queues, taken, audioVars, fed, pipeVars, sink,
                 uiVars, cut>>

VideoPaces ==
  /\ VideoAt("pacing", "feeding") /\ Paced(taken - 1, VideoAhead)
  /\ UNCHANGED <<stream, flags, readerVars, queues, taken, audioVars, fed, pipeVars, sink,
                 uiVars, cut>>

PipeFull == fed - displayed = PipeSlots

(* feed_retrying: the same frame again for as long as the pipeline is full.*)
VideoFeeds ==
  /\ Flowing /\ ~PipeFull
  /\ VideoAt("feeding", "checking")
  /\ fed' = fed + 1
  /\ UNCHANGED <<stream, flags, readerVars, queues, taken, audioVars, pipeVars, sink,
                 uiVars, cut>>

(* Backpressure outlasting the limit: ten seconds of BufferFull while not  *)
(* paused, which takes a pipeline that is not playing and nobody about to  *)
(* start it.                                                               *)
Wedged == PipeFull /\ ~paused /\ ~playing /\ ui = "free"
VideoGivesUp ==
  /\ \/ ~Flowing /\ UNCHANGED cut
     \/ Flowing /\ (Wedged \/ "feed" \in Faults) /\ cut' = TRUE
  /\ VideoAt("feeding", "leaving")
  /\ UNCHANGED <<stream, flags, readerVars, queues, taken, audioVars, fed, pipeVars, sink,
                 uiVars>>

(* maybe_start_pipeline: look, claim the one Play, play.                   *)
VideoChecks ==
  /\ \/ VideoAt("checking", "popping") /\ (paused \/ playRequested)
     \/ VideoAt("checking", "claiming") /\ ~paused /\ ~playRequested
  /\ UNCHANGED <<stream, flags, readerVars, queues, taken, audioVars, fed, pipeVars, sink,
                 uiVars, cut>>

VideoClaims ==
  /\ \/ VideoAt("claiming", "popping") /\ playRequested
     \/ VideoAt("claiming", "playing") /\ ~playRequested
  /\ playRequested' = TRUE
  /\ UNCHANGED <<stream, flags, readerVars, queues, taken, audioVars, fed, playing,
                 displayed, stale, sink, uiVars, cut>>

VideoPlays ==
  /\ VideoAt("playing", "popping")
  /\ playing' = TRUE
  /\ UNCHANGED <<stream, flags, readerVars, queues, taken, audioVars, fed, displayed,
                 stale, playRequested, sink, uiVars, cut>>

(* The pipeline refuses: the claim is given up and the session with it.    *)
Refused ==
  /\ "play" \in Faults
  /\ playRequested' = FALSE /\ running' = FALSE /\ cut' = TRUE
  /\ UNCHANGED <<stream, flowing, closed, interrupted, readerVars, queues, taken, audioVars,
                 fed, playing, displayed, stale, sink, paused, pauses>>
VideoCannotPlay == VideoAt("playing", "popping") /\ Refused /\ UNCHANGED ui

(* Mutant: the audio writer is not told.                                   *)
InterruptingQueues ==
  flowing' = FALSE /\ closed' = TRUE /\ UNCHANGED <<running, interrupted>>

Interrupting ==
  /\ flowing' = FALSE /\ closed' = TRUE /\ interrupted' = TRUE
  /\ UNCHANGED running

VideoLeaves ==
  /\ VideoAt("leaving", "joining")
  /\ Interrupting
  /\ UNCHANGED <<stream, readerVars, queues, taken, audioVars, fed, pipeVars, sink,
                 uiVars, cut>>

VideoJoins ==
  /\ reader = "ended" /\ audio = "ended"
  /\ VideoAt("joining", "ended")
  /\ UNCHANGED <<stream, flags, readerVars, queues, taken, audioVars, fed, pipeVars, sink,
                 uiVars, cut>>

-----------------------------------------------------------------------------
(* audio_thread, with jf_audio_write in its three waits.                   *)

AudioAt(from, to) == audio = from /\ audio' = to

AudioPops ==
  /\ audioQueue > 0
  /\ audioQueue' = audioQueue - 1
  /\ \/ AudioAt("popping", "pacing") /\ Flowing /\ heard' = heard + 1
     \/ AudioAt("popping", "ended") /\ ~Flowing /\ UNCHANGED heard
  /\ UNCHANGED <<stream, flags, readerVars, videoQueue, videoVars, pipeVars, sink, uiVars,
                 cut>>

AudioDrained ==
  /\ audioQueue = 0 /\ closed
  /\ AudioAt("popping", "ended")
  /\ UNCHANGED <<stream, flags, readerVars, queues, videoVars, heard, pipeVars, sink,
                 uiVars, cut>>

AudioPaces ==
  /\ AudioAt("pacing", "syncing") /\ Paced(heard - 1, AudioAhead)
  /\ UNCHANGED <<stream, flags, readerVars, queues, videoVars, heard, pipeVars, sink,
                 uiVars, cut>>

(* wait_for_clock.                                                         *)
AudioSyncs ==
  /\ ~interrupted /\ Clock # None
  /\ AudioAt("syncing", "writing")
  /\ UNCHANGED <<stream, flags, readerVars, queues, videoVars, heard, pipeVars, sink,
                 uiVars, cut>>

(* write_frames: a paused device may still have room for this chunk.       *)
AudioWrites ==
  /\ ~interrupted /\ sink # "dropped"
  /\ AudioAt("writing", IF Flowing THEN "popping" ELSE "ended")
  /\ UNCHANGED <<stream, flags, readerVars, queues, videoVars, heard, pipeVars, sink,
                 uiVars, cut>>

(* A write that fails ends the lane: interrupted, refused by a device that *)
(* was dropped and not prepared (-EBADFD, which snd_pcm_recover does not   *)
(* mend), or failed; and so does a thread that could not be created.       *)
AudioFails ==
  /\ \/ audio \in {"syncing", "writing"} /\ interrupted
     \/ audio = "writing" /\ (sink = "dropped" \/ "audio" \in Faults)
     \/ audio = "popping" /\ heard = 0 /\ "audio" \in Faults
  /\ audio' = "ended"
  /\ UNCHANGED <<stream, flags, readerVars, queues, videoVars, heard, pipeVars, sink,
                 uiVars, cut>>

-----------------------------------------------------------------------------
(* The pipeline.                                                           *)

Displays ==
  /\ playing /\ displayed < fed
  /\ displayed' = displayed + 1 /\ stale' = FALSE
  /\ UNCHANGED <<stream, flags, readerVars, queues, videoVars, audioVars, playing,
                 playRequested, sink, uiVars, cut>>

(* A pipeline that has nothing to show, or has failed, stops reporting.    *)
(* The quarter second that takes is long enough for a thread that can go   *)
(* on: audio polls every 2 ms, pacing every 20, and the device holds 200.  *)
(* So a report goes stale only while each of them waits: the reader for    *)
(* the source or for room, a lane for a packet, for its time or for an     *)
(* ALSA device that is paused, the UI for its user.                        *)
ReaderWaits ==
  reader = "pushing" =>
    /\ ~closed
    /\ \/ stream[read] = "audio" /\ audioQueue = AudioSlots
       \/ stream[read] = "video" /\ videoQueue = VideoSlots
VideoWaits ==
  \/ video = "popping" /\ videoQueue = 0
  \/ video = "pacing" /\ ~Paced(taken - 1, VideoAhead)
AudioWaits ==
  \/ audio = "ended" \/ (audio = "popping" /\ audioQueue = 0)
  \/ audio = "pacing" /\ ~Paced(heard - 1, AudioAhead)
  \/ audio = "writing" /\ sink = "paused"

GoesStale ==
  /\ playing /\ displayed > 0 /\ ~stale
  /\ \/ displayed = fed /\ ReaderWaits /\ VideoWaits /\ AudioWaits /\ ui = "free"
     \/ ~running
  /\ stale' = TRUE
  /\ UNCHANGED <<stream, flags, readerVars, queues, videoVars, audioVars, playing,
                 displayed, playRequested, sink, uiVars, cut>>

(* on_event's error: the session is not wanted any more, but no thread is  *)
(* woken.                                                                  *)
PipelineError ==
  /\ "pipeline" \in Faults /\ running /\ video # "ended"
  /\ running' = FALSE /\ cut' = TRUE
  /\ UNCHANGED <<stream, flowing, closed, interrupted, readerVars, queues, videoVars,
                 audioVars, pipeVars, sink, uiVars>>

-----------------------------------------------------------------------------
(* The UI thread: jf_player_pause, jf_player_resume, and an interrupt from *)
(* jf_player_stop or a seek.                                               *)

UiAt(from, to) == ui = from /\ ui' = to

Pause ==
  /\ UiAt("free", "pausing") /\ ~paused /\ video # "ended"
  /\ pauses < MaxPauses
  /\ paused' = TRUE /\ pauses' = pauses + 1
  /\ UNCHANGED <<stream, flags, readerVars, queues, videoVars, audioVars, pipeVars, sink,
                 cut>>

PausesPipeline ==
  /\ UiAt("pausing", "muting")
  /\ playing' = FALSE
  /\ UNCHANGED <<stream, flags, readerVars, queues, videoVars, audioVars, displayed,
                 stale, playRequested, sink, paused, pauses, cut>>

(* jf_audio_pause(true): a device that does not pause is dropped.          *)
Mutes ==
  /\ UiAt("muting", "free")
  /\ sink' = "dropped" \/ (CanPause /\ sink' = "paused")
  /\ UNCHANGED <<stream, flags, readerVars, queues, videoVars, audioVars, pipeVars,
                 paused, pauses, cut>>

Resume ==
  /\ UiAt("free", "unmuting") /\ paused /\ video # "ended"
  /\ paused' = FALSE
  /\ UNCHANGED <<stream, flags, readerVars, queues, videoVars, audioVars, pipeVars, sink,
                 pauses, cut>>

Unmutes ==
  /\ UiAt("unmuting", "resuming")
  /\ sink' = "running"
  /\ UNCHANGED <<stream, flags, readerVars, queues, videoVars, audioVars, pipeVars,
                 paused, pauses, cut>>

(* Mutant: Play asked for once is not asked for again.                     *)
ResumeForgets ==
  /\ \/ UiAt("resuming", "claiming") /\ ~playRequested /\ fed > 0
     \/ UiAt("resuming", "free") /\ (playRequested \/ fed = 0)
  /\ UNCHANGED <<stream, flags, readerVars, queues, videoVars, audioVars, pipeVars, sink,
                 paused, pauses, cut>>

(* Play again if Play was asked for already, else maybe_start_pipeline.    *)
ResumeChecks ==
  /\ \/ UiAt("resuming", "replaying") /\ playRequested
     \/ UiAt("resuming", "claiming") /\ ~playRequested /\ fed > 0
     \/ UiAt("resuming", "free") /\ ~playRequested /\ fed = 0
  /\ UNCHANGED <<stream, flags, readerVars, queues, videoVars, audioVars, pipeVars, sink,
                 paused, pauses, cut>>

ResumeClaims ==
  /\ \/ UiAt("claiming", "free") /\ playRequested
     \/ UiAt("claiming", "playing") /\ ~playRequested
  /\ playRequested' = TRUE
  /\ UNCHANGED <<stream, flags, readerVars, queues, videoVars, audioVars, playing,
                 displayed, stale, sink, paused, pauses, cut>>

ResumePlays ==
  /\ UiAt("playing", "free") \/ UiAt("replaying", "free")
  /\ playing' = TRUE
  /\ UNCHANGED <<stream, flags, readerVars, queues, videoVars, audioVars, displayed,
                 stale, playRequested, sink, paused, pauses, cut>>

(* The pipeline refuses; when it had been asked before, nobody looks.      *)
ResumeCannotPlay ==
  \/ UiAt("playing", "free") /\ Refused /\ UNCHANGED video
  \/ /\ UiAt("replaying", "free") /\ "play" \in Faults
     /\ cut' = TRUE
     /\ UNCHANGED <<stream, flags, readerVars, queues, videoVars, audioVars, pipeVars, sink,
                    paused, pauses>>

Interrupt ==
  /\ ui = "free" /\ flowing
  /\ Interrupting /\ cut' = TRUE
  /\ UNCHANGED <<stream, readerVars, queues, videoVars, audioVars, pipeVars, sink, uiVars>>

-----------------------------------------------------------------------------
ReaderStep == ReaderReads \/ ReaderPushes \/ ReaderEnds
VideoStep ==
  \/ VideoPops \/ VideoDrained \/ VideoPaces \/ VideoFeeds \/ VideoGivesUp
  \/ VideoChecks \/ VideoClaims \/ VideoPlays \/ VideoCannotPlay \/ VideoLeaves \/ VideoJoins
AudioStep ==
  \/ AudioPops \/ AudioDrained \/ AudioPaces \/ AudioSyncs \/ AudioWrites \/ AudioFails
UiStep ==
  \/ PausesPipeline \/ Mutes \/ Unmutes \/ ResumeChecks \/ ResumeClaims \/ ResumePlays
  \/ ResumeCannotPlay

(* The segment is over: what the next one does is its own behaviour.       *)
Over == video = "ended" /\ ui = "free" /\ UNCHANGED vars

Next ==
  \/ ReaderStep \/ VideoStep \/ AudioStep \/ Displays \/ GoesStale \/ PipelineError
  \/ Pause \/ Resume \/ UiStep \/ Interrupt \/ Over

Spec == Init /\ [][Next]_vars

(* Threads run, the source answers, a playing pipeline shows what it has   *)
(* until it fails, and a device that is not paused drains.  Nobody has to  *)
(* pause, resume or interrupt.                                             *)
Fairness ==
  /\ WF_vars(ReaderStep) /\ WF_vars(VideoStep)
  /\ WF_vars(AudioStep /\ ~(audio = "writing" /\ sink = "paused" /\ ~interrupted))
  /\ WF_vars(Displays /\ running) /\ WF_vars(UiStep)
FairSpec == Spec /\ Fairness

-----------------------------------------------------------------------------
(* Every variable has its type.                                            *)
TypeOK ==
  /\ stream \in Streams
  /\ {running, flowing, closed, interrupted, playing, stale, playRequested, paused, cut}
       \subseteq BOOLEAN
  /\ reader \in {"reading", "pushing", "ended"} /\ read \in 0..Len(stream)
  /\ videoQueue \in 0..VideoSlots /\ audioQueue \in 0..AudioSlots
  /\ video \in {"popping", "pacing", "feeding", "checking", "claiming", "playing",
                "leaving", "joining", "ended"}
  /\ audio \in {"popping", "pacing", "syncing", "writing", "ended"}
  /\ taken \in Nat /\ heard \in Nat /\ fed \in Nat /\ displayed \in Nat
  /\ sink \in {"running", "paused", "dropped"}
  /\ ui \in {"free", "pausing", "muting", "unmuting", "resuming", "claiming",
            "playing", "replaying"}
  /\ pauses \in Nat

(* No Play is lost between the video lane, which skips it while paused,    *)
(* and a resume, which skips it before anything is fed: when both are past *)
(* it and video was fed, the pipeline plays unless it refused to.  So      *)
(* backpressure while not paused is never for want of a Play               *)
(* (player.c:321-325, 419-434, 1280-1288).                                 *)
PlayIsNotLost ==
  ~paused /\ fed > 0 /\ ~cut /\ ui = "free" /\ video \notin {"checking", "claiming", "playing"}
    => playing

(* "While paused the pipeline consumes nothing" (player.c:321).            *)
PausedConsumesNothing == paused /\ ui = "free" => ~playing

(* The sound's lane failed and left its queue open: what then fills it     *)
(* blocks the reader until an interrupt.                                   *)
SoundLost == audio = "ended" /\ ~closed

(* Sound waits for a picture or for a paused device, the next picture is   *)
(* behind more sound, and the reader waits for room to put that down       *)
(* (audio_alsa.c:139, 171, packet_queue.c:41).                             *)
SoundWaits ==
  /\ (audio = "syncing" /\ Clock = None) \/ (audio = "writing" /\ sink = "paused")
  /\ reader = "pushing" /\ stream[read] = "audio" /\ audioQueue = AudioSlots

(* An interrupt ends the segment, wherever its threads were waiting.  A    *)
(* pipeline error wakes nobody (player.c:370-378): it ends the segment     *)
(* too, unless the sound was lost before, or waiting sound is what all the *)
(* others are waiting for.                                                 *)
InterruptEnds ==
  /\ ~flowing ~> video = "ended"
  /\ (~running ~> video = "ended" \/ SoundLost) \/ <>[]SoundWaits

(* A resume was refused, and nobody looked.                                *)
PlayLost == cut /\ playRequested /\ ~playing /\ ~paused /\ ui = "free"

(* The container never has more sound in a row than the audio queue and    *)
(* the lane before it take without a picture.                              *)
Interleaved ==
  \A i \in 1..(Len(stream) - AudioSlots - 1) :
     \E j \in i..(i + AudioSlots + 1) : stream[j] = "video"

(* Left alone and not paused for good, a container that is interleaved     *)
(* plays to its end: no thread waits on another forever, but for a reader  *)
(* whose sound was lost and a lane whose pipeline would not play on.  Both *)
(* hypotheses are needed: one more sound in a row, or a pipeline that      *)
(* plays on through a pause and shows all it has, ends in SoundWaits for   *)
(* good (audio_alsa.c:139, 171, player.c:419-434).                         *)
StreamPlays ==
  Interleaved /\ []PausedConsumesNothing /\ <>[]~paused =>
    <>(video = "ended" \/ ~running \/ SoundLost \/ PlayLost)
=============================================================================
