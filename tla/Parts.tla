------------------------------- MODULE Parts --------------------------------
(* Five parts of the player that share no state with each other, each a      *)
(* specification of its own: the settings' files, the artwork cache, the     *)
(* bitmap subtitles, the demuxer and the media clock.                        *)
EXTENDS Settings

CONSTANTS
  Posters, Backdrops, Workers, Budget, MaxWrites,              \* Cache
  BitmapTracks, LastStart, Lengths, Forever, LongOver,
  MaxPictures,                                                 \* PicSubs
  Audio, Subtitles, MaxStretch,                                \* Demux
  FrameTicks, Tolerance, Freshness, Slow, MaxNow               \* MediaClock

\* FFmpeg numbers a file's streams; 0 stands for the one of a transcode.
ASSUME AudioAssumption == Audio \subseteq Nat \ {0}

ASSUME ClockAssumption == FrameTicks \in Nat \ {0} /\ Freshness \in Nat /\ Slow \in Nat

\* A picture lasts some milliseconds, or until the next: -1 and INT64_MAX.
ASSUME PicturesAssumption ==
  /\ LastStart \in Nat /\ Lengths \subseteq Int /\ Forever \in Int /\ MaxPictures \in Nat \ {0}
  /\ 0 \notin BitmapTracks

VARIABLES
  files, worker, cacheClock, cacheUp,
  open, chosen, images, shown, valid, heap,
  session, source, stretch, wanted, played, readAudio, decoder, audioHas, swrHas,
  nextPts, filter, subs, missed, out,
  now, position, playing, anchored, samplePts, sampleHost, poll

Cache == INSTANCE Cache WITH clock <- cacheClock, up <- cacheUp
PicSubs == INSTANCE PicSubs WITH Streams <- BitmapTracks, End <- LastStart,
                                 selected <- chosen, pictures <- images
Demux == INSTANCE Demux
Clock == INSTANCE MediaClock WITH Frame <- FrameTicks, valid <- anchored

----------------------------------------------------------------------------
(* Cache: a file under its final name is whole, but after a power cut.       *)
ImagesAreWhole == Cache!ImagesAreWhole

(* PicSubs: no buffer is lost, shared or freed while it is listed or drawn.  *)
BuffersAreKept == PicSubs!BuffersAreKept

(* PicSubs: one picture of a track is due at a time.                         *)
OneIsDue == PicSubs!OneIsDue

(* Demux: nothing kept back from before a seek comes out after it.           *)
OutputIsCurrent == Demux!OutputIsCurrent

(* Demux: the sound read and decoded is the track played, from an open file. *)
SoundIsThePlayed == Demux!SoundIsThePlayed

(* MediaClock: a reading is near to what the pipeline presents.              *)
ReadingIsNear == Clock!ReadingIsNear
=============================================================================
