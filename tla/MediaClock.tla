----------------------------- MODULE MediaClock -----------------------------
(* src/src/jf/clock.c, anchored by the clock thread of src/src/jf/player.c    *)
(* and by the frames the pipeline reports, against where the pipeline really  *)
(* is.  The session pauses and plays; between segments, with the thread       *)
(* joined, it resets.  A tick is some 20 ms.                                  *)
EXTENDS Integers

CONSTANTS
  Frame,   \* the ticks a frame lasts: the pipeline reports its start
  Tolerance, Freshness,   \* BACKWARD_TOLERANCE_NS, FRESHNESS_NS
  Slow,    \* CLOCK_SLOW_QUERY_NS
  MaxNow   \* bounds time

VARIABLES
  now, position,        \* the wall clock, and what the pipeline presents
  playing,              \* of the pipeline, and `running`: its events come at once
  valid, samplePts, sampleHost,
  poll                  \* the clock thread: asks, with pipeline_mutex held

vars == <<now, position, playing, valid, samplePts, sampleHost, poll>>
clock == <<valid, samplePts, sampleHost>>

None == -1
Rest == [at |-> "rest", before |-> 0, pts |-> 0]

Init ==
  /\ now = 0 /\ position = 0 /\ playing = FALSE
  /\ valid = FALSE /\ samplePts = 0 /\ sampleHost = 0
  /\ poll = Rest

Tick ==
  /\ now < MaxNow /\ now' = now + 1
  /\ position' = IF playing THEN position + 1 ELSE position
  /\ UNCHANGED <<playing, clock, poll>>

Presented == position - (position % Frame)

\* jf_clock_sample.  A repeat is the same frame seen again.
Sample(pts, host) ==
  IF ~valid \/ (pts # samplePts /\ pts + Tolerance >= samplePts)
  THEN valid' = TRUE /\ samplePts' = pts /\ sampleHost' = host
  ELSE UNCHANGED clock

\* FRAMEREADY, of a frame as it is shown.
Report ==
  /\ playing /\ position % Frame = 0
  /\ Sample(position, now)
  /\ UNCHANGED <<now, position, playing, poll>>

----------------------------------------------------------------------------
(* clock_thread *)

Asks ==
  /\ poll.at = "rest" /\ playing
  /\ poll' = [at |-> "asks", before |-> now, pts |-> 0]
  /\ UNCHANGED <<now, position, playing, clock>>

Hears ==
  /\ poll.at = "asks"
  /\ poll' = [poll EXCEPT !.at = "hears", !.pts = Presented]
  /\ UNCHANGED <<now, position, playing, clock>>

\* The halfway point anchors, but for a slow query.
Halfway == poll.before + ((now - poll.before) \div 2)
Releases ==
  /\ poll.at = "hears"
  /\ poll' = IF now - poll.before <= Slow
             THEN [at |-> "samples", before |-> Halfway, pts |-> poll.pts] ELSE Rest
  /\ UNCHANGED <<now, position, playing, clock>>

Samples ==
  /\ poll.at = "samples" /\ poll' = Rest
  /\ Sample(poll.pts, poll.before)
  /\ UNCHANGED <<now, position, playing>>

----------------------------------------------------------------------------
(* The session's calls, which take pipeline_mutex. *)

Toggle ==
  /\ poll.at \in {"rest", "samples"}
  /\ playing' = ~playing
  /\ UNCHANGED <<now, position, clock, poll>>

\* jf_clock_reset, and the pipeline's new segment
Reset ==
  /\ poll = Rest
  /\ playing' = FALSE /\ position' = 0
  /\ valid' = FALSE /\ samplePts' = 0 /\ sampleHost' = 0
  /\ UNCHANGED <<now, poll>>

Next == Tick \/ Report \/ Asks \/ Hears \/ Releases \/ Samples \/ Toggle \/ Reset

Spec == Init /\ [][Next]_vars

----------------------------------------------------------------------------
\* jf_clock_pts.
PtsAnyAge ==   \* mutant: an anchor is projected however old
  IF ~valid THEN None ELSE IF playing THEN samplePts + (now - sampleHost) ELSE samplePts
Pts ==
  IF ~valid THEN None
  ELSE IF ~playing THEN samplePts
  ELSE IF now - sampleHost \in 0..Freshness THEN samplePts + (now - sampleHost)
  ELSE None

TypeOK ==
  /\ now \in 0..MaxNow /\ position \in 0..MaxNow
  /\ {playing, valid} \subseteq BOOLEAN
  /\ samplePts \in 0..MaxNow /\ sampleHost \in 0..MaxNow
  /\ poll \in [at : {"rest", "asks", "hears", "samples"}, before : 0..MaxNow, pts : 0..MaxNow]

(* Through pauses, slow queries and late samples, what the clock says is      *)
(* behind the picture by no more than a frame and half a query, and ahead by  *)
(* no more than a pause its freshness lets pass ("Past this, the pipeline has *)
(* stopped reporting and the anchor is not worth projecting").                *)
ReadingIsNear ==
  /\ Pts # None /\ playing =>
       /\ Pts <= position + Freshness
       /\ Pts >= position - Frame - (Slow \div 2)
  /\ Pts # None /\ ~playing => Pts <= position
=============================================================================
