----------------------------- MODULE MCPlayback -----------------------------
(* What must happen in the end while a film plays, in three parts that share *)
(* no state: a behaviour is one part's throughout and the others stay as     *)
(* they began.  Tracks: one of every kind the code tells apart.  Host: the   *)
(* frames of a segment, and a queue of three.  Subs: one worker, one line    *)
(* over the first two frames, and playback jumping both ways.                *)
EXTENDS Tracks, FiniteSets, Sequences

Embedded == [text |-> TRUE, inContainer |-> TRUE, onServer |-> TRUE]
Beside == [text |-> TRUE, inContainer |-> FALSE, onServer |-> TRUE]
Unlisted == [text |-> TRUE, inContainer |-> TRUE, onServer |-> FALSE]
Bitmap == [text |-> FALSE, inContainer |-> TRUE, onServer |-> FALSE]
EveryKind == {Embedded, Beside, Unlisted, Bitmap}

VARIABLES
  part,
  decoder, playing, base, elapsed, fed, inside, queue, feedFresh, texture, render,
  slots, worker, rendering, fresh, playhead, next, lines, retired, nextId, complete,
  taking, backlog, held, control, shown, dirty, above, uploading, screen, ops, lifts

hostVars == <<decoder, playing, base, elapsed, fed, inside, queue, feedFresh, texture, render>>
linesVars == <<slots, worker, rendering, fresh, playhead, next, lines, retired, nextId,
               complete, taking, backlog, held, control, shown, dirty, above, uploading,
               screen, ops, lifts>>

Host == INSTANCE Host WITH End <- 3, Queue <- 3, Full <- 2, fresh <- feedFresh
Subs == INSTANCE Subs
  WITH Workers <- {1}, Lines <- {[start |-> 0, end |-> 2]}, Targets <- {0, 1},
       TrimEvery <- 2, BacklogSpan <- 0, MaxSerial <- 1, MaxOps <- 2, MaxLifts <- 0,
       running <- rendering, serial <- held

MCInit ==
  /\ part \in {"tracks", "host", "lines"}
  /\ Init /\ Host!Init /\ Subs!Init

MCNext ==
  \/ part = "tracks" /\ Next /\ UNCHANGED <<part, hostVars, linesVars>>
  \/ part = "host" /\ Host!Next /\ UNCHANGED <<part, vars, linesVars>>
  \/ part = "lines" /\ Subs!Next /\ UNCHANGED <<part, vars, hostVars>>

\* The fairness of each part, where it is the one.
Fairness ==
  /\ WF_vars(part = "tracks" /\ LoaderStep)
  /\ WF_hostVars(part = "host" /\ Host!Tick)
  /\ WF_hostVars(part = "host" /\ Host!RenderDue)
  /\ WF_hostVars(part = "host" /\ Host!RenderDraws)
  /\ \A w \in {1} : WF_linesVars(part = "lines" /\ Subs!WorkerStep(w))
  /\ WF_linesVars(part = "lines" /\ Subs!ControlStep)
  /\ WF_linesVars(part = "lines" /\ Subs!Frame(playhead) /\ playhead \in {0, 1})

MCSpec == MCInit /\ [][MCNext]_<<part, vars, hostVars, linesVars>> /\ Fairness

(* Host: a frame queued while playing goes up or is passed over in the end.  *)
FramesAreDrawn == Host!FramesAreDrawn

(* Subs: wherever playback stays, its frame comes up.                        *)
FrameIsShown == Subs!FrameIsShown
=============================================================================
