-------------------------------- MODULE Host --------------------------------
(* src/src/jf/smp_host.c: the pipeline of the desktop build.  The segment's   *)
(* feeder decodes into a short queue of pictures, the session pauses, plays   *)
(* and begins segments, the UI's thread draws the newest picture the clock    *)
(* has reached -- and draws only when it has a reason to, of which `fresh` is *)
(* one.                                                                       *)
EXTENDS Integers, Sequences, FiniteSets, SequencesExt

CONSTANTS
  End,          \* the presentation times of frames are 0..End, in that order
  Queue, Full   \* QUEUE, QUEUE_FULL

VARIABLES
  decoder, playing,
  base, elapsed,   \* base_ns, and the wall clock since then while playing
  fed, inside,     \* frames fed in this segment; those the decoder still holds
  queue, fresh,
  texture,         \* the frame of this segment last drawn, if any
  render           \* the clock smp_host_render has read and not yet used

vars == <<decoder, playing, base, elapsed, fed, inside, queue, fresh, texture, render>>
clockVars == <<playing, base, elapsed>>
decoderVars == <<decoder, fed, inside>>

Nothing == -1

Init ==
  /\ decoder = FALSE /\ playing = FALSE /\ base = 0 /\ elapsed = 0
  /\ fed = 0 /\ inside = 0 /\ queue = <<>> /\ fresh = FALSE
  /\ texture = Nothing /\ render = Nothing

\* smp_get_current_playtime
Playtime == base + IF playing THEN elapsed ELSE 0

\* Wall-clock time; the last frame's time is the last this model tells apart.
Tick ==
  /\ playing /\ Playtime < End
  /\ elapsed' = elapsed + 1
  /\ UNCHANGED <<decoderVars, playing, base, queue, fresh, texture, render>>

----------------------------------------------------------------------------
(* The session's calls *)

Anchor(pts) ==
  /\ base' = pts /\ elapsed' = 0
  /\ queue' = <<>> /\ fed' = pts /\ inside' = 0
  /\ texture' = Nothing

\* smp_load, which begins the segment at 0; a codec FFmpeg lacks leaves no decoder.
Load ==
  /\ playing' = FALSE /\ decoder' \in BOOLEAN /\ Anchor(0)
  /\ UNCHANGED <<fresh, render>>

Unload ==
  /\ decoder /\ decoder' = FALSE
  /\ queue' = <<>> /\ inside' = 0
  /\ UNCHANGED <<clockVars, fed, fresh, texture, render>>

\* jf_starfish_begin_segment
BeginSegment ==
  \E pts \in 0..End :
    /\ playing' = FALSE /\ Anchor(pts)
    /\ UNCHANGED <<decoder, fresh, render>>

\* The session plays what it paused or has begun.
PlayAsFresh ==   \* mutant: the frames that came while it was paused are forgotten
  /\ ~playing /\ playing' = TRUE /\ elapsed' = 0
  /\ UNCHANGED <<decoderVars, base, queue, fresh, texture, render>>
Play ==
  /\ ~playing /\ playing' = TRUE /\ elapsed' = 0 /\ fresh' = TRUE
  /\ UNCHANGED <<decoderVars, base, queue, texture, render>>

Pause ==
  /\ base' = Playtime /\ elapsed' = 0 /\ playing' = FALSE /\ fresh' = FALSE
  /\ UNCHANGED <<decoderVars, queue, texture, render>>

----------------------------------------------------------------------------
(* smp_feed, one access unit: the decoder keeps some frames back and hands on *)
(* the others, in order.                                                      *)

IsFull == IF decoder THEN Len(queue) >= Full ELSE fed > base + 2

\* keep: the oldest makes room; in order of presentation.
Kept(list, pts) ==
  LET room == IF Len(list) = Queue THEN Tail(list) ELSE list
      at == Cardinality({i \in DOMAIN room : room[i] <= pts}) + 1
  IN  InsertAt(room, at, pts)

Feed ==
  /\ ~IsFull /\ fed <= End
  /\ fed' = fed + 1
  /\ \E out \in 0..(inside + 1) :
       /\ decoder \/ out = inside + 1
       /\ inside' = inside + 1 - out
       /\ IF decoder /\ out > 0
          THEN /\ queue' = FoldLeft(Kept, queue,
                             [i \in 1..out |-> fed - inside - 1 + i])
               /\ fresh' = TRUE
          ELSE UNCHANGED <<queue, fresh>>
  /\ UNCHANGED <<clockVars, decoder, texture, render>>

----------------------------------------------------------------------------
(* smp_host_render: the clock is read under one hold of the lock and used     *)
(* under the next.                                                            *)

RenderReads ==
  /\ render = Nothing /\ render' = Playtime
  /\ UNCHANGED <<clockVars, decoderVars, queue, fresh, texture>>

Reached == {i \in DOMAIN queue : queue[i] <= render}
Left == SubSeq(queue, Cardinality(Reached) + 1, Len(queue))

RenderDraws ==
  /\ render # Nothing /\ render' = Nothing
  /\ IF Reached # {}
     THEN texture' = queue[Cardinality(Reached)] /\ queue' = Left
     ELSE UNCHANGED <<texture, queue>>
  /\ fresh' = (queue' # <<>> /\ playing)
  /\ UNCHANGED <<clockVars, decoderVars>>

----------------------------------------------------------------------------
Next ==
  \/ Tick \/ Load \/ Unload \/ BeginSegment \/ Play \/ Pause \/ Feed
  \/ RenderReads \/ RenderDraws

(* The UI draws when smp_host_frame_due says so, whatever else makes it draw. *)
RenderDue == fresh /\ RenderReads

Fairness == WF_vars(Tick) /\ WF_vars(RenderDue) /\ WF_vars(RenderDraws)

FairSpec == Init /\ [][Next]_vars /\ Fairness

----------------------------------------------------------------------------
TypeOK ==
  /\ {decoder, playing, fresh} \subseteq BOOLEAN
  /\ base \in 0..End /\ Playtime \in 0..End
  /\ fed \in 0..(End + 1) /\ inside \in 0..fed
  /\ queue \in BoundedSeq(0..End, Queue)
  /\ {texture, render} \subseteq -1..End

(* However feeding, pausing and drawing fall, what is queued while playing    *)
(* goes up or is passed over until nothing is left, though the loop draws     *)
(* only while `fresh` ("Keep the loop turning while a frame is still to       *)
(* come").                                                                    *)
FramesAreDrawn == []<>(queue = <<>> \/ ~playing)
=============================================================================
