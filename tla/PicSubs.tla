------------------------------- MODULE PicSubs -------------------------------
(* src/src/jf/picsubs.c: the list of bitmap subtitles.  The reader feeds the  *)
(* pictures of every bitmap track as it reads ahead, the UI draws the one of  *)
(* the selected track, the session opens and closes the list.  Each operation *)
(* holds the lock throughout, so each is one action; a seek makes the reader  *)
(* feed and the UI ask from any time again.                                   *)
EXTENDS Integers, Sequences, FiniteSets, SequencesExt, FiniteSetsExt

CONSTANTS
  Streams,
  End,           \* times are 0..End
  Lengths,       \* the durations fed
  Forever,       \* INT64_MAX: the end of a picture that lasts until the next
  LongOver,      \* 30 s: how long past its end nobody wants a picture
  MaxPictures    \* MAX_PICTURES

None == 0        \* a NULL rgba; any other number is a buffer

VARIABLES
  open, selected,   \* selected is 0 for -1
  pictures,         \* ordered by start
  shown, valid,     \* shown_rgba, shown_valid
  heap              \* the buffers allocated and not yet freed

vars == <<open, selected, pictures, shown, valid, heap>>

Init ==
  /\ open = FALSE /\ selected = 0 /\ pictures = <<>>
  /\ shown = None /\ valid = FALSE
  /\ heap = {}

Buffers(list) == {list[i].rgba : i \in DOMAIN list} \ {None}
\* free() of buffers of the list and of the one drawn; one freed by both shows
\* as never freed.
Freed(listed, drawn) == (heap \ (listed \cup drawn)) \cup (listed \cap drawn)

\* jf_picsubs_close, which jf_picsubs_open begins with
CloseBut ==   \* mutant: the picture on the screen is left to its next user
  /\ pictures' = <<>> /\ shown' = None /\ valid' = FALSE /\ selected' = 0
  /\ heap' = Freed(Buffers(pictures) \ {shown}, {})
Close ==
  /\ pictures' = <<>> /\ shown' = None /\ valid' = FALSE /\ selected' = 0
  /\ heap' = Freed(Buffers(pictures) \ {shown}, {shown})

Opens == Close /\ open' = TRUE
Closes == open /\ Close /\ open' = FALSE

Select ==
  /\ selected' \in (Streams \cup {0}) \ {selected}
  /\ UNCHANGED <<open, pictures, shown, valid, heap>>

\* What is kept of a list closes up, in its order.
Place(keep, k) == CHOOSE i \in keep : Cardinality({j \in keep : j <= i}) = k
Kept(list, keep) == [k \in 1..Cardinality(keep) |-> list[Place(keep, k)]]

\* What the trim of a feed lets go; the drawn one stays.  A picture without
\* pixels is equal to nothing drawn.
TooOld(p, start) == p.end < start - LongOver /\ p.rgba # shown

\* The new picture goes behind those that start with it or before; it ends
\* the track's one before it, and the track's one after it ends it, whatever
\* they said.
Before(list, start) == Cardinality({i \in DOMAIN list : list[i].start <= start})
Sooner(a, b) == IF a < b THEN a ELSE b
InsertedUncut(list, p) == InsertAt(list, Before(list, p.start) + 1, p)   \* mutant
Inserted(list, p) ==
  LET at == Before(list, p.start)
      ofTrack == {i \in DOMAIN list : list[i].stream = p.stream}
      before == {i \in ofTrack : i <= at}
      after == ofTrack \ before
      cut == [i \in DOMAIN list |->
               IF before # {} /\ i = Max(before)
               THEN [list[i] EXCEPT !.end = Sooner(@, p.start)] ELSE list[i]]
  IN  InsertAt(cut, at + 1,
               IF after = {} THEN p
               ELSE [p EXCEPT !.end = Sooner(@, list[Min(after)].start)])

\* jf_picsubs_feed: one picture, of which the buffer is refused and freed when
\* the list has it already or is full.
FeedAt(start) ==
  LET kept == Kept(pictures, {i \in DOMAIN pictures : ~TooOld(pictures[i], start)})
      gone == Buffers(pictures) \ Buffers(kept)
      room == Len(kept) < MaxPictures
  IN  \E stream \in Streams, length \in Lengths, empty \in BOOLEAN :
        LET rgba == IF empty THEN None ELSE Min((1..(MaxPictures + 2)) \ heap)
            end == IF length < 0 THEN Forever ELSE start + length
            again == \E i \in DOMAIN kept : kept[i].start = start /\ kept[i].stream = stream
        IN  /\ open
            /\ pictures' = IF again \/ ~room THEN kept
                           ELSE Inserted(kept, [start |-> start, end |-> end,
                                                stream |-> stream, rgba |-> rgba])
            /\ heap' = Freed(gone, {}) \cup (IF again \/ ~room THEN {} ELSE {rgba} \ {None})
            /\ UNCHANGED <<open, selected, shown, valid>>

Feed == \E start \in 0..End : FeedAt(start)

\* jf_picsubs_frame at a time of the UI's, which looked at jf_picsubs_ready
\* under a hold of the lock of its own: the list may be closed since.
Due(p, now) == p.stream = selected /\ p.start <= now /\ now < p.end
StaysLonger(p, now) == p.end > now   \* mutant: the one drawn goes with the others
Stays(p, now) == p.end > now \/ (p.rgba # None /\ p.rgba = shown)
Frame ==
  \E now \in 0..End :
    LET kept == Kept(pictures, {i \in DOMAIN pictures : Stays(pictures[i], now)})
        due == {i \in DOMAIN kept : Due(kept[i], now)}
        rgba == IF due = {} THEN None ELSE kept[Max(due)].rgba
        changed == ~valid \/ rgba # shown
        gone == Buffers(pictures) \ Buffers(kept)
    IN  /\ pictures' = kept
        /\ shown' = IF changed THEN rgba ELSE shown
        /\ valid' = TRUE
        /\ heap' = Freed(gone, IF changed THEN {shown} \ Buffers(kept) ELSE {})
        /\ UNCHANGED <<open, selected>>

Next == Opens \/ Closes \/ Select \/ Feed \/ Frame

Spec == Init /\ [][Next]_vars

----------------------------------------------------------------------------
Picture == [start : 0..End, end : 0..End \cup {s + l : s \in 0..End, l \in Lengths} \cup {Forever},
            stream : Streams, rgba : 0..(MaxPictures + 2)]

TypeOK ==
  /\ open \in BOOLEAN /\ selected \in Streams \cup {0} /\ valid \in BOOLEAN
  /\ Len(pictures) <= MaxPictures /\ \A i \in DOMAIN pictures : pictures[i] \in Picture
  /\ {shown} \cup heap \subseteq 0..(MaxPictures + 2)

(* Whatever is fed, drawn, trimmed or closed, every buffer is in one place of *)
(* the list or is the one drawn, and none of those is freed (drop_all,        *)
(* jf_picsubs_frame: "Out of the list but still what the caller is drawing    *)
(* from").                                                                    *)
BuffersAreKept ==
  /\ heap = (Buffers(pictures) \cup {shown}) \ {None}
  /\ \A i, j \in DOMAIN pictures :
       i # j /\ pictures[i].rgba # None => pictures[i].rgba # pictures[j].rgba

(* In whatever order seeks make the reader feed them, one picture of a track  *)
(* is due at a time, and the list is in order of start.                       *)
OneIsDue ==
  \A i, j \in DOMAIN pictures : i < j =>
    /\ pictures[i].start <= pictures[j].start
    /\ pictures[i].stream = pictures[j].stream => pictures[i].end <= pictures[j].start

(* "Long over by the demuxer's clock: nothing draws them while subtitles are  *)
(* off, so nothing else would let them go" (picsubs.c:108): what a feed       *)
(* leaves in the list is not long over, but for the one drawn.                *)
LongOverLetGo ==
  [][\A start \in 0..End : FeedAt(start) =>
       \A i \in DOMAIN pictures' :
         \/ pictures'[i].end >= start - LongOver
         \/ shown # None /\ pictures'[i].rgba = shown]_vars
=============================================================================
