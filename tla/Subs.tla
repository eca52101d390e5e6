-------------------------------- MODULE Subs --------------------------------
(***************************************************************************)
(* jf/subs.c: subtitles rendered ahead of playback.  Workers claim slots   *)
(* for frames of the video's grid, feed their own libass track from one    *)
(* list of lines, and draw; the UI takes the newest finished frame that is *)
(* not in the future and uploads it after the lock is gone; the demuxer    *)
(* feeds lines; opening, closing and releasing a track, which join the     *)
(* workers, are serialised by `control`.                                   *)
(*   `lock` makes each action below atomic.  A slot's generation and a     *)
(* worker's epoch are only ever compared with the current one, so a slot   *)
(* is `fresh` and a worker `current` while they are the same.  Times are   *)
(* in frames (frame_ms = 1).                                               *)
(***************************************************************************)
EXTENDS Integers, FiniteSets

CONSTANTS Workers,      \* one per core but one
          Lines,        \* the track's lines: [start, end] records
          Targets,      \* the frames the UI asks for
          TrimEvery, BacklogSpan,  \* 64 entries, BACKLOG_MS
          MaxSerial,    \* bound: selections
          MaxOps,       \* bound: opens, closes and releases
          MaxLifts      \* bound: times the controls come up or go

ASSUME WorkersAssumption == IsFiniteSet(Workers) /\ Workers # {}
ASSUME LinesAssumption ==
  /\ IsFiniteSet(Lines)
  /\ \A l \in Lines: l.start \in Nat /\ l.end \in Nat /\ l.start < l.end
ASSUME NumbersAssumption ==
  /\ Targets \subseteq Nat
  /\ {TrimEvery, BacklogSpan, MaxSerial, MaxOps, MaxLifts} \subseteq Nat

VARIABLES
  slots,                  \* a finished or unfinished frame each
  worker,                 \* the workers, and their tracks
  running, fresh,         \* running; the slots of the current generation
  playhead, next,         \* playhead, next_frame
  lines, retired,         \* the list, and those replaced under the workers
  nextId, complete, taking,  \* next_id, complete, open_stream # -1
  backlog,                \* the stream's recent lines
  serial, control,        \* the selection held; who has `control`, and where
  shown, dirty,           \* shown, dirty
  above,                  \* keep_above is not INT_MAX
  uploading,              \* the slot whose canvas the UI uploads from
  screen,                 \* what the UI uploaded last
  ops, lifts              \* bounds: operations and lifts so far

ringVars == <<slots, fresh, playhead, next>>
listVars == <<lines, retired, nextId, complete, taking, backlog>>
controlVars == <<running, serial, control, ops>>
uiVars == <<shown, dirty, above, lifts, uploading, screen>>
vars == <<worker, ringVars, listVars, controlVars, uiVars>>

None == -1
SlotCount == Cardinality(Workers) + 2
Slots == 0..(SlotCount - 1)

Entry == [line: Lines, id: Nat]
Blank == [lines |-> {}, above |-> FALSE]
(* Not a picture: what `screen` is while shown_valid is false.             *)
Nothing == [lines |-> {}, above |-> TRUE]
(* What a free slot still holds is never looked at.                        *)
FreeSlot == [state |-> "FREE", frame |-> 0, picture |-> Blank]
NoWorker == [at |-> "none", slot |-> 0, above |-> FALSE, track |-> {}, batch |-> {},
             restart |-> FALSE, current |-> FALSE, fedUntil |-> None, seen |-> 0]
Started == [NoWorker EXCEPT !.at = "looking"]
Idle == [op |-> "none", id |-> 0, at |-> "free"]

Init ==
  /\ slots = [s \in Slots |-> FreeSlot]
  /\ worker = [w \in Workers |-> NoWorker]
  /\ running = FALSE /\ fresh = {} /\ playhead = None /\ next = None
  /\ lines = {} /\ retired = {} /\ nextId = 0 /\ complete = FALSE /\ taking = FALSE
  /\ backlog = {} /\ serial = 0 /\ control = Idle
  /\ shown = None /\ dirty = FALSE /\ above = FALSE
  /\ uploading = None /\ screen = Nothing /\ ops = 0 /\ lifts = 0

Up == \E w \in Workers: worker[w].at # "none"    \* worker_count > 0
Active(list, frame) ==
  {e \in list: e.line.start <= frame /\ frame < e.line.end}
LinesOf(list) == {e.line: e \in list}

(* pthread_cond_broadcast(&work).                                          *)
Awake(ws) ==
  [w \in Workers |->
     IF ws[w].at = "asleep" THEN [ws[w] EXCEPT !.at = "looking"] ELSE ws[w]]

-----------------------------------------------------------------------------
(* render_loop.                                                            *)

(* Mutants: the picture on screen is up for grabs; a slot being drawn is.  *)
ClaimableShown(ss) ==
  {s \in Slots: /\ ss[s].state # "BUSY"
                /\ ss[s].state = "FREE" \/ s \notin fresh \/ ss[s].frame < playhead}
ClaimableBusy(ss) ==
  {s \in Slots \ {shown}: ss[s].state = "FREE" \/ s \notin fresh \/ ss[s].frame < playhead}

(* claim: a slot nothing needs, or None.                                   *)
Claimable(ss) ==
  {s \in Slots: /\ s # shown /\ ss[s].state # "BUSY"
                /\ ss[s].state = "FREE" \/ s \notin fresh \/ ss[s].frame < playhead}
NextFrame == IF next < playhead THEN playhead ELSE next
HasWork(ss) ==
  playhead >= 0 /\ NextFrame < playhead + SlotCount - 1 /\ Claimable(ss) # {}

(* One turn of the loop with the lock held, from the slots `ss` and the    *)
(* worker `me`: leave, wait, or claim the first slot for the next frame.   *)
Turn(w, ss, me) ==
  \/ /\ ~running
     /\ slots' = ss /\ worker' = [worker EXCEPT ![w] = [me EXCEPT !.at = "ended"]]
     /\ UNCHANGED <<fresh, next>>
  \/ /\ running /\ ~HasWork(ss)
     /\ slots' = ss /\ worker' = [worker EXCEPT ![w] = [me EXCEPT !.at = "asleep"]]
     /\ next' = NextFrame /\ UNCHANGED fresh
  \/ /\ running /\ HasWork(ss)
     /\ \E s \in Claimable(ss):
          /\ \A t \in Claimable(ss): s <= t
          /\ slots' = [ss EXCEPT ![s] = [@ EXCEPT !.state = "BUSY", !.frame = NextFrame]]
          /\ fresh' = fresh \cup {s}
          /\ worker' = [worker EXCEPT ![w] =
                          [me EXCEPT !.at = "feeding", !.slot = s, !.above = above]]
     /\ next' = NextFrame + 1

Look(w) ==
  /\ worker[w].at = "looking"
  /\ Turn(w, slots, worker[w])
  /\ UNCHANGED <<playhead, listVars, controlVars, uiVars>>

(* feed_window under the lock: the lines active at the frame that the      *)
(* track has not seen; a replaced list or a step back starts it over.      *)
FeedWindow(w) ==
  LET me == worker[w]
      frame == slots[me.slot].frame
      restart == ~me.current \/ frame < me.fedUntil
      until == IF restart THEN None ELSE me.fedUntil
      seen == IF restart THEN 0 ELSE me.seen
  IN  /\ me.at = "feeding"
      /\ worker' = [worker EXCEPT ![w] =
           [me EXCEPT !.at = "drawing", !.restart = restart, !.current = TRUE,
                      !.batch = {e \in Active(lines, frame):
                                   e.line.start > until \/ e.id >= seen},
                      !.fedUntil = frame, !.seen = nextId]]
      /\ UNCHANGED <<ringVars, listVars, controlVars, uiVars>>

(* Mutant: never flushed.                                                  *)
TrackUnflushed(me) ==
  {e \in me.track \cup me.batch: slots[me.slot].frame < e.line.end}

(* What libass then holds: flushed if starting over, fed, and pruned.      *)
Track(me) ==
  {e \in (IF me.restart THEN {} ELSE me.track) \cup me.batch:
     slots[me.slot].frame < e.line.end}

(* compose, outside the lock; then the slot is finished, or free again if  *)
(* a jump made it stale, and the loop turns without letting go of the lock.*)
Draw(w) ==
  LET me == worker[w]
      s == me.slot
      drawn == LinesOf(Track(me))
  IN  /\ me.at = "drawing"
      /\ Turn(w, [slots EXCEPT ![s] =
                    IF s \in fresh
                    THEN [@ EXCEPT !.state = "READY",
                                   !.picture = [lines |-> drawn,
                                                above |-> me.above /\ drawn # {}]]
                    ELSE FreeSlot],
              [me EXCEPT !.track = Track(me), !.batch = {}])
      /\ UNCHANGED <<playhead, listVars, controlVars, uiVars>>

-----------------------------------------------------------------------------
(* The operations under `control`, in the stretches between its locks.     *)

Superseded(id) == id < serial \/ (id = serial /\ Up)    \* superseded
Control(op, id, at) == [op |-> op, id |-> id, at |-> at]

(* The beginning of stop(): the workers are told.                          *)
Stopping(op, id) ==
  /\ control = Idle /\ ops < MaxOps
  /\ ops' = ops + 1
  /\ running' = FALSE /\ worker' = Awake(worker)
  /\ control' = Control(op, id, "joining")
  /\ UNCHANGED <<ringVars, listVars, uiVars>>

Open(id) == ~Superseded(id) /\ Stopping("open", id) /\ UNCHANGED serial
OpenFile(id) == id >= serial /\ ~(id = serial /\ Up) /\ Stopping("file", id)
                /\ UNCHANGED serial
CloseTrack(id) == id >= serial /\ Stopping("close", id) /\ serial' = id
Release == Stopping("release", 0) /\ UNCHANGED serial

(* jf_subs_open_file when the demuxer opened this selection already.       *)
OpenFileHeld(id) ==
  /\ control = Idle /\ ops < MaxOps
  /\ id = serial /\ Up
  /\ ops' = ops + 1
  /\ control' = Control("file", id, "installing")
  /\ UNCHANGED <<worker, ringVars, listVars, running, serial, uiVars>>

(* The end of stop(): the workers joined, their lines dropped.             *)
Joined ==
  /\ control.at = "joining"
  /\ \A w \in Workers: worker[w].at \in {"none", "ended"}
  /\ worker' = [w \in Workers |-> NoWorker]
  /\ lines' = {} /\ retired' = {} /\ complete' = FALSE /\ taking' = FALSE
  /\ slots' = [s \in Slots |-> FreeSlot]
  /\ shown' = None /\ dirty' = TRUE
  /\ control' = CASE control.op \in {"open", "file"} -> [control EXCEPT !.at = "starting"]
                  [] control.op = "close" -> Idle
                  [] control.op = "release" -> [control EXCEPT !.at = "dropping"]
  /\ UNCHANGED <<fresh, playhead, next, nextId, backlog, running, serial, ops,
                 above, lifts, uploading, screen>>

(* start(), with as many threads as could be created; with none it fails.  *)
Start ==
  /\ control.at = "starting"
  /\ \E created \in SUBSET Workers:
       /\ worker' = [w \in Workers |-> IF w \in created THEN Started ELSE NoWorker]
       /\ running' = (created # {})
       /\ control' = IF created # {} THEN [control EXCEPT !.at = "installing"] ELSE Idle
  /\ slots' = [s \in Slots |-> FreeSlot]
  /\ serial' = control.id
  /\ fresh' = {} /\ playhead' = None /\ next' = None
  /\ shown' = None /\ dirty' = TRUE
  /\ UNCHANGED <<listVars, ops, above, lifts, uploading, screen>>

(* No font library, no renderer, no track, no memory.                      *)
StartFails ==
  /\ control.at = "starting"
  /\ running' = FALSE
  /\ control' = Idle
  /\ UNCHANGED <<worker, ringVars, listVars, serial, ops, uiVars>>

(* Distinct ids for the lines `set`, from nextId on.                       *)
Numbered(set) ==
  LET Order == CHOOSE f \in [set -> 0..(Cardinality(set) - 1)]:
                 \A a, b \in set: a # b => f[a] # f[b]
  IN  {[line |-> l, id |-> nextId + Order[l]]: l \in set}

(* The rest of jf_subs_open: the backlog's lines that are not listed yet.  *)
InstallBacklog ==
  /\ control.at = "installing" /\ control.op = "open"
  /\ taking' = TRUE
  /\ lines' = lines \cup Numbered(backlog \ LinesOf(lines))
  /\ nextId' = nextId + Cardinality(backlog \ LinesOf(lines))
  /\ control' = Idle
  /\ UNCHANGED <<worker, ringVars, retired, complete, backlog, running, serial, ops,
                 uiVars>>

(* Mutant: the replaced list is freed at once.                             *)
InstallScriptFreeing ==
  /\ control.at = "installing" /\ control.op = "file"
  /\ lines' = Numbered(Lines) /\ nextId' = nextId + Cardinality(Lines)
  /\ complete' = TRUE /\ control' = Idle
  /\ worker' = [w \in Workers |-> [Awake(worker)[w] EXCEPT !.current = FALSE]]
  /\ UNCHANGED <<ringVars, taking, retired, backlog, running, serial, ops, uiVars>>

(* The rest of jf_subs_open_file: the whole script replaces the list,      *)
(* which the workers may still hold pointers into.                         *)
InstallScript ==
  /\ control.at = "installing" /\ control.op = "file"
  /\ retired' = retired \cup lines
  /\ lines' = Numbered(Lines) /\ nextId' = nextId + Cardinality(Lines)
  /\ complete' = TRUE
  /\ worker' = [w \in Workers |-> [Awake(worker)[w] EXCEPT !.current = FALSE]]
  /\ control' = Idle
  /\ UNCHANGED <<ringVars, taking, backlog, running, serial, ops, uiVars>>

(* The end of jf_subs_release.                                             *)
Drop ==
  /\ control.at = "dropping"
  /\ serial' = 0 /\ backlog' = {}
  /\ control' = Idle
  /\ UNCHANGED <<worker, ringVars, lines, retired, nextId, complete, taking, running,
                 ops, uiVars>>

-----------------------------------------------------------------------------
(* jf_subs_feed, from the reader: into the stream's backlog, trimmed now   *)
(* and then, and into the open track.                                      *)
Trimmed(known, l) ==
  IF l \notin backlog /\ Cardinality(known) % TrimEvery = 0
  THEN {k \in known: k.end >= l.start - BacklogSpan /\ k.start <= l.start + BacklogSpan}
  ELSE known

Feed(l) ==
  /\ backlog' = Trimmed(backlog \cup {l}, l)
  /\ LET new == IF taking /\ Up /\ ~complete THEN {l} \ LinesOf(lines) ELSE {}
     IN  lines' = lines \cup Numbered(new) /\ nextId' = nextId + Cardinality(new)
  /\ UNCHANGED <<worker, ringVars, retired, complete, taking, controlVars, uiVars>>

-----------------------------------------------------------------------------
(* The UI thread.                                                          *)

(* Mutants: a step back is no jump; a frame still to come may be shown.    *)
JumpedAhead(t) == t >= playhead + SlotCount
(* The slots once a jump has made them stale and a stale picture was let   *)
(* go, and the newest finished frame not in the future among them.         *)
Jumped(t) == t < playhead \/ t >= playhead + SlotCount
FreshAfter(t) == IF t # playhead /\ Jumped(t) THEN {} ELSE fresh
ShownAfter(t) == IF shown \in FreshAfter(t) THEN shown ELSE None
FinishedAhead(t) == {s \in FreshAfter(t): slots[s].state = "READY"}
Finished(t) == {s \in FreshAfter(t): slots[s].state = "READY" /\ slots[s].frame <= t}
Best(t) ==
  LET newer == {s \in Finished(t):
                  ShownAfter(t) # None => slots[s].frame > slots[ShownAfter(t)].frame}
  IN  IF newer = {} THEN ShownAfter(t)
      ELSE CHOOSE s \in newer: \A r \in newer: slots[r].frame <= slots[s].frame

(* jf_subs_frame.  `screen` says what was drawn last, as shown_hash does.  *)
Frame(t) ==
  /\ Up
  /\ LET best == Best(t)
         let == {shown} \ {None, best}
         changed == dirty \/ (best # shown /\ best # None /\ slots[best].picture # screen)
     IN  /\ slots' = [s \in Slots |->
                        IF s \in let THEN FreeSlot ELSE slots[s]]
         /\ shown' = best
         /\ uploading' = IF changed THEN best ELSE None
         /\ screen' = IF ~changed THEN screen
                      ELSE IF best = None THEN Nothing ELSE slots[best].picture
         /\ worker' = IF t # playhead \/ (best # ShownAfter(t)) THEN Awake(worker) ELSE worker
  /\ fresh' = FreshAfter(t)
  /\ next' = IF t # playhead /\ Jumped(t) THEN t ELSE next
  /\ playhead' = t /\ dirty' = FALSE
  /\ UNCHANGED <<listVars, controlVars, above, lifts>>

(* The same with no track open: an empty image, once.                      *)
FrameClosed ==
  /\ ~Up /\ (dirty \/ uploading # None)
  /\ dirty' = FALSE /\ uploading' = None
  /\ screen' = IF dirty THEN Nothing ELSE screen
  /\ UNCHANGED <<worker, ringVars, listVars, controlVars, shown, above, lifts>>

(* Mutant: what was rendered ahead stays.                                  *)
KeepAboveLate ==
  /\ lifts < MaxLifts /\ lifts' = lifts + 1
  /\ above' = ~above /\ next' = playhead /\ worker' = Awake(worker)
  /\ UNCHANGED <<slots, fresh, playhead, listVars, controlVars, shown, dirty, uploading,
                 screen>>

(* jf_subs_keep_above: everything rendered ahead is in the old place.      *)
KeepAbove ==
  /\ lifts < MaxLifts /\ lifts' = lifts + 1
  /\ above' = ~above
  /\ fresh' = {} /\ next' = playhead
  /\ worker' = Awake(worker)
  /\ UNCHANGED <<slots, playhead, listVars, controlVars, shown, dirty, uploading, screen>>

-----------------------------------------------------------------------------
WorkerStep(w) == Look(w) \/ FeedWindow(w) \/ Draw(w)
ControlStep == Joined \/ Start \/ StartFails \/ InstallBacklog \/ InstallScript \/ Drop

Next ==
  \/ \E w \in Workers: WorkerStep(w)
  \/ \E id \in 1..MaxSerial:
       Open(id) \/ OpenFile(id) \/ OpenFileHeld(id) \/ CloseTrack(id)
  \/ Release \/ ControlStep
  \/ \E l \in Lines: Feed(l)
  \/ \E t \in Targets: Frame(t)
  \/ FrameClosed \/ KeepAbove

Spec == Init /\ [][Next]_vars

(* Workers and whoever holds `control` run; the UI, drawing at its own     *)
(* pace, asks again for the frame it is at.                                *)
Fairness ==
  /\ \A w \in Workers: WF_vars(WorkerStep(w))
  /\ WF_vars(ControlStep) /\ WF_vars(Frame(playhead) /\ playhead \in Targets)
FairSpec == Spec /\ Fairness

-----------------------------------------------------------------------------
(* Every variable has its type.                                            *)
TypeOK ==
  /\ slots \in [Slots -> [state: {"FREE", "BUSY", "READY"}, frame: Nat,
                          picture: [lines: SUBSET Lines, above: BOOLEAN]]]
  /\ worker \in [Workers ->
       [at: {"none", "looking", "asleep", "feeding", "drawing", "ended"},
        slot: Slots, above: BOOLEAN, track: SUBSET Entry, batch: SUBSET Entry,
        restart: BOOLEAN, current: BOOLEAN, fedUntil: Nat \cup {None}, seen: Nat]]
  /\ running \in BOOLEAN /\ fresh \subseteq Slots
  /\ playhead \in Targets \cup {None} /\ next \in Nat \cup {None}
  /\ lines \subseteq Entry /\ retired \subseteq Entry /\ nextId \in Nat
  /\ complete \in BOOLEAN /\ taking \in BOOLEAN /\ backlog \subseteq Lines
  /\ serial \in 0..MaxSerial
  /\ control \in [op: {"none", "open", "file", "close", "release"}, id: 0..MaxSerial,
                  at: {"free", "joining", "starting", "installing", "dropping"}]
  /\ shown \in Slots \cup {None} /\ dirty \in BOOLEAN /\ above \in BOOLEAN
  /\ uploading \in Slots \cup {None}
  /\ screen \in [lines: SUBSET Lines, above: BOOLEAN]
  /\ ops \in Nat /\ lifts \in Nat

Rendering(w) == worker[w].at \in {"feeding", "drawing"}

(* The canvas the UI uploads from, with no lock, is drawn into by no       *)
(* worker: not while it is shown, not once a track change has taken it     *)
(* away (subs.c:106-107, 612-615, subs.h:27-28).  Nor do two workers draw  *)
(* into one slot, or two finished slots hold one frame (429-441, 458).     *)
CanvasSafe ==
  /\ uploading # None => \A w \in Workers: Rendering(w) => worker[w].slot # uploading
  /\ \A v, w \in Workers: v # w /\ Rendering(v) /\ Rendering(w)
       => worker[v].slot # worker[w].slot
  /\ \A r, s \in fresh: r # s /\ slots[r].state # "FREE" /\ slots[s].state # "FREE"
       => slots[r].frame # slots[s].frame

(* A worker's batch points into lists nobody has freed: a replaced list is *)
(* retired, and only a stop that joined the workers frees (subs.c:69-70,   *)
(* 144-145, 884-886).                                                      *)
BatchIsAlive == \A w \in Workers: worker[w].batch \subseteq lines \cup retired

(* What a worker draws is every line active at its frame that was listed   *)
(* when it looked, once, and nothing else: not from a replaced list, not   *)
(* missing one that arrived late or was skipped over (subs.c:244-247).     *)
TrackIsExact ==
  [][\A w \in Workers: FeedWindow(w) =>
       Track(worker[w])' = Active(lines, slots[worker[w].slot].frame)]_vars

(* What is shown is never ahead of the playhead, and the UI has uploaded   *)
(* it: an image that was skipped for its hash is the one on screen         *)
(* (subs.c:61-63, 1012-1018).                                              *)
ScreenIsShown ==
  shown # None =>
    /\ slots[shown].state = "READY" /\ slots[shown].frame <= playhead
    /\ screen = slots[shown].picture

(* A picture at rest -- nothing to render, and the UI has looked -- has    *)
(* dialogue where keep_above wants it (subs.c:1029-1039).                  *)
AtRest ==
  /\ running /\ control = Idle /\ \A w \in Workers: worker[w].at \in {"none", "asleep"}
  /\ shown # None /\ Best(playhead) = shown
PictureIsInPlace ==
  AtRest => slots[shown].picture.above = (above /\ slots[shown].picture.lines # {})

(* Wherever playback stays, its frame is rendered and shown.               *)
FrameIsShown ==
  \A t \in Targets:
    (running /\ playhead = t) ~>
      (~running \/ playhead # t \/ (shown # None /\ slots[shown].frame = t))
=============================================================================
