----------------------------- MODULE SubsProofs -----------------------------
(***************************************************************************)
(* That nobody draws into the canvas the UI uploads from, nor two workers  *)
(* into one slot, for any number of workers, any track and any sequence of *)
(* openings, closings and jumps.  The UI holds no lock while it uploads.   *)
(* What keeps the workers away is `shown`, which no claim takes, and, once *)
(* a change of track has reset `shown`, that the workers of the new track  *)
(* have no playhead to render for until the UI asks again, its upload over *)
(* (UploadInv).                                                            *)
(***************************************************************************)
EXTENDS Subs, TLAPS, FiniteSetTheorems, FunctionTheorems, WellFoundedInduction

Renders(m) == m.at \in {"feeding", "drawing"}

SlotShape(r) ==
  /\ r = [state |-> r.state, frame |-> r.frame, picture |-> r.picture]
  /\ r.frame \in Int
WorkerShape(m) ==
  m = [at |-> m.at, slot |-> m.slot, above |-> m.above, track |-> m.track, batch |-> m.batch,
       restart |-> m.restart, current |-> m.current, fedUntil |-> m.fedUntil, seen |-> m.seen]

Ring(ss) == ss = [s \in Slots |-> ss[s]] /\ \A s \in Slots : SlotShape(ss[s])
Crew(ws) ==
  /\ ws = [w \in Workers |-> ws[w]]
  /\ \A w \in Workers : WorkerShape(ws[w]) /\ ws[w].slot \in Slots

ShapeInv ==
  /\ Ring(slots) /\ Crew(worker)
  /\ fresh \subseteq Slots /\ shown \in Slots \cup {None}
  /\ playhead \in Int /\ next \in Int

(* A slot drawn into is BUSY, and drawn into by one worker.                *)
BusyInv ==
  \A w \in Workers : Renders(worker[w]) => slots[worker[w].slot].state = "BUSY"
ApartInv ==
  \A v, w \in Workers : v # w /\ Renders(worker[v]) /\ Renders(worker[w])
    => worker[v].slot # worker[w].slot

ShownIsDone(ss) == shown # None => ss[shown].state # "BUSY"

(* The frames of this generation are apart, and all before the next.       *)
FramesApart(ss) ==
  /\ \A s \in fresh : ss[s].state # "FREE" => ss[s].frame < next
  /\ \A r, s \in fresh : r # s /\ ss[r].state # "FREE" /\ ss[s].state # "FREE"
       => ss[r].frame # ss[s].frame

(* Nothing is drawn, nor will be before the UI's next frame.               *)
Quiet ==
  /\ \A w \in Workers : ~Renders(worker[w])
  /\ playhead = None \/ \A w \in Workers : worker[w].at = "none"
UploadInv == uploading \in {None, shown} \/ Quiet

IInv ==
  /\ ShapeInv /\ BusyInv /\ ApartInv /\ UploadInv
  /\ ShownIsDone(slots) /\ FramesApart(slots)

LEMMA SafeByIInv == IInv => CanvasSafe
<1> SUFFICES ASSUME IInv
             PROVE  CanvasSafe
  OBVIOUS
<1>1. ASSUME NEW w \in Workers, uploading # None, Rendering(w)
      PROVE  worker[w].slot # uploading
  <2>1. uploading = shown /\ slots[worker[w].slot].state = "BUSY"
    BY <1>1 DEF IInv, UploadInv, Quiet, BusyInv, Rendering, Renders
  <2> QED
    BY <1>1, <2>1 DEF IInv, ShownIsDone
<1> QED
  BY <1>1 DEF IInv, ApartInv, FramesApart, CanvasSafe, Rendering, Renders

-----------------------------------------------------------------------------
(* The records, field by field.                                            *)

LEMMA FreeSlotShape == SlotShape(FreeSlot) /\ FreeSlot.state = "FREE"
BY DEF FreeSlot, SlotShape

LEMMA Moves ==
  ASSUME NEW m, WorkerShape(m), NEW at, NEW b, b = [m EXCEPT !.at = at]
  PROVE  WorkerShape(b) /\ b.at = at /\ b.slot = m.slot
BY DEF WorkerShape

LEMMA NewWorkers ==
  /\ WorkerShape(NoWorker) /\ NoWorker.at = "none" /\ NoWorker.slot = 0
  /\ WorkerShape(Started) /\ Started.at = "looking" /\ Started.slot = 0
<1>1. WorkerShape(NoWorker) /\ NoWorker.at = "none" /\ NoWorker.slot = 0
  BY DEF NoWorker, WorkerShape
<1> QED
  BY <1>1, Moves DEF Started

LEMMA SlotsAreNumbers ==
  /\ SlotCount \in Nat /\ SlotCount >= 2
  /\ 0 \in Slots /\ None \notin Slots /\ Slots \subseteq Nat
BY WorkersAssumption, FS_CardinalityType DEF SlotCount, Slots, None, WorkersAssumption

-----------------------------------------------------------------------------
(* Steps that leave the ring alone, and the workers too but for waking.    *)

LEMMA WakingKeeps ==
  ASSUME ShapeInv, NEW ws, ws = Awake(worker)
  PROVE  /\ Crew(ws)
         /\ \A w \in Workers : /\ ws[w].slot = worker[w].slot
                               /\ Renders(ws[w]) <=> Renders(worker[w])
                               /\ ws[w].at = "none" <=> worker[w].at = "none"
<1>1. ASSUME NEW w \in Workers
      PROVE  /\ WorkerShape(ws[w]) /\ ws[w].slot = worker[w].slot
             /\ Renders(ws[w]) <=> Renders(worker[w])
             /\ ws[w].at = "none" <=> worker[w].at = "none"
  <2>1. WorkerShape(worker[w])
    BY DEF ShapeInv, Crew
  <2>2. CASE worker[w].at = "asleep"
    <3>1. ws[w] = [worker[w] EXCEPT !.at = "looking"]
      BY <2>2 DEF Awake
    <3>2. WorkerShape(ws[w]) /\ ws[w].at = "looking" /\ ws[w].slot = worker[w].slot
      BY <2>1, <3>1, Moves
    <3> QED
      BY <2>2, <3>2 DEF Renders
  <2>3. CASE worker[w].at # "asleep"
    BY <2>1, <2>3 DEF Awake
  <2> QED
    BY <2>2, <2>3
<1>2. ws = [w \in Workers |-> ws[w]]
  BY DEF Awake
<1>3. \A w \in Workers : ws[w].slot \in Slots
  BY <1>1 DEF ShapeInv, Crew
<1>4. Crew(ws)
  BY <1>1, <1>2, <1>3, Zenon DEF Crew
<1> QED
  BY <1>1, <1>4

(* The same workers over the same ring, whatever the uploads.              *)
LEMMA SameWork ==
  ASSUME IInv,
         Crew(worker'), slots' = slots, fresh' = fresh, playhead' = playhead, next' = next,
         shown' = shown, uploading' \in {uploading, None},
         \A w \in Workers : /\ worker'[w].slot = worker[w].slot
                            /\ Renders(worker'[w]) <=> Renders(worker[w])
                            /\ worker'[w].at = "none" <=> worker[w].at = "none"
  PROVE  IInv'
<1>1. ShapeInv'
  BY DEF IInv, ShapeInv
<1>2. ASSUME NEW w \in Workers, Renders(worker'[w])
      PROVE  Renders(worker[w]) /\ slots'[worker'[w].slot].state = "BUSY"
  <2>1. Renders(worker[w]) /\ worker'[w].slot = worker[w].slot
    BY <1>2 DEF Renders
  <2> QED
    BY <2>1 DEF IInv, BusyInv
<1>3. BusyInv'
  BY <1>2 DEF BusyInv
<1>4. ASSUME NEW v \in Workers, NEW w \in Workers, v # w,
             Renders(worker'[v]), Renders(worker'[w])
      PROVE  worker'[v].slot # worker'[w].slot
  <2>1. Renders(worker[v]) /\ Renders(worker[w])
    BY <1>2, <1>4
  <2> QED
    BY <1>4, <2>1 DEF IInv, ApartInv
<1>5. ApartInv'
  BY <1>4 DEF ApartInv
<1>6. Quiet => Quiet'
  BY <1>2 DEF Quiet
<1>7. UploadInv'
  BY <1>6 DEF IInv, UploadInv
<1>8. ShownIsDone(slots)' /\ FramesApart(slots)'
  BY DEF IInv, ShownIsDone, FramesApart
<1> QED
  BY <1>1, <1>3, <1>5, <1>7, <1>8 DEF IInv

-----------------------------------------------------------------------------
(* One turn of the loop, from slots `ss` and a worker `me` in which w draws *)
(* nothing any more.                                                       *)

LEMMA TurnKeeps ==
  ASSUME IInv, NEW w \in Workers, NEW ss, NEW me,
         worker[w].at # "none", Ring(ss), WorkerShape(me), me.slot \in Slots,
         \A v \in Workers \ {w} : Renders(worker[v]) => ss[worker[v].slot].state = "BUSY",
         ShownIsDone(ss), FramesApart(ss),
         Turn(w, ss, me), UNCHANGED <<playhead, uiVars>>
  PROVE  IInv'
<1>0. /\ playhead' = playhead /\ shown' = shown /\ uploading' = uploading
      /\ playhead \in Int /\ next \in Int /\ fresh \subseteq Slots
      /\ shown \in Slots \cup {None} /\ Crew(worker)
  BY DEF uiVars, IInv, ShapeInv
<1>1. NextFrame \in Int /\ NextFrame >= next
  BY <1>0 DEF NextFrame
<1>2. ASSUME slots' = ss, NEW at \in {"ended", "asleep"},
             worker' = [worker EXCEPT ![w] = [me EXCEPT !.at = at]],
             fresh' = fresh, next' \in Int, next' >= next
      PROVE  IInv'
  <2>1. /\ WorkerShape(worker'[w]) /\ worker'[w].at = at /\ worker'[w].slot = me.slot
        /\ ~Renders(worker'[w])
    <3>1. worker'[w] = [me EXCEPT !.at = at]
      BY <1>0, <1>2 DEF Crew
    <3> QED
      BY <1>2, <3>1 DEF Renders, WorkerShape
  <2>2. \A v \in Workers \ {w} : worker'[v] = worker[v]
    BY <1>0, <1>2 DEF Crew
  <2>3. ShapeInv'
    <3>1. Crew(worker')
      BY <1>0, <1>2, <2>1, <2>2 DEF Crew
    <3> QED
      BY <1>0, <1>2, <3>1 DEF ShapeInv
  <2>4. BusyInv'
    BY <1>2, <2>1, <2>2 DEF BusyInv
  <2>5. ApartInv'
    BY <2>1, <2>2 DEF ApartInv, IInv
  <2>6. UploadInv'
    <3>1. Quiet => Quiet'
      BY <1>0, <2>1, <2>2 DEF Quiet
    <3> QED
      BY <1>0, <3>1 DEF IInv, UploadInv
  <2>7. ShownIsDone(slots)' /\ FramesApart(slots)'
    <3>1. ShownIsDone(slots)'
      BY <1>0, <1>2 DEF ShownIsDone
    <3>2. \A s \in fresh : ss[s].frame \in Int
      BY <1>0 DEF Ring, SlotShape
    <3> QED
      BY <1>0, <1>2, <3>1, <3>2 DEF FramesApart
  <2> QED
    BY <2>3, <2>4, <2>5, <2>6, <2>7 DEF IInv
<1>3. ASSUME HasWork(ss), NEW s \in Claimable(ss),
             slots' = [ss EXCEPT ![s] = [@ EXCEPT !.state = "BUSY", !.frame = NextFrame]],
             fresh' = fresh \cup {s},
             worker' = [worker EXCEPT ![w] =
                          [me EXCEPT !.at = "feeding", !.slot = s, !.above = above]],
             next' = NextFrame + 1
      PROVE  IInv'
  <2>1. s \in Slots /\ s # shown /\ ss[s].state # "BUSY"
    BY DEF Claimable
  <2>2. /\ SlotShape(slots'[s]) /\ slots'[s].state = "BUSY" /\ slots'[s].frame = NextFrame
        /\ \A r \in Slots \ {s} : slots'[r] = ss[r]
    <3>1. slots'[s] = [ss[s] EXCEPT !.state = "BUSY", !.frame = NextFrame]
      BY <1>3, <2>1 DEF Ring
    <3>2. SlotShape(ss[s])
      BY <2>1 DEF Ring
    <3>3. SlotShape(slots'[s]) /\ slots'[s].state = "BUSY" /\ slots'[s].frame = NextFrame
      BY <1>1, <3>1, <3>2 DEF SlotShape
    <3> QED
      BY <1>3, <3>3 DEF Ring
  <2>3. WorkerShape(worker'[w]) /\ worker'[w].slot = s /\ Renders(worker'[w])
    <3>1. worker'[w] = [me EXCEPT !.at = "feeding", !.slot = s, !.above = above]
      BY <1>0, <1>3 DEF Crew
    <3> QED
      BY <3>1 DEF Renders, WorkerShape
  <2>4. \A v \in Workers \ {w} : worker'[v] = worker[v]
    BY <1>0, <1>3 DEF Crew
  <2>5. ShapeInv'
    <3>1. Crew(worker')
      BY <1>0, <1>3, <2>1, <2>3, <2>4 DEF Crew
    <3>2. Ring(slots')
      BY <1>3, <2>2 DEF Ring
    <3>3. next' \in Int /\ fresh' \subseteq Slots
      BY <1>0, <1>1, <1>3, <2>1
    <3> QED
      BY <1>0, <3>1, <3>2, <3>3 DEF ShapeInv
  <2>6. ASSUME NEW v \in Workers \ {w}, Renders(worker'[v])
        PROVE  worker'[v].slot # s /\ slots'[worker'[v].slot].state = "BUSY"
    <3>1. worker'[v] = worker[v] /\ worker[v].slot \in Slots
      BY <1>0, <2>4 DEF Crew
    <3>2. ss[worker[v].slot].state = "BUSY"
      BY <2>6, <3>1
    <3> QED
      BY <2>1, <2>2, <3>1, <3>2
  <2>7. BusyInv'
    BY <2>2, <2>3, <2>6 DEF BusyInv
  <2>8. ASSUME NEW u \in Workers, NEW v \in Workers, u # v,
               Renders(worker'[u]), Renders(worker'[v])
        PROVE  worker'[u].slot # worker'[v].slot
    <3>1. CASE u = w
      BY <2>3, <2>6, <2>8, <3>1
    <3>2. CASE v = w
      BY <2>3, <2>6, <2>8, <3>2
    <3>3. CASE u # w /\ v # w
      BY <2>4, <2>8, <3>3 DEF IInv, ApartInv
    <3> QED
      BY <3>1, <3>2, <3>3
  <2>9. ApartInv'
    BY <2>8 DEF ApartInv
  <2>10. UploadInv'
    <3>1. playhead # None
      BY <1>0, <1>3 DEF HasWork, None
    <3> QED
      BY <1>0, <3>1 DEF IInv, UploadInv, Quiet
  <2>11. ShownIsDone(slots)'
    BY <1>0, <2>1, <2>2, SlotsAreNumbers DEF ShownIsDone
  <2>12. FramesApart(slots)'
    <3>1. \A r \in fresh : ss[r].frame \in Int
      BY <1>0 DEF Ring, SlotShape
    <3>2. ASSUME NEW r \in fresh', r # s, slots'[r].state # "FREE"
          PROVE  slots'[r].frame < NextFrame
      <4>1. r \in fresh /\ slots'[r] = ss[r]
        BY <1>0, <1>3, <2>2, <3>2
      <4>2. ss[r].frame < next
        BY <3>2, <4>1 DEF FramesApart
      <4> QED
        BY <1>0, <1>1, <3>1, <4>1, <4>2
    <3>3. \A r \in fresh' : slots'[r].state # "FREE" => slots'[r].frame < next'
      <4> SUFFICES ASSUME NEW r \in fresh', slots'[r].state # "FREE"
                   PROVE  slots'[r].frame < next'
        OBVIOUS
      <4>1. CASE r = s
        BY <1>1, <1>3, <2>2, <4>1
      <4>2. CASE r # s
        <5>1. r \in fresh /\ slots'[r] = ss[r]
          BY <1>0, <1>3, <2>2, <4>2
        <5> QED
          BY <1>1, <1>3, <3>1, <3>2, <4>2, <5>1
      <4> QED
        BY <4>1, <4>2
    <3>4. ASSUME NEW q \in fresh', NEW r \in fresh', q # r,
                 slots'[q].state # "FREE", slots'[r].state # "FREE"
          PROVE  slots'[q].frame # slots'[r].frame
      <4>1. CASE q = s
        <5>1. slots'[r].frame < NextFrame
          BY <3>2, <3>4, <4>1
        <5>2. slots'[r].frame \in Int
          BY <1>0, <1>3, <2>2, <3>1, <3>4, <4>1
        <5> QED
          BY <1>1, <2>2, <4>1, <5>1, <5>2
      <4>2. CASE r = s
        <5>1. slots'[q].frame < NextFrame
          BY <3>2, <3>4, <4>2
        <5>2. slots'[q].frame \in Int
          BY <1>0, <1>3, <2>2, <3>1, <3>4, <4>2
        <5> QED
          BY <1>1, <2>2, <4>2, <5>1, <5>2
      <4>3. CASE q # s /\ r # s
        BY <1>0, <1>3, <2>2, <3>4, <4>3 DEF FramesApart
      <4> QED
        BY <4>1, <4>2, <4>3
    <3> QED
      BY <3>3, <3>4 DEF FramesApart
  <2> QED
    BY <2>5, <2>7, <2>9, <2>10, <2>11, <2>12 DEF IInv
<1> QED
  <2>1. CASE ~running
    <3>1. /\ slots' = ss /\ fresh' = fresh /\ next' = next
          /\ worker' = [worker EXCEPT ![w] = [me EXCEPT !.at = "ended"]]
      BY <2>1 DEF Turn
    <3> QED
      BY <1>0, <1>2, <3>1
  <2>2. CASE running /\ ~HasWork(ss)
    BY <1>1, <1>2, <2>2 DEF Turn
  <2>3. CASE running /\ HasWork(ss)
    <3>1. PICK s \in Claimable(ss) :
            /\ slots' = [ss EXCEPT ![s] = [@ EXCEPT !.state = "BUSY", !.frame = NextFrame]]
            /\ fresh' = fresh \cup {s}
            /\ worker' = [worker EXCEPT ![w] =
                            [me EXCEPT !.at = "feeding", !.slot = s, !.above = above]]
      BY <2>3 DEF Turn
    <3>2. next' = NextFrame + 1
      BY <2>3 DEF Turn
    <3> QED
      BY <1>3, <2>3, <3>1, <3>2
  <2> QED
    BY <2>1, <2>2, <2>3

-----------------------------------------------------------------------------
(* The steps.                                                              *)

LEMMA LookKeeps ==
  ASSUME IInv, NEW w \in Workers, Look(w) PROVE IInv'
<1>1. /\ worker[w].at = "looking" /\ ~Renders(worker[w])
      /\ Turn(w, slots, worker[w]) /\ UNCHANGED <<playhead, uiVars>>
  BY DEF Look, Renders
<1>2. /\ Ring(slots) /\ WorkerShape(worker[w]) /\ worker[w].slot \in Slots
      /\ ShownIsDone(slots) /\ FramesApart(slots)
  BY DEF IInv, ShapeInv, Crew
<1>3. \A v \in Workers \ {w} : Renders(worker[v]) => slots[worker[v].slot].state = "BUSY"
  BY DEF IInv, BusyInv
<1> QED
  BY <1>1, <1>2, <1>3, TurnKeeps

LEMMA FeedWindowKeeps ==
  ASSUME IInv, NEW w \in Workers, FeedWindow(w) PROVE IInv'
<1>1. Crew(worker)
  BY DEF IInv, ShapeInv
<1>2. PICK r, b, f :
        worker' = [worker EXCEPT ![w] =
                     [worker[w] EXCEPT !.at = "drawing", !.restart = r, !.current = TRUE,
                                       !.batch = b, !.fedUntil = f, !.seen = nextId]]
  BY DEF FeedWindow
<1>3. /\ WorkerShape(worker'[w]) /\ worker'[w].at = "drawing"
      /\ worker'[w].slot = worker[w].slot
  <2>1. worker'[w] = [worker[w] EXCEPT !.at = "drawing", !.restart = r, !.current = TRUE,
                                       !.batch = b, !.fedUntil = f, !.seen = nextId]
    BY <1>1, <1>2 DEF Crew
  <2>2. WorkerShape(worker[w])
    BY <1>1 DEF Crew
  <2> QED
    BY <2>1, <2>2 DEF WorkerShape
<1>4. \A v \in Workers \ {w} : worker'[v] = worker[v]
  BY <1>1, <1>2 DEF Crew
<1>5. Crew(worker')
  BY <1>1, <1>2, <1>3, <1>4 DEF Crew
<1>6. worker[w].at = "feeding" /\ UNCHANGED <<ringVars, uiVars>>
  BY DEF FeedWindow
<1> QED
  BY <1>3, <1>4, <1>5, <1>6, SameWork DEF ringVars, uiVars, Renders

LEMMA DrawKeeps ==
  ASSUME IInv, NEW w \in Workers, Draw(w) PROVE IInv'
<1>1. /\ worker[w].at = "drawing" /\ Renders(worker[w]) /\ UNCHANGED <<playhead, uiVars>>
      /\ \E ss, me, p :
           /\ ss = [slots EXCEPT ![worker[w].slot] =
                      IF worker[w].slot \in fresh
                      THEN [@ EXCEPT !.state = "READY", !.picture = p] ELSE FreeSlot]
           /\ me = [worker[w] EXCEPT !.track = Track(worker[w]), !.batch = {}]
           /\ Turn(w, ss, me)
  BY DEF Draw, Renders
<1>2. PICK s, ss, me, p :
        /\ s = worker[w].slot
        /\ ss = [slots EXCEPT ![s] =
                   IF s \in fresh THEN [@ EXCEPT !.state = "READY", !.picture = p] ELSE FreeSlot]
        /\ me = [worker[w] EXCEPT !.track = Track(worker[w]), !.batch = {}]
        /\ Turn(w, ss, me)
  BY <1>1
<1>3. /\ Ring(slots) /\ Crew(worker) /\ s \in Slots /\ slots[s].state = "BUSY"
      /\ fresh \subseteq Slots /\ shown \in Slots \cup {None}
  BY <1>1, <1>2 DEF IInv, ShapeInv, Crew, BusyInv
<1>4. WorkerShape(me) /\ me.slot \in Slots
  <2>1. WorkerShape(worker[w])
    BY <1>3 DEF Crew
  <2> QED
    BY <1>2, <1>3, <2>1 DEF WorkerShape
<1>5. \A r \in Slots \ {s} : ss[r] = slots[r]
  BY <1>2, <1>3 DEF Ring
<1>6. /\ SlotShape(ss[s])
      /\ s \in fresh => ss[s].state = "READY" /\ ss[s].frame = slots[s].frame
  <2>1. CASE s \in fresh
    <3>1. ss[s] = [slots[s] EXCEPT !.state = "READY", !.picture = p]
      BY <1>2, <1>3, <2>1 DEF Ring
    <3>2. SlotShape(slots[s])
      BY <1>3 DEF Ring
    <3> QED
      BY <3>1, <3>2 DEF SlotShape
  <2>2. CASE s \notin fresh
    BY <1>2, <1>3, <2>2, FreeSlotShape DEF Ring
  <2> QED
    BY <2>1, <2>2
<1>7. Ring(ss)
  <2>1. ss = [r \in Slots |-> ss[r]]
    BY <1>2, <1>3 DEF Ring
  <2> QED
    BY <1>3, <1>5, <1>6, <2>1 DEF Ring
<1>8. \A v \in Workers \ {w} : Renders(worker[v]) => ss[worker[v].slot].state = "BUSY"
  <2> SUFFICES ASSUME NEW v \in Workers \ {w}, Renders(worker[v])
               PROVE  ss[worker[v].slot].state = "BUSY"
    OBVIOUS
  <2>1. worker[v].slot \in Slots \ {s} /\ slots[worker[v].slot].state = "BUSY"
    BY <1>1, <1>2, <1>3 DEF IInv, Crew, BusyInv, ApartInv
  <2> QED
    BY <1>5, <2>1
<1>9. ShownIsDone(ss)
  <2>1. shown # s /\ ShownIsDone(slots)
    BY <1>3, SlotsAreNumbers DEF IInv, ShownIsDone
  <2> QED
    BY <1>3, <1>5, <2>1 DEF ShownIsDone
<1>10. FramesApart(ss)
  <2>1. \A r \in fresh : ss[r].state # "FREE" =>
          slots[r].state # "FREE" /\ ss[r].frame = slots[r].frame
    BY <1>3, <1>5, <1>6
  <2> QED
    BY <2>1 DEF IInv, FramesApart
<1> QED
  BY <1>1, <1>2, <1>4, <1>7, <1>8, <1>9, <1>10, TurnKeeps

(* Every slot free, nobody drawing, nothing shown.                         *)
LEMMA ClearedRing ==
  ASSUME slots' = [s \in Slots |-> FreeSlot]
  PROVE  /\ Ring(slots')
         /\ \A s \in Slots : slots'[s].state = "FREE"
BY FreeSlotShape DEF Ring

LEMMA JoinedKeeps == ASSUME IInv, Joined PROVE IInv'
<1>1. /\ slots' = [s \in Slots |-> FreeSlot] /\ worker' = [w \in Workers |-> NoWorker]
      /\ shown' = None /\ UNCHANGED <<fresh, playhead, next, uploading>>
  BY DEF Joined
<1>2. \A w \in Workers : worker'[w].at = "none" /\ ~Renders(worker'[w])
  BY <1>1, NewWorkers DEF Renders
<1>3. Crew(worker')
  BY <1>1, NewWorkers, SlotsAreNumbers DEF Crew
<1>4. ShapeInv'
  BY <1>1, <1>3, ClearedRing DEF IInv, ShapeInv
<1>5. BusyInv' /\ ApartInv' /\ UploadInv'
  BY <1>2 DEF BusyInv, ApartInv, UploadInv, Quiet
<1>6. ShownIsDone(slots)' /\ FramesApart(slots)'
  BY <1>1, <1>4, ClearedRing DEF ShownIsDone, FramesApart, ShapeInv
<1> QED
  BY <1>4, <1>5, <1>6 DEF IInv

LEMMA StartKeeps == ASSUME IInv, Start PROVE IInv'
<1>1. /\ slots' = [s \in Slots |-> FreeSlot] /\ shown' = None
      /\ fresh' = {} /\ playhead' = None /\ next' = None
  BY DEF Start
<1>2. PICK created \in SUBSET Workers :
        worker' = [w \in Workers |-> IF w \in created THEN Started ELSE NoWorker]
  BY DEF Start
<1>3. Crew(worker') /\ \A w \in Workers : ~Renders(worker'[w])
  BY <1>2, NewWorkers, SlotsAreNumbers DEF Crew, Renders
<1>4. ShapeInv'
  BY <1>1, <1>3, ClearedRing DEF ShapeInv, None
<1>5. BusyInv' /\ ApartInv' /\ UploadInv'
  BY <1>1, <1>3 DEF BusyInv, ApartInv, UploadInv, Quiet
<1>6. ShownIsDone(slots)' /\ FramesApart(slots)'
  BY <1>1 DEF ShownIsDone, FramesApart
<1> QED
  BY <1>4, <1>5, <1>6 DEF IInv

LEMMA ScriptKeeps == ASSUME IInv, InstallScript PROVE IInv'
<1>1. PICK ws : ws = Awake(worker)
  OBVIOUS
<1>2. /\ worker' = [w \in Workers |-> [ws[w] EXCEPT !.current = FALSE]]
      /\ UNCHANGED <<ringVars, uiVars>>
  BY <1>1 DEF InstallScript
<1>3. /\ Crew(ws)
      /\ \A w \in Workers : /\ ws[w].slot = worker[w].slot
                            /\ Renders(ws[w]) <=> Renders(worker[w])
                            /\ ws[w].at = "none" <=> worker[w].at = "none"
  BY <1>1, WakingKeeps DEF IInv
<1>4. ASSUME NEW w \in Workers
      PROVE  /\ WorkerShape(worker'[w])
             /\ worker'[w].at = ws[w].at /\ worker'[w].slot = ws[w].slot
  <2>1. worker'[w] = [ws[w] EXCEPT !.current = FALSE]
    BY <1>2
  <2>2. WorkerShape(ws[w])
    BY <1>3 DEF Crew
  <2> QED
    BY <2>1, <2>2 DEF WorkerShape
<1>5. Crew(worker')
  BY <1>2, <1>3, <1>4 DEF Crew
<1>6. \A w \in Workers : Renders(worker'[w]) <=> Renders(worker[w])
  BY <1>3, <1>4 DEF Renders
<1> QED
  BY <1>2, <1>3, <1>4, <1>5, <1>6, SameWork DEF ringVars, uiVars

(* The UI shows a finished slot, or what it showed.                        *)
LEMMA BestIsFinished ==
  ASSUME IInv, NEW t \in Int
  PROVE  /\ Best(t) \in Finished(t) \cup {ShownAfter(t)}
         /\ ShownAfter(t) \in {shown, None}
<1> DEFINE newer == {s \in Finished(t) :
                       ShownAfter(t) # None => slots[s].frame > slots[ShownAfter(t)].frame}
           Ages == {t - slots[s].frame : s \in newer}
<1>1. ShownAfter(t) \in {shown, None}
  BY DEF ShownAfter
<1>2. CASE newer = {}
  <2>1. Best(t) = ShownAfter(t)
    BY <1>2 DEF Best
  <2> QED
    BY <1>1, <2>1
<1>3. CASE newer # {}
  <2>1. \A s \in newer : slots[s].frame \in Int /\ slots[s].frame <= t
    BY DEF Finished, FreshAfter, IInv, ShapeInv, Ring, SlotShape
  <2>2. Ages \subseteq Nat /\ Ages # {}
    BY <1>3, <2>1
  <2>3. PICK a \in Ages : \A b \in Ages : <<b, a>> \notin OpToRel(<, Nat)
    BY <2>2, WFMin, NatLessThanWellFounded, Zenon
  <2>4. PICK s \in newer : a = t - slots[s].frame
    BY <2>3
  <2>5. \A r \in newer : slots[r].frame <= slots[s].frame
    <3> SUFFICES ASSUME NEW r \in newer, slots[r].frame > slots[s].frame
                 PROVE  FALSE
      BY <2>1
    <3>1. t - slots[r].frame \in Ages /\ t - slots[r].frame < a
      BY <2>1, <2>4
    <3>2. <<t - slots[r].frame, a>> \in OpToRel(<, Nat)
      BY <2>2, <2>3, <3>1 DEF OpToRel
    <3> QED
      BY <2>3, <3>1, <3>2
  <2>6. Best(t) \in newer
    <3> DEFINE Newest(x) == \A r \in newer : slots[r].frame <= slots[x].frame
    <3>1. \E x \in newer : Newest(x)
      BY <2>5
    <3>2. (CHOOSE x \in newer : Newest(x)) \in newer
      <4> HIDE DEF Newest, newer
      <4> QED
        BY <3>1
    <3> QED
      BY <1>3, <3>2 DEF Best
  <2> QED
    BY <1>1, <2>6
<1> QED
  BY <1>2, <1>3

LEMMA FrameKeeps == ASSUME IInv, NEW t \in Targets, Frame(t) PROVE IInv'
<1>1. PICK best, let :
        /\ best = Best(t) /\ let = {shown} \ {None, best}
        /\ slots' = [s \in Slots |-> IF s \in let THEN FreeSlot ELSE slots[s]]
        /\ shown' = best /\ uploading' \in {best, None}
        /\ worker' \in {Awake(worker), worker}
  BY DEF Frame
<1>2. t \in Nat /\ playhead' = t /\ fresh' = FreshAfter(t)
      /\ next' = IF t # playhead /\ Jumped(t) THEN t ELSE next
  BY NumbersAssumption DEF Frame, NumbersAssumption
<1>3. /\ Ring(slots) /\ Crew(worker) /\ fresh \subseteq Slots
      /\ shown \in Slots \cup {None} /\ playhead \in Int /\ next \in Int
  BY DEF IInv, ShapeInv
<1>4. /\ best \in Slots \cup {None}
      /\ best # None => slots[best].state # "BUSY"
  <2>1. best \in Finished(t) \cup {shown, None}
    <3>1. t \in Int
      BY <1>2
    <3> QED
      BY <1>1, <3>1, BestIsFinished
  <2> QED
    BY <1>3, <2>1 DEF Finished, FreshAfter, IInv, ShownIsDone
<1>5. /\ Crew(worker')
      /\ \A w \in Workers : /\ worker'[w].slot = worker[w].slot
                            /\ Renders(worker'[w]) <=> Renders(worker[w])
  <2>1. CASE worker' = worker
    BY <1>3, <2>1
  <2>2. CASE worker' = Awake(worker)
    BY <2>2, WakingKeeps DEF IInv
  <2> QED
    BY <1>1, <2>1, <2>2
<1>6. \A s \in Slots : s # shown \/ s = best => slots'[s] = slots[s]
  BY <1>1
<1>7. \A s \in Slots : slots'[s] \in {slots[s], FreeSlot}
  BY <1>1
<1>8. ShapeInv'
  <2>1. Ring(slots')
    <3>1. slots' = [s \in Slots |-> slots'[s]]
      BY <1>1
    <3> QED
      BY <1>3, <1>7, <3>1, FreeSlotShape DEF Ring
  <2>2. fresh' \subseteq Slots /\ next' \in Int /\ playhead' \in Int
    BY <1>2, <1>3 DEF FreshAfter
  <2> QED
    BY <1>1, <1>4, <1>5, <2>1, <2>2 DEF ShapeInv
<1>9. ASSUME NEW w \in Workers, Renders(worker'[w])
      PROVE  Renders(worker[w]) /\ slots'[worker'[w].slot].state = "BUSY"
  <2>1. Renders(worker[w]) /\ worker'[w].slot = worker[w].slot
    BY <1>5, <1>9
  <2>2. slots[worker[w].slot].state = "BUSY" /\ worker[w].slot \in Slots
    BY <1>3, <2>1 DEF IInv, BusyInv, Crew
  <2>3. worker[w].slot # shown
    BY <2>2, SlotsAreNumbers DEF IInv, ShownIsDone
  <2> QED
    BY <1>6, <2>1, <2>2, <2>3
<1>10. BusyInv'
  BY <1>9 DEF BusyInv
<1>11. ApartInv'
  <2> SUFFICES ASSUME NEW v \in Workers, NEW w \in Workers, v # w,
                      Renders(worker'[v]), Renders(worker'[w])
               PROVE  worker'[v].slot # worker'[w].slot
    BY DEF ApartInv
  <2> QED
    BY <1>5, <1>9 DEF IInv, ApartInv
<1>12. UploadInv'
  BY <1>1 DEF UploadInv
<1>13. ShownIsDone(slots)'
  BY <1>1, <1>4, <1>6 DEF ShownIsDone
<1>14. FramesApart(slots)'
  <2>1. CASE fresh' = {}
    BY <2>1 DEF FramesApart
  <2>2. CASE fresh' = fresh /\ next' = next
    <3>1. \A s \in fresh : slots'[s].state # "FREE" => slots'[s] = slots[s]
      BY <1>3, <1>7, FreeSlotShape
    <3> QED
      BY <2>2, <3>1 DEF IInv, FramesApart
  <2> QED
    BY <1>2, <2>1, <2>2 DEF FreshAfter
<1> QED
  BY <1>8, <1>10, <1>11, <1>12, <1>13, <1>14 DEF IInv

LEMMA KeepAboveKeeps == ASSUME IInv, KeepAbove PROVE IInv'
<1>1. /\ fresh' = {} /\ next' = playhead /\ worker' = Awake(worker)
      /\ UNCHANGED <<slots, playhead, shown, uploading>>
  BY DEF KeepAbove
<1>2. /\ Crew(worker')
      /\ \A w \in Workers : /\ worker'[w].slot = worker[w].slot
                            /\ Renders(worker'[w]) <=> Renders(worker[w])
                            /\ worker'[w].at = "none" <=> worker[w].at = "none"
  BY <1>1, WakingKeeps DEF IInv
<1>3. ShapeInv'
  BY <1>1, <1>2 DEF IInv, ShapeInv
<1>4. BusyInv'
  BY <1>1, <1>2 DEF IInv, BusyInv
<1>5. ApartInv'
  BY <1>2 DEF IInv, ApartInv
<1>6. UploadInv'
  BY <1>1, <1>2 DEF IInv, UploadInv, Quiet
<1>7. ShownIsDone(slots)' /\ FramesApart(slots)'
  BY <1>1 DEF IInv, ShownIsDone, FramesApart
<1> QED
  BY <1>3, <1>4, <1>5, <1>6, <1>7 DEF IInv

(* The steps that only tell the workers, or do not concern the ring.       *)
LEMMA OthersKeep ==
  ASSUME IInv, UNCHANGED <<ringVars, shown>>, uploading' \in {uploading, None},
         worker' \in {worker, Awake(worker)}
  PROVE  IInv'
<1>1. /\ Crew(worker')
      /\ \A w \in Workers : /\ worker'[w].slot = worker[w].slot
                            /\ Renders(worker'[w]) <=> Renders(worker[w])
                            /\ worker'[w].at = "none" <=> worker[w].at = "none"
  <2>1. CASE worker' = worker
    BY <2>1 DEF IInv, ShapeInv
  <2>2. CASE worker' = Awake(worker)
    BY <2>2, WakingKeeps DEF IInv
  <2> QED
    BY <2>1, <2>2
<1> QED
  BY <1>1, SameWork DEF ringVars

LEMMA InitHolds == Init => IInv
<1> SUFFICES ASSUME Init
             PROVE  IInv
  OBVIOUS
<1>1. /\ slots = [s \in Slots |-> FreeSlot] /\ worker = [w \in Workers |-> NoWorker]
      /\ fresh = {} /\ playhead = None /\ next = None /\ shown = None /\ uploading = None
  BY DEF Init
<1>2. Ring(slots) /\ Crew(worker)
  BY <1>1, FreeSlotShape, NewWorkers, SlotsAreNumbers DEF Ring, Crew
<1>3. ShapeInv
  BY <1>1, <1>2 DEF ShapeInv, None
<1>4. \A w \in Workers : ~Renders(worker[w])
  BY <1>1, NewWorkers DEF Renders
<1> QED
  BY <1>1, <1>3, <1>4
     DEF IInv, BusyInv, ApartInv, UploadInv, ShownIsDone, FramesApart

LEMMA Step == IInv /\ [Next]_vars => IInv'
<1> SUFFICES ASSUME IInv, [Next]_vars
             PROVE  IInv'
  OBVIOUS
<1>1. ASSUME NEW w \in Workers, WorkerStep(w) PROVE IInv'
  BY <1>1, LookKeeps, FeedWindowKeeps, DrawKeeps DEF WorkerStep
<1>2. ASSUME NEW op, NEW id, Stopping(op, id) PROVE IInv'
  BY <1>2, OthersKeep DEF Stopping, uiVars
<1>3. ASSUME NEW id \in 1..MaxSerial, Open(id) \/ OpenFile(id) \/ CloseTrack(id) PROVE IInv'
  BY <1>2, <1>3 DEF Open, OpenFile, CloseTrack
<1>4. ASSUME NEW id \in 1..MaxSerial, OpenFileHeld(id) PROVE IInv'
  BY <1>4, OthersKeep DEF OpenFileHeld, uiVars
<1>5. CASE Release
  BY <1>2, <1>5 DEF Release
<1>6. CASE ControlStep
  <2>1. CASE Joined \/ Start \/ InstallScript
    BY <2>1, JoinedKeeps, StartKeeps, ScriptKeeps
  <2>2. CASE StartFails \/ InstallBacklog \/ Drop
    BY <2>2, OthersKeep DEF StartFails, InstallBacklog, Drop, uiVars
  <2> QED
    BY <1>6, <2>1, <2>2 DEF ControlStep
<1>7. ASSUME NEW l \in Lines, Feed(l) PROVE IInv'
  BY <1>7, OthersKeep DEF Feed, uiVars
<1>8. ASSUME NEW t \in Targets, Frame(t) PROVE IInv'
  BY <1>8, FrameKeeps
<1>9. CASE FrameClosed
  BY <1>9, OthersKeep DEF FrameClosed
<1>10. CASE KeepAbove
  BY <1>10, KeepAboveKeeps
<1>11. CASE UNCHANGED vars
  BY <1>11, OthersKeep DEF vars, uiVars
<1> QED
  BY <1>1, <1>3, <1>4, <1>5, <1>6, <1>7, <1>8, <1>9, <1>10, <1>11 DEF Next

(* However the workers, the UI's uploads, jumps and changes of track fall:  *)
(* the canvas being uploaded is drawn into by nobody (subs.c:106-107,       *)
(* 612-615), a slot by one worker, and no frame is in two slots (429-458).  *)
THEOREM CanvasesAreSafe == Spec => []CanvasSafe
<1>1. Spec => []IInv
  BY InitHolds, Step, PTL DEF Spec
<1> QED
  BY <1>1, SafeByIInv, PTL

-----------------------------------------------------------------------------
(* The lines: which list they are in, and what a worker's track holds.     *)

(* The list's entries are numbered below nextId.                           *)
ListInv ==
  /\ nextId \in Nat /\ backlog \subseteq Lines
  /\ \A e \in lines : e.line \in Lines /\ e.id \in Nat /\ e.id < nextId

(* A worker's track, and what is on its way there.                         *)
Holds(m) == IF m.at = "drawing" THEN Track(m) ELSE m.track

(* A worker at the current list holds of it, up to the frame it last fed,  *)
(* every line still active there that was listed then, and nothing else.   *)
FedTo(m) ==
  /\ m.fedUntil \in Int /\ m.seen \in Int /\ m.seen <= nextId
  /\ \A e \in Holds(m) : e \in lines /\ e.line.start <= m.fedUntil
  /\ \A e \in lines :
       e.line.start <= m.fedUntil /\ m.fedUntil < e.line.end /\ e.id < m.seen
         => e \in Holds(m)
FedInv ==
  \A w \in Workers :
    /\ worker[w].current => FedTo(worker[w])
    /\ worker[w].at = "drawing" => slots[worker[w].slot].frame = worker[w].fedUntil

LinesInv == ListInv /\ FedInv /\ BatchIsAlive

(* Numbering gives the lines ids of their own, from nextId on.             *)
LEMMA NumberedIds ==
  ASSUME nextId \in Nat, NEW set \in SUBSET Lines
  PROVE  /\ Cardinality(set) \in Nat
         /\ \A e \in Numbered(set) : /\ e.line \in Lines /\ e.id \in Nat
                                     /\ e.id >= nextId /\ e.id < nextId + Cardinality(set)
<1>1. IsFiniteSet(set)
  BY LinesAssumption, FS_Subset DEF LinesAssumption
<1> DEFINE n == Cardinality(set)
<1>2. n \in Nat /\ ExistsBijection(1..n, set)
  BY <1>1, FS_CardinalityType
<1>3. PICK f \in Bijection(set, 1..n) : TRUE
  BY <1>2, Fun_ExistsBijSymmetric, Fun_ExistsBij
<1>4. f \in [set -> 1..n] /\ \A a, b \in set : f[a] = f[b] => a = b
  BY <1>3 DEF Bijection, Injection, IsInjective
<1> DEFINE g == [l \in set |-> f[l] - 1]
           Apart(h) == \A a, b \in set : a # b => h[a] # h[b]
<1>5. g \in [set -> 0..(n - 1)] /\ Apart(g)
  <2>1. \A l \in set : f[l] \in 1..n
    BY <1>4
  <2>2. \A l \in set : g[l] \in 0..(n - 1)
    BY <1>2, <2>1
  <2>3. Apart(g)
    BY <1>2, <1>4, <2>1
  <2> QED
    BY <2>2, <2>3
<1> DEFINE Order == CHOOSE h \in [set -> 0..(n - 1)] : Apart(h)
<1>6. Order \in [set -> 0..(n - 1)]
  <2> HIDE DEF Apart
  <2> QED
    BY <1>5
<1>7. Numbered(set) = {[line |-> l, id |-> nextId + Order[l]] : l \in set}
  BY DEF Numbered
<1>8. \A l \in set : Order[l] \in 0..(n - 1)
  <2> HIDE DEF Order
  <2> QED
    BY <1>6
<1> HIDE DEF Order, n
<1>9. ASSUME NEW e \in Numbered(set)
      PROVE  /\ e.line \in Lines /\ e.id \in Nat
             /\ e.id >= nextId /\ e.id < nextId + n
  <2>1. PICK l \in set : e = [line |-> l, id |-> nextId + Order[l]]
    BY <1>7
  <2>2. e.line = l /\ e.id = nextId + Order[l]
    BY <2>1
  <2> QED
    BY <1>2, <1>8, <2>2
<1> QED
  BY <1>2, <1>9 DEF n

LEMMA LinesAreRanges ==
  ASSUME ListInv, NEW e \in lines
  PROVE  e.line.start \in Nat /\ e.line.end \in Nat /\ e.id \in Nat /\ e.id < nextId
BY LinesAssumption DEF ListInv, LinesAssumption

(* The list only grows, by lines numbered from nextId on, and nobody feeds *)
(* or draws: what is held stays in step.                                   *)
LEMMA SameTracks ==
  ASSUME IInv, LinesInv, ListInv', nextId' >= nextId,
         lines \subseteq lines', lines \cup retired \subseteq lines' \cup retired',
         \A e \in lines' \ lines : e.id >= nextId,
         \A w \in Workers :
           /\ worker'[w].track = worker[w].track /\ worker'[w].batch = worker[w].batch
           /\ worker'[w].fedUntil = worker[w].fedUntil /\ worker'[w].seen = worker[w].seen
           /\ worker'[w].restart = worker[w].restart
           /\ worker'[w].current => worker[w].current
           /\ worker'[w].at = "drawing" <=> worker[w].at = "drawing"
           /\ worker[w].at = "drawing" =>
                /\ worker'[w].slot = worker[w].slot
                /\ slots'[worker[w].slot].frame = slots[worker[w].slot].frame
  PROVE  LinesInv'
<1>1. BatchIsAlive'
  BY DEF LinesInv, BatchIsAlive
<1>2. ASSUME NEW w \in Workers PROVE (Holds(worker[w]))' = Holds(worker[w])
  <2>1. CASE worker[w].at = "drawing"
    BY <2>1 DEF Holds, Track
  <2>2. CASE worker[w].at # "drawing"
    BY <2>2 DEF Holds
  <2> QED
    BY <2>1, <2>2
<1>3. ASSUME NEW w \in Workers, worker'[w].current PROVE (FedTo(worker[w]))'
  <2> DEFINE m == worker[w]
  <2>1. /\ m.fedUntil \in Int /\ m.seen \in Int /\ m.seen <= nextId
        /\ \A e \in Holds(m) : e \in lines /\ e.line.start <= m.fedUntil
        /\ \A e \in lines :
             e.line.start <= m.fedUntil /\ m.fedUntil < e.line.end /\ e.id < m.seen
               => e \in Holds(m)
    BY <1>3 DEF LinesInv, FedInv, FedTo
  <2>2. nextId \in Nat /\ nextId' \in Nat
    BY DEF LinesInv, ListInv
  <2>3. (Holds(m))' = Holds(m) /\ m'.fedUntil = m.fedUntil /\ m'.seen = m.seen
    BY <1>2
  <2>4. ASSUME NEW e \in lines', m.seen > e.id PROVE e \in lines
    <3>1. e.id \in Nat
      BY DEF ListInv
    <3> QED
      BY <2>1, <2>2, <2>4, <3>1
  <2>5. m'.seen <= nextId'
    BY <2>1, <2>2, <2>3
  <2>6. \A e \in (Holds(m))' : e \in lines' /\ e.line.start <= m'.fedUntil
    BY <2>1, <2>3
  <2>7. \A e \in lines' :
          e.line.start <= m'.fedUntil /\ m'.fedUntil < e.line.end /\ e.id < m'.seen
            => e \in (Holds(m))'
    BY <2>1, <2>3, <2>4
  <2> QED
    BY <2>1, <2>3, <2>5, <2>6, <2>7 DEF FedTo
<1>4. \A w \in Workers : worker'[w].at = "drawing" =>
        slots'[worker'[w].slot].frame = worker'[w].fedUntil
  BY DEF LinesInv, FedInv
<1>5. FedInv'
  BY <1>3, <1>4 DEF FedInv
<1> QED
  BY <1>1, <1>5 DEF LinesInv

(* Waking changes nothing of what the workers hold.                        *)
LEMMA WakingHolds ==
  ASSUME IInv, NEW ws \in {worker, Awake(worker)}, NEW w \in Workers
  PROVE  /\ ws[w].track = worker[w].track /\ ws[w].batch = worker[w].batch
         /\ ws[w].fedUntil = worker[w].fedUntil /\ ws[w].seen = worker[w].seen
         /\ ws[w].restart = worker[w].restart /\ ws[w].current = worker[w].current
         /\ ws[w].above = worker[w].above /\ ws[w].slot = worker[w].slot
         /\ ws[w].at = "drawing" <=> worker[w].at = "drawing"
         /\ ws[w].at = "feeding" <=> worker[w].at = "feeding"
         /\ ws[w].at = "none" <=> worker[w].at = "none"
<1>1. CASE ws = Awake(worker) /\ worker[w].at = "asleep"
  <2>1. ws[w] = [worker[w] EXCEPT !.at = "looking"]
    BY <1>1 DEF Awake
  <2>2. WorkerShape(worker[w])
    BY DEF IInv, ShapeInv, Crew
  <2> QED
    BY <1>1, <2>1, <2>2 DEF WorkerShape
<1>2. CASE ws[w] = worker[w]
  BY <1>2
<1> QED
  BY <1>1, <1>2 DEF Awake

(* What one turn of the loop does to the slots `ss` and the worker `me`.   *)
LEMMA TurnTurns ==
  ASSUME IInv, NEW w \in Workers, NEW ss, NEW me,
         Ring(ss), WorkerShape(me), Turn(w, ss, me)
  PROVE  /\ \A v \in Workers \ {w} : worker'[v] = worker[v]
         /\ worker'[w].at \in {"ended", "asleep", "feeding"}
         /\ worker'[w].track = me.track /\ worker'[w].batch = me.batch
         /\ worker'[w].restart = me.restart /\ worker'[w].current = me.current
         /\ worker'[w].fedUntil = me.fedUntil /\ worker'[w].seen = me.seen
         /\ worker'[w].at = "feeding" => worker'[w].above = above
         /\ \A s \in Slots :
              \/ slots'[s] = ss[s] /\ (s \in fresh' <=> s \in fresh)
              \/ /\ s # shown /\ ss[s].state # "BUSY" /\ slots'[s].state = "BUSY"
                 /\ worker'[w].at = "feeding" /\ worker'[w].slot = s
<1>0. Crew(worker)
  BY DEF IInv, ShapeInv
<1>1. ASSUME slots' = ss, NEW at \in {"ended", "asleep"}, fresh' = fresh,
             worker' = [worker EXCEPT ![w] = [me EXCEPT !.at = at]]
      PROVE  /\ \A v \in Workers \ {w} : worker'[v] = worker[v]
             /\ worker'[w].at = at
             /\ worker'[w].track = me.track /\ worker'[w].batch = me.batch
             /\ worker'[w].restart = me.restart /\ worker'[w].current = me.current
             /\ worker'[w].fedUntil = me.fedUntil /\ worker'[w].seen = me.seen
  <2>1. worker'[w] = [me EXCEPT !.at = at]
    BY <1>0, <1>1 DEF Crew
  <2>2. \A v \in Workers \ {w} : worker'[v] = worker[v]
    BY <1>0, <1>1 DEF Crew
  <2> QED
    BY <2>1, <2>2 DEF WorkerShape
<1>2. CASE ~running
  BY <1>1, <1>2 DEF Turn
<1>3. CASE running /\ ~HasWork(ss)
  BY <1>1, <1>3 DEF Turn
<1>4. CASE running /\ HasWork(ss)
  <2>1. PICK s \in Claimable(ss) :
          /\ slots' = [ss EXCEPT ![s] = [@ EXCEPT !.state = "BUSY", !.frame = NextFrame]]
          /\ fresh' = fresh \cup {s}
          /\ worker' = [worker EXCEPT ![w] =
                          [me EXCEPT !.at = "feeding", !.slot = s, !.above = above]]
    BY <1>4 DEF Turn
  <2>2. s \in Slots /\ s # shown /\ ss[s].state # "BUSY"
    BY DEF Claimable
  <2>3. slots'[s].state = "BUSY" /\ \A r \in Slots \ {s} : slots'[r] = ss[r]
    <3>1. slots'[s] = [ss[s] EXCEPT !.state = "BUSY", !.frame = NextFrame]
      BY <2>1, <2>2 DEF Ring
    <3>2. SlotShape(ss[s])
      BY <2>2 DEF Ring
    <3> QED
      BY <2>1, <3>1, <3>2 DEF Ring, SlotShape
  <2>4. worker'[w] = [me EXCEPT !.at = "feeding", !.slot = s, !.above = above]
    BY <1>0, <2>1 DEF Crew
  <2>5. /\ worker'[w].at = "feeding" /\ worker'[w].slot = s /\ worker'[w].above = above
        /\ worker'[w].track = me.track /\ worker'[w].batch = me.batch
        /\ worker'[w].restart = me.restart /\ worker'[w].current = me.current
        /\ worker'[w].fedUntil = me.fedUntil /\ worker'[w].seen = me.seen
    BY <2>4 DEF WorkerShape
  <2>6. \A v \in Workers \ {w} : worker'[v] = worker[v]
    BY <1>0, <2>1 DEF Crew
  <2>7. \A r \in Slots \ {s} : r \in fresh' <=> r \in fresh
    BY <2>1
  <2> QED
    BY <2>2, <2>3, <2>5, <2>6, <2>7
<1> QED
  BY <1>2, <1>3, <1>4

LEMMA LookLines == ASSUME IInv, LinesInv, NEW w \in Workers, Look(w) PROVE LinesInv'
<1>1. /\ worker[w].at = "looking" /\ Turn(w, slots, worker[w])
      /\ UNCHANGED <<lines, retired, nextId, backlog>>
  BY DEF Look, listVars
<1>2. Ring(slots) /\ WorkerShape(worker[w])
  BY DEF IInv, ShapeInv, Crew
<1>3. /\ \A v \in Workers \ {w} : worker'[v] = worker[v]
      /\ worker'[w].at \in {"ended", "asleep", "feeding"}
      /\ worker'[w].track = worker[w].track /\ worker'[w].batch = worker[w].batch
      /\ worker'[w].restart = worker[w].restart /\ worker'[w].current = worker[w].current
      /\ worker'[w].fedUntil = worker[w].fedUntil /\ worker'[w].seen = worker[w].seen
      /\ \A s \in Slots : slots[s].state = "BUSY" => slots'[s] = slots[s]
  BY <1>1, <1>2, TurnTurns
<1>4. \A v \in Workers : worker[v].at = "drawing" =>
        v # w /\ worker[v].slot \in Slots /\ slots[worker[v].slot].state = "BUSY"
  BY <1>1 DEF IInv, ShapeInv, Crew, BusyInv, Renders
<1>5. ListInv' /\ nextId' >= nextId
  BY <1>1 DEF LinesInv, ListInv
<1> QED
  BY <1>1, <1>3, <1>4, <1>5, SameTracks

(* The batch completes the track to exactly the lines of the frame.        *)
LEMMA FeedWindowFeeds ==
  ASSUME IInv, LinesInv, NEW w \in Workers, FeedWindow(w)
  PROVE  /\ worker'[w].at = "drawing" /\ worker'[w].slot = worker[w].slot
         /\ worker'[w].fedUntil = slots[worker[w].slot].frame
         /\ worker'[w].seen = nextId
         /\ worker'[w].batch \subseteq lines
         /\ Track(worker[w])' = Active(lines, slots[worker[w].slot].frame)
<1> DEFINE me == worker[w]
           frame == slots[me.slot].frame
           restart == ~me.current \/ frame < me.fedUntil
           until == IF restart THEN None ELSE me.fedUntil
           seen == IF restart THEN 0 ELSE me.seen
           batch == {e \in Active(lines, frame) : e.line.start > until \/ e.id >= seen}
<1>1. /\ me.at = "feeding" /\ UNCHANGED slots
      /\ worker' = [worker EXCEPT ![w] =
           [me EXCEPT !.at = "drawing", !.restart = restart, !.current = TRUE,
                      !.batch = batch, !.fedUntil = frame, !.seen = nextId]]
  BY DEF FeedWindow, ringVars
<1>2. Crew(worker) /\ WorkerShape(me) /\ me.slot \in Slots /\ frame \in Int
  BY DEF IInv, ShapeInv, Crew, Ring, SlotShape
<1>3. worker'[w] = [me EXCEPT !.at = "drawing", !.restart = restart, !.current = TRUE,
                              !.batch = batch, !.fedUntil = frame, !.seen = nextId]
  BY <1>1, <1>2 DEF Crew
<1>4. /\ worker'[w].at = "drawing" /\ worker'[w].slot = me.slot /\ worker'[w].restart = restart
      /\ worker'[w].batch = batch /\ worker'[w].fedUntil = frame /\ worker'[w].seen = nextId
      /\ worker'[w].track = me.track
  BY <1>2, <1>3 DEF WorkerShape
<1>5. batch \subseteq lines
  BY DEF Active
<1>6. (Track(me))' = {e \in (IF restart THEN {} ELSE me.track) \cup batch : frame < e.line.end}
  BY <1>1, <1>4 DEF Track
<1>7. CASE restart
  <2>1. batch = Active(lines, frame)
    <3>1. \A e \in lines : e.line.start > None
      BY LinesAreRanges DEF LinesInv, None
    <3> QED
      BY <1>7, <3>1 DEF Active
  <2>2. (Track(me))' = Active(lines, frame)
    <3> HIDE DEF batch, restart
    <3> QED
      BY <1>6, <1>7, <2>1 DEF Active
  <2> QED
    BY <1>4, <1>5, <2>2
<1>8. CASE ~restart
  <2>1. /\ me.fedUntil \in Int /\ me.seen \in Int /\ me.fedUntil <= frame
        /\ \A e \in me.track : e \in lines /\ e.line.start <= me.fedUntil
        /\ \A e \in lines :
             e.line.start <= me.fedUntil /\ me.fedUntil < e.line.end /\ e.id < me.seen
               => e \in me.track
    BY <1>1, <1>2, <1>8 DEF LinesInv, FedInv, FedTo, Holds
  <2>2. batch = {e \in Active(lines, frame) : e.line.start > me.fedUntil \/ e.id >= me.seen}
    BY <1>8
  <2>3. (Track(me))' = {e \in me.track \cup batch : frame < e.line.end}
    BY <1>6, <1>8
  <2>4. ASSUME NEW e \in lines
        PROVE  /\ e.line.start \in Int /\ e.line.end \in Int /\ e.id \in Int
    BY LinesAreRanges DEF LinesInv
  <2> HIDE DEF batch, restart
  <2>5. \A e \in Active(lines, frame) : e \in me.track \cup batch /\ frame < e.line.end
    <3> SUFFICES ASSUME NEW e \in lines, e.line.start <= frame, frame < e.line.end,
                        e \notin batch
                 PROVE  e \in me.track
      BY DEF Active
    <3>1. e \in Active(lines, frame)
      BY DEF Active
    <3>2. e.line.start <= me.fedUntil /\ e.id < me.seen
      BY <2>1, <2>2, <2>4, <3>1
    <3>3. me.fedUntil < e.line.end
      BY <1>2, <2>1, <2>4
    <3> QED
      BY <2>1, <3>2, <3>3
  <2>6. \A e \in me.track \cup batch : frame < e.line.end => e \in Active(lines, frame)
    <3> SUFFICES ASSUME NEW e \in me.track \cup batch, frame < e.line.end
                 PROVE  e \in Active(lines, frame)
      OBVIOUS
    <3>1. CASE e \in batch
      BY <2>2, <3>1
    <3>2. CASE e \in me.track
      <4>1. e \in lines /\ e.line.start <= me.fedUntil
        BY <2>1, <3>2
      <4>2. e.line.start <= frame
        BY <1>2, <2>1, <2>4, <4>1
      <4> QED
        BY <4>1, <4>2 DEF Active
    <3> QED
      BY <3>1, <3>2
  <2>7. (Track(me))' = Active(lines, frame)
    BY <2>3, <2>5, <2>6
  <2> QED
    BY <1>4, <1>5, <2>7
<1> QED
  BY <1>7, <1>8

LEMMA FeedWindowLines ==
  ASSUME IInv, LinesInv, NEW w \in Workers, FeedWindow(w) PROVE LinesInv'
<1>1. /\ worker'[w].at = "drawing" /\ worker'[w].slot = worker[w].slot
      /\ worker'[w].fedUntil = slots[worker[w].slot].frame
      /\ worker'[w].seen = nextId
      /\ worker'[w].batch \subseteq lines
      /\ (Holds(worker[w]))' = Active(lines, slots[worker[w].slot].frame)
  BY FeedWindowFeeds DEF Holds
<1>2. UNCHANGED <<slots, lines, retired, nextId, backlog>>
  BY DEF FeedWindow, ringVars, listVars
<1>3. \A v \in Workers \ {w} : worker'[v] = worker[v]
  <2>1. \E m : worker' = [worker EXCEPT ![w] = m]
    BY DEF FeedWindow
  <2> QED
    BY <2>1 DEF IInv, ShapeInv, Crew
<1>4. ListInv'
  BY <1>2 DEF LinesInv, ListInv
<1>5. BatchIsAlive'
  BY <1>1, <1>2, <1>3 DEF LinesInv, BatchIsAlive
<1>6. (FedTo(worker[w]))'
  <2> DEFINE frame == slots[worker[w].slot].frame
  <2>1. frame \in Int /\ nextId \in Int
    BY DEF IInv, ShapeInv, Crew, Ring, SlotShape, LinesInv, ListInv
  <2>2. nextId <= nextId
    BY <2>1
  <2> HIDE DEF frame
  <2>3. /\ \A e \in Active(lines, frame) : e \in lines /\ e.line.start <= frame
        /\ \A e \in lines : e.line.start <= frame /\ frame < e.line.end
                              => e \in Active(lines, frame)
    BY DEF Active
  <2> QED
    BY <1>1, <1>2, <2>1, <2>2, <2>3 DEF FedTo, frame
<1>7. ASSUME NEW v \in Workers \ {w}, worker'[v].current PROVE (FedTo(worker[v]))'
  <2>1. FedTo(worker[v])
    BY <1>3, <1>7 DEF LinesInv, FedInv
  <2>2. (Holds(worker[v]))' = Holds(worker[v])
    BY <1>2, <1>3 DEF Holds, Track
  <2> QED
    BY <1>2, <1>3, <2>1, <2>2 DEF FedTo
<1>8. FedInv'
  BY <1>1, <1>2, <1>3, <1>6, <1>7 DEF LinesInv, FedInv
<1> QED
  BY <1>4, <1>5, <1>8 DEF LinesInv

(* The slots a finished drawing leaves: its own READY, or free again.      *)
Leaves(w, ss, me) ==
  /\ Ring(ss) /\ WorkerShape(me) /\ Turn(w, ss, me)
  /\ me.track = Track(worker[w]) /\ me.batch = {}
  /\ me.restart = worker[w].restart /\ me.current = worker[w].current
  /\ me.fedUntil = worker[w].fedUntil /\ me.seen = worker[w].seen
  /\ \A r \in Slots \ {worker[w].slot} : ss[r] = slots[r]
  /\ worker[w].slot \in fresh =>
       ss[worker[w].slot] =
         [slots[worker[w].slot] EXCEPT
            !.state = "READY",
            !.picture = [lines |-> LinesOf(Track(worker[w])),
                         above |-> worker[w].above /\ LinesOf(Track(worker[w])) # {}]]
  /\ worker[w].slot \notin fresh => ss[worker[w].slot] = FreeSlot

LEMMA DrawLeaves ==
  ASSUME IInv, NEW w \in Workers, Draw(w)
  PROVE  \E ss, me : Leaves(w, ss, me)
<1> DEFINE s == worker[w].slot
           drawn == LinesOf(Track(worker[w]))
           p == [lines |-> drawn, above |-> worker[w].above /\ drawn # {}]
           ss == [slots EXCEPT ![s] = IF s \in fresh
                                      THEN [@ EXCEPT !.state = "READY", !.picture = p]
                                      ELSE FreeSlot]
           me == [worker[w] EXCEPT !.track = Track(worker[w]), !.batch = {}]
<1>1. Turn(w, ss, me)
  BY DEF Draw
<1>2. Ring(slots) /\ WorkerShape(worker[w]) /\ s \in Slots
  BY DEF IInv, ShapeInv, Crew
<1>3. /\ WorkerShape(me) /\ me.track = Track(worker[w]) /\ me.batch = {}
      /\ me.restart = worker[w].restart /\ me.current = worker[w].current
      /\ me.fedUntil = worker[w].fedUntil /\ me.seen = worker[w].seen
  <2> DEFINE T == Track(worker[w])
  <2>1. me = [worker[w] EXCEPT !.track = T, !.batch = {}]
    OBVIOUS
  <2> HIDE DEF me, T
  <2>2. /\ WorkerShape(me) /\ me.track = T /\ me.batch = {}
        /\ me.restart = worker[w].restart /\ me.current = worker[w].current
        /\ me.fedUntil = worker[w].fedUntil /\ me.seen = worker[w].seen
    BY <1>2, <2>1 DEF WorkerShape
  <2> QED
    BY <2>2 DEF T
<1>4. /\ ss = [r \in Slots |-> ss[r]]
      /\ \A r \in Slots \ {s} : ss[r] = slots[r]
      /\ s \in fresh => ss[s] = [slots[s] EXCEPT !.state = "READY", !.picture = p]
      /\ s \notin fresh => ss[s] = FreeSlot
  <2>1. DOMAIN slots = Slots
    BY <1>2 DEF Ring
  <2> QED
    BY <1>2, <2>1 DEF Ring
<1>5. SlotShape(ss[s])
  <2>1. SlotShape(slots[s])
    BY <1>2 DEF Ring
  <2> HIDE DEF ss, p
  <2>2. CASE s \in fresh
    BY <1>4, <2>1, <2>2 DEF SlotShape
  <2> QED
    BY <1>4, <2>2, FreeSlotShape
<1>6. Ring(ss)
  <2> HIDE DEF ss
  <2> QED
    BY <1>2, <1>4, <1>5 DEF Ring
<1>7. Leaves(w, ss, me)
  <2> HIDE DEF ss, me
  <2> QED
    BY <1>1, <1>3, <1>4, <1>6 DEF Leaves
<1> QED
  BY <1>7

LEMMA DrawLines == ASSUME IInv, LinesInv, NEW w \in Workers, Draw(w) PROVE LinesInv'
<1>1. PICK ss, me : Leaves(w, ss, me)
  BY DrawLeaves
<1>2. /\ worker[w].at = "drawing"
      /\ UNCHANGED <<lines, retired, nextId, backlog>>
  BY DEF Draw, listVars
<1>3. /\ \A v \in Workers \ {w} : worker'[v] = worker[v]
      /\ worker'[w].at \in {"ended", "asleep", "feeding"}
      /\ worker'[w].track = Track(worker[w]) /\ worker'[w].batch = {}
      /\ worker'[w].current = worker[w].current
      /\ worker'[w].fedUntil = worker[w].fedUntil /\ worker'[w].seen = worker[w].seen
      /\ \A s \in Slots : ss[s].state = "BUSY" => slots'[s] = ss[s]
  BY <1>1, TurnTurns DEF Leaves
<1>4. ASSUME NEW v \in Workers \ {w}, worker[v].at = "drawing"
      PROVE  slots'[worker[v].slot] = slots[worker[v].slot]
  <2>1. /\ worker[v].slot \in Slots /\ worker[v].slot # worker[w].slot
        /\ slots[worker[v].slot].state = "BUSY"
    BY <1>2, <1>4 DEF IInv, ShapeInv, Crew, BusyInv, ApartInv, Renders
  <2> QED
    BY <1>1, <1>3, <2>1 DEF Leaves
<1>5. ListInv' /\ BatchIsAlive'
  BY <1>2, <1>3 DEF LinesInv, ListInv, BatchIsAlive
<1>6. ASSUME NEW v \in Workers PROVE (Holds(worker[v]))' = Holds(worker[v])
  <2>1. CASE v = w
    BY <1>2, <1>3, <2>1 DEF Holds
  <2>2. CASE v # w /\ worker[v].at = "drawing"
    BY <1>3, <1>4, <2>2 DEF Holds, Track
  <2>3. CASE v # w /\ worker[v].at # "drawing"
    BY <1>3, <2>3 DEF Holds
  <2> QED
    BY <2>1, <2>2, <2>3
<1>7. ASSUME NEW v \in Workers, worker'[v].current PROVE (FedTo(worker[v]))'
  <2>1. /\ worker'[v].current = worker[v].current
        /\ worker'[v].fedUntil = worker[v].fedUntil /\ worker'[v].seen = worker[v].seen
    BY <1>3
  <2>2. FedTo(worker[v])
    BY <1>7, <2>1 DEF LinesInv, FedInv
  <2> QED
    BY <1>2, <1>6, <2>1, <2>2 DEF FedTo
<1>8. \A v \in Workers : worker'[v].at = "drawing" =>
        slots'[worker'[v].slot].frame = worker'[v].fedUntil
  BY <1>3, <1>4 DEF LinesInv, FedInv
<1> QED
  BY <1>5, <1>7, <1>8 DEF LinesInv, FedInv

(* New workers, or none: they hold nothing.                                *)
LEMMA NewCrewLines ==
  ASSUME LinesInv, lines' \in {lines, {}}, UNCHANGED <<nextId, backlog>>,
         \A w \in Workers : worker'[w] \in {NoWorker, Started}
  PROVE  LinesInv'
<1>1. \A m \in {NoWorker, Started} : m.batch = {} /\ m.current = FALSE /\ m.at # "drawing"
  <2>1. NoWorker.batch = {} /\ NoWorker.current = FALSE /\ NoWorker.at = "none"
    BY DEF NoWorker
  <2>2. Started.batch = {} /\ Started.current = FALSE /\ Started.at = "looking"
    BY DEF NoWorker, Started
  <2> QED
    BY <2>1, <2>2
<1> QED
  BY <1>1 DEF LinesInv, ListInv, FedInv, BatchIsAlive

(* The script replaces the list; nobody is at the current list any more.   *)
LEMMA ScriptLines == ASSUME IInv, LinesInv, InstallScript PROVE LinesInv'
<1>1. PICK ws : ws = Awake(worker)
  OBVIOUS
<1>2. /\ worker' = [w \in Workers |-> [ws[w] EXCEPT !.current = FALSE]]
      /\ retired' = retired \cup lines /\ lines' = Numbered(Lines)
      /\ nextId' = nextId + Cardinality(Lines) /\ UNCHANGED <<slots, backlog>>
  BY <1>1 DEF InstallScript, ringVars
<1>3. ListInv'
  BY <1>2, NumberedIds DEF LinesInv, ListInv
<1>4. ASSUME NEW w \in Workers
      PROVE  /\ worker'[w].current = FALSE /\ worker'[w].batch = worker[w].batch
             /\ worker'[w].slot = worker[w].slot
             /\ worker'[w].fedUntil = worker[w].fedUntil
             /\ worker'[w].at = "drawing" <=> worker[w].at = "drawing"
  <2>1. /\ ws[w].batch = worker[w].batch /\ ws[w].slot = worker[w].slot
        /\ ws[w].fedUntil = worker[w].fedUntil
        /\ ws[w].at = "drawing" <=> worker[w].at = "drawing"
    BY <1>1, WakingHolds
  <2>2. WorkerShape(ws[w])
    BY <1>1, WakingKeeps DEF IInv, Crew
  <2>3. worker'[w] = [ws[w] EXCEPT !.current = FALSE]
    BY <1>2
  <2> QED
    BY <2>1, <2>2, <2>3 DEF WorkerShape
<1> QED
  BY <1>2, <1>3, <1>4 DEF LinesInv, FedInv, BatchIsAlive

(* The list grows by new lines, the workers at most wake up, and no slot   *)
(* that is drawn into changes.                                             *)
LEMMA GrowsLines ==
  ASSUME IInv, LinesInv, worker' \in {worker, Awake(worker)},
         \A s \in Slots : slots[s].state = "BUSY" => slots'[s] = slots[s],
         backlog' \subseteq Lines, retired' = retired,
         \/ UNCHANGED <<lines, nextId>>
         \/ \E set \in SUBSET Lines : /\ lines' = lines \cup Numbered(set)
                                      /\ nextId' = nextId + Cardinality(set)
  PROVE  LinesInv'
<1>1. /\ lines \subseteq lines' /\ nextId' >= nextId /\ ListInv'
      /\ \A e \in lines' \ lines : e.id >= nextId
  <2>1. CASE UNCHANGED <<lines, nextId>>
    BY <2>1 DEF LinesInv, ListInv
  <2>2. ASSUME NEW set \in SUBSET Lines,
               lines' = lines \cup Numbered(set), nextId' = nextId + Cardinality(set)
        PROVE  /\ lines \subseteq lines' /\ nextId' >= nextId /\ ListInv'
               /\ \A e \in lines' \ lines : e.id >= nextId
    <3>1. /\ nextId \in Nat /\ Cardinality(set) \in Nat
          /\ \A e \in lines : e.line \in Lines /\ e.id \in Nat /\ e.id < nextId
          /\ \A e \in Numbered(set) : /\ e.line \in Lines /\ e.id \in Nat
                                      /\ e.id >= nextId /\ e.id < nextId'
      BY <2>2, NumberedIds DEF LinesInv, ListInv
    <3>2. nextId' \in Nat /\ nextId' >= nextId
      BY <2>2, <3>1
    <3>3. \A e \in lines' : e.line \in Lines /\ e.id \in Nat /\ e.id < nextId'
      <4> SUFFICES ASSUME NEW e \in lines \cup Numbered(set)
                   PROVE  e.line \in Lines /\ e.id \in Nat /\ e.id < nextId'
        BY <2>2
      <4> QED
        BY <3>1, <3>2
    <3> QED
      BY <2>2, <3>1, <3>2, <3>3 DEF ListInv
  <2> QED
    BY <2>1, <2>2
<1>2. \A w \in Workers : worker[w].at = "drawing" =>
        slots'[worker[w].slot].frame = slots[worker[w].slot].frame
  BY DEF IInv, ShapeInv, Crew, BusyInv, Renders
<1>3. \A w \in Workers :
        /\ worker'[w].track = worker[w].track /\ worker'[w].batch = worker[w].batch
        /\ worker'[w].fedUntil = worker[w].fedUntil /\ worker'[w].seen = worker[w].seen
        /\ worker'[w].restart = worker[w].restart /\ worker'[w].current = worker[w].current
        /\ worker'[w].slot = worker[w].slot
        /\ worker'[w].at = "drawing" <=> worker[w].at = "drawing"
  BY WakingHolds
<1> QED
  BY <1>1, <1>2, <1>3, SameTracks

LEMMA FeedLines == ASSUME IInv, LinesInv, NEW l \in Lines, Feed(l) PROVE LinesInv'
<1> DEFINE new == IF taking /\ Up /\ ~complete THEN {l} \ LinesOf(lines) ELSE {}
<1>1. /\ lines' = lines \cup Numbered(new) /\ nextId' = nextId + Cardinality(new)
      /\ UNCHANGED <<worker, slots, retired>> /\ backlog' = Trimmed(backlog \cup {l}, l)
  BY DEF Feed, ringVars
<1>2. new \in SUBSET Lines
  OBVIOUS
<1>3. backlog' \subseteq Lines
  BY <1>1 DEF LinesInv, ListInv, Trimmed
<1> QED
  BY <1>1, <1>2, <1>3, GrowsLines

LEMMA FrameLines == ASSUME IInv, LinesInv, NEW t \in Targets, Frame(t) PROVE LinesInv'
<1>1. /\ worker' \in {worker, Awake(worker)}
      /\ UNCHANGED <<lines, retired, nextId, backlog>>
      /\ slots' = [s \in Slots |-> IF s \in {shown} \ {None, Best(t)}
                                   THEN FreeSlot ELSE slots[s]]
  BY DEF Frame, listVars
<1>2. \A s \in Slots : slots[s].state = "BUSY" => slots'[s] = slots[s]
  BY <1>1 DEF IInv, ShownIsDone
<1>3. backlog' \subseteq Lines
  BY <1>1 DEF LinesInv, ListInv
<1> QED
  BY <1>1, <1>2, <1>3, GrowsLines

LEMMA InitLines == Init => LinesInv
<1> SUFFICES ASSUME Init PROVE LinesInv
  OBVIOUS
<1>1. /\ worker = [w \in Workers |-> NoWorker] /\ lines = {} /\ nextId = 0 /\ backlog = {}
  BY DEF Init
<1>2. NoWorker.batch = {} /\ NoWorker.current = FALSE /\ NoWorker.at = "none"
  BY DEF NoWorker
<1> QED
  BY <1>1, <1>2 DEF LinesInv, ListInv, FedInv, BatchIsAlive

LEMMA LinesStep == IInv /\ LinesInv /\ [Next]_vars => LinesInv'
<1> SUFFICES ASSUME IInv, LinesInv, [Next]_vars PROVE LinesInv'
  OBVIOUS
<1>0. backlog \subseteq Lines
  BY DEF LinesInv, ListInv
<1>1. ASSUME NEW w \in Workers, WorkerStep(w) PROVE LinesInv'
  BY <1>1, LookLines, FeedWindowLines, DrawLines DEF WorkerStep
<1>2. ASSUME NEW op, NEW id, Stopping(op, id) PROVE LinesInv'
  BY <1>0, <1>2, GrowsLines DEF Stopping, listVars, ringVars
<1>3. ASSUME NEW id \in 1..MaxSerial, Open(id) \/ OpenFile(id) \/ CloseTrack(id)
      PROVE  LinesInv'
  BY <1>2, <1>3 DEF Open, OpenFile, CloseTrack
<1>4. ASSUME NEW id \in 1..MaxSerial, OpenFileHeld(id) PROVE LinesInv'
  BY <1>0, <1>4, GrowsLines DEF OpenFileHeld, listVars, ringVars
<1>5. CASE Release
  BY <1>2, <1>5 DEF Release
<1>6. CASE Joined
  BY <1>6, NewCrewLines DEF Joined
<1>7. CASE Start
  BY <1>7, NewCrewLines DEF Start, listVars
<1>8. CASE StartFails
  BY <1>0, <1>8, GrowsLines DEF StartFails, listVars, ringVars
<1>9. CASE InstallBacklog
  <2>1. backlog \ LinesOf(lines) \in SUBSET Lines
    BY <1>0
  <2> QED
    BY <1>0, <1>9, <2>1, GrowsLines DEF InstallBacklog, ringVars
<1>10. CASE InstallScript
  BY <1>10, ScriptLines
<1>11. CASE Drop
  BY <1>11, GrowsLines DEF Drop, ringVars
<1>12. ASSUME NEW l \in Lines, Feed(l) PROVE LinesInv'
  BY <1>12, FeedLines
<1>13. ASSUME NEW t \in Targets, Frame(t) PROVE LinesInv'
  BY <1>13, FrameLines
<1>14. CASE FrameClosed \/ KeepAbove
  BY <1>0, <1>14, GrowsLines DEF FrameClosed, KeepAbove, listVars, ringVars
<1>15. CASE UNCHANGED vars
  BY <1>0, <1>15, GrowsLines DEF vars, listVars, ringVars
<1> QED
  BY <1>1, <1>3, <1>4, <1>5, <1>6, <1>7, <1>8, <1>9, <1>10, <1>11, <1>12, <1>13, <1>14, <1>15
     DEF Next, ControlStep

(* No worker reads a line that has been freed: not when the server's       *)
(* script replaces the list it is feeding from, nor when the track closes. *)
THEOREM BatchesStayAlive == Spec => []BatchIsAlive
<1>1. Spec => [](IInv /\ LinesInv)
  BY InitHolds, InitLines, Step, LinesStep, PTL DEF Spec
<1> QED
  BY <1>1, PTL DEF LinesInv

(* A worker draws every line active at its frame, once, and nothing else,  *)
(* whatever it skipped, missed or was given twice before.                  *)
THEOREM TracksAreExact == Spec => TrackIsExact
<1>1. ASSUME IInv, LinesInv, [Next]_vars
      PROVE  [\A w \in Workers : FeedWindow(w) =>
                Track(worker[w])' = Active(lines, slots[worker[w].slot].frame)]_vars
  BY <1>1, FeedWindowFeeds
<1> QED
  BY <1>1, InitHolds, InitLines, Step, LinesStep, PTL DEF Spec, TrackIsExact

-----------------------------------------------------------------------------
(* What the screen shows.                                                  *)

(* The slot shown is finished, not ahead of playback, and on screen; when  *)
(* no worker is left to render, nothing is shown.                          *)
ScreenInv ==
  /\ shown # None => /\ slots[shown].state = "READY" /\ slots[shown].frame <= playhead
                     /\ screen = slots[shown].picture
  /\ ~Up => shown = None

(* A picture of this generation has its dialogue where keep_above wants    *)
(* it, and one that is being drawn will: the controls start a generation.  *)
Placed(slot) == slot.picture.above = (above /\ slot.picture.lines # {})
PlaceInv ==
  /\ \A w \in Workers : Renders(worker[w]) /\ worker[w].slot \in fresh
       => worker[w].above = above
  /\ \A s \in fresh : slots[s].state = "READY" => Placed(slots[s])

(* The ring and what is shown of it stay; no worker starts to draw.        *)
LEMMA SameScreen ==
  ASSUME ScreenInv, PlaceInv, UNCHANGED <<slots, fresh, playhead, shown, above>>,
         screen' = screen \/ shown = None,
         \A w \in Workers :
           /\ worker'[w].slot = worker[w].slot /\ worker'[w].above = worker[w].above
           /\ Renders(worker'[w]) <=> Renders(worker[w])
           /\ worker'[w].at = "none" <=> worker[w].at = "none"
  PROVE  ScreenInv' /\ PlaceInv'
<1>1. Up' <=> Up
  BY DEF Up
<1>2. ScreenInv'
  BY <1>1 DEF ScreenInv
<1>3. PlaceInv'
  BY DEF PlaceInv, Placed
<1> QED
  BY <1>2, <1>3

LEMMA TurnScreen ==
  ASSUME IInv, IInv', ScreenInv, PlaceInv, NEW w \in Workers, NEW ss, NEW me,
         Ring(ss), WorkerShape(me), Turn(w, ss, me), UNCHANGED <<playhead, uiVars>>,
         shown # None => ss[shown] = slots[shown],
         \A v \in Workers \ {w} : Renders(worker[v]) => ss[worker[v].slot].state = "BUSY",
         \A s \in fresh : ss[s].state = "READY" => Placed(ss[s])
  PROVE  ScreenInv' /\ PlaceInv'
<1>0. /\ \A v \in Workers : worker[v].slot \in Slots
      /\ fresh \subseteq Slots /\ shown \in Slots \cup {None}
      /\ shown' = shown /\ screen' = screen /\ above' = above /\ playhead' = playhead
  BY DEF IInv, ShapeInv, Crew, uiVars
<1>1. /\ \A v \in Workers \ {w} : worker'[v] = worker[v]
      /\ worker'[w].at \in {"ended", "asleep", "feeding"}
      /\ worker'[w].at = "feeding" => worker'[w].above = above
      /\ \A s \in Slots :
           \/ slots'[s] = ss[s] /\ (s \in fresh' <=> s \in fresh)
           \/ s # shown /\ ss[s].state # "BUSY" /\ slots'[s].state = "BUSY"
  BY TurnTurns
<1>2. ScreenInv'
  <2>1. Up'
    BY <1>1 DEF Up
  <2>2. shown # None => slots'[shown] = slots[shown]
    BY <1>0, <1>1
  <2> QED
    BY <1>0, <2>1, <2>2 DEF ScreenInv
<1>3. ASSUME NEW v \in Workers, Renders(worker'[v]), worker'[v].slot \in fresh'
      PROVE  worker'[v].above = above'
  <2>1. CASE v = w
    BY <1>0, <1>1, <1>3, <2>1 DEF Renders
  <2>2. CASE v # w
    <3>1. Renders(worker[v]) /\ ss[worker[v].slot].state = "BUSY"
      BY <1>1, <1>3, <2>2
    <3>2. worker[v].slot \in fresh
      BY <1>0, <1>1, <1>3, <2>2, <3>1
    <3> QED
      BY <1>0, <1>1, <2>2, <3>1, <3>2 DEF PlaceInv
  <2> QED
    BY <2>1, <2>2
<1>4. ASSUME NEW s \in fresh', slots'[s].state = "READY"
      PROVE  (Placed(slots[s]))'
  <2>1. s \in Slots
    BY <1>4 DEF IInv, ShapeInv
  <2>2. slots'[s] = ss[s] /\ s \in fresh
    BY <1>1, <1>4, <2>1
  <2>3. Placed(ss[s])
    BY <1>4, <2>2
  <2> QED
    BY <1>0, <2>2, <2>3 DEF Placed
<1> QED
  BY <1>2, <1>3, <1>4 DEF PlaceInv

LEMMA LookScreen ==
  ASSUME IInv, ScreenInv, PlaceInv, NEW w \in Workers, Look(w)
  PROVE  ScreenInv' /\ PlaceInv'
<1>1. Turn(w, slots, worker[w]) /\ UNCHANGED <<playhead, uiVars>>
  BY DEF Look
<1>2. Ring(slots) /\ WorkerShape(worker[w])
  BY DEF IInv, ShapeInv, Crew
<1>3. \A v \in Workers \ {w} : Renders(worker[v]) => slots[worker[v].slot].state = "BUSY"
  BY DEF IInv, BusyInv
<1>4. \A s \in fresh : slots[s].state = "READY" => Placed(slots[s])
  BY DEF PlaceInv
<1> QED
  BY <1>1, <1>2, <1>3, <1>4, LookKeeps, TurnScreen

LEMMA DrawScreen ==
  ASSUME IInv, ScreenInv, PlaceInv, NEW w \in Workers, Draw(w)
  PROVE  ScreenInv' /\ PlaceInv'
<1> DEFINE s == worker[w].slot
           drawn == LinesOf(Track(worker[w]))
<1>1. PICK ss, me : Leaves(w, ss, me)
  BY DrawLeaves
<1>2. worker[w].at = "drawing" /\ Renders(worker[w]) /\ UNCHANGED <<playhead, uiVars>>
  BY DEF Draw, Renders
<1>3. /\ s \in Slots /\ fresh \subseteq Slots /\ slots[s].state = "BUSY"
      /\ shown \in Slots \cup {None} /\ SlotShape(slots[s])
  BY <1>2 DEF IInv, ShapeInv, Crew, Ring, BusyInv
<1>4. shown # None => ss[shown] = slots[shown]
  <2>1. shown # s
    BY <1>3, SlotsAreNumbers DEF IInv, ShownIsDone
  <2> QED
    BY <1>1, <1>3, <2>1 DEF Leaves
<1>5. ASSUME NEW v \in Workers \ {w}, Renders(worker[v])
      PROVE  ss[worker[v].slot].state = "BUSY"
  <2>1. /\ worker[v].slot \in Slots /\ worker[v].slot # s
        /\ slots[worker[v].slot].state = "BUSY"
    BY <1>2, <1>5 DEF IInv, ShapeInv, Crew, BusyInv, ApartInv
  <2> QED
    BY <1>1, <2>1 DEF Leaves
<1>6. ASSUME NEW r \in fresh, ss[r].state = "READY" PROVE Placed(ss[r])
  <2>1. CASE r = s
    <3> DEFINE p == [lines |-> drawn, above |-> worker[w].above /\ drawn # {}]
    <3>1. worker[w].above = above
      BY <1>2, <2>1 DEF PlaceInv
    <3>2. ss[s] = [slots[s] EXCEPT !.state = "READY", !.picture = p]
      BY <1>1, <2>1 DEF Leaves
    <3>3. p.lines = drawn /\ p.above = (above /\ drawn # {})
      BY <3>1
    <3> HIDE DEF p
    <3>4. ss[s].picture = p
      BY <1>3, <3>2 DEF SlotShape
    <3> QED
      BY <2>1, <3>3, <3>4 DEF Placed
  <2>2. CASE r # s
    <3>1. ss[r] = slots[r]
      BY <1>1, <1>3, <2>2 DEF Leaves
    <3> QED
      BY <1>6, <3>1 DEF PlaceInv
  <2> QED
    BY <2>1, <2>2
<1>7. Ring(ss) /\ WorkerShape(me) /\ Turn(w, ss, me)
  BY <1>1 DEF Leaves
<1> HIDE DEF s, drawn
<1> QED
  BY <1>2, <1>4, <1>5, <1>6, <1>7, DrawKeeps, TurnScreen

(* The workers at most wake up.                                            *)
LEMMA WakingScreen ==
  ASSUME IInv, ScreenInv, PlaceInv, UNCHANGED <<slots, fresh, playhead, shown, above>>,
         screen' = screen \/ shown = None, worker' \in {worker, Awake(worker)}
  PROVE  ScreenInv' /\ PlaceInv'
<1>1. \A w \in Workers :
        /\ worker'[w].slot = worker[w].slot /\ worker'[w].above = worker[w].above
        /\ Renders(worker'[w]) <=> Renders(worker[w])
        /\ worker'[w].at = "none" <=> worker[w].at = "none"
  BY WakingHolds DEF Renders
<1> QED
  BY <1>1, SameScreen

LEMMA FeedWindowScreen ==
  ASSUME IInv, ScreenInv, PlaceInv, NEW w \in Workers, FeedWindow(w)
  PROVE  ScreenInv' /\ PlaceInv'
<1>1. Crew(worker)
  BY DEF IInv, ShapeInv
<1>2. PICK r, b, f :
        worker' = [worker EXCEPT ![w] =
                     [worker[w] EXCEPT !.at = "drawing", !.restart = r, !.current = TRUE,
                                       !.batch = b, !.fedUntil = f, !.seen = nextId]]
  BY DEF FeedWindow
<1>3. /\ worker'[w].at = "drawing" /\ worker'[w].slot = worker[w].slot
      /\ worker'[w].above = worker[w].above
  <2>1. worker'[w] = [worker[w] EXCEPT !.at = "drawing", !.restart = r, !.current = TRUE,
                                       !.batch = b, !.fedUntil = f, !.seen = nextId]
    BY <1>1, <1>2 DEF Crew
  <2>2. WorkerShape(worker[w])
    BY <1>1 DEF Crew
  <2> QED
    BY <2>1, <2>2 DEF WorkerShape
<1>4. \A v \in Workers \ {w} : worker'[v] = worker[v]
  BY <1>1, <1>2 DEF Crew
<1>5. worker[w].at = "feeding" /\ UNCHANGED <<slots, fresh, playhead, shown, above, screen>>
  BY DEF FeedWindow, ringVars, uiVars
<1>6. \A v \in Workers :
        /\ worker'[v].slot = worker[v].slot /\ worker'[v].above = worker[v].above
        /\ Renders(worker'[v]) <=> Renders(worker[v])
        /\ worker'[v].at = "none" <=> worker[v].at = "none"
  BY <1>3, <1>4, <1>5 DEF Renders
<1> QED
  BY <1>5, <1>6, SameScreen

LEMMA ScriptScreen ==
  ASSUME IInv, ScreenInv, PlaceInv, InstallScript
  PROVE  ScreenInv' /\ PlaceInv'
<1>1. PICK ws : ws = Awake(worker)
  OBVIOUS
<1>2. /\ worker' = [w \in Workers |-> [ws[w] EXCEPT !.current = FALSE]]
      /\ UNCHANGED <<slots, fresh, playhead, shown, above, screen>>
  BY <1>1 DEF InstallScript, ringVars, uiVars
<1>3. ASSUME NEW w \in Workers
      PROVE  /\ worker'[w].slot = worker[w].slot /\ worker'[w].above = worker[w].above
             /\ Renders(worker'[w]) <=> Renders(worker[w])
             /\ worker'[w].at = "none" <=> worker[w].at = "none"
  <2>1. WorkerShape(ws[w])
    BY <1>1, WakingKeeps DEF IInv, Crew
  <2>2. worker'[w] = [ws[w] EXCEPT !.current = FALSE]
    BY <1>2
  <2>3. /\ worker'[w].slot = ws[w].slot /\ worker'[w].above = ws[w].above
        /\ worker'[w].at = ws[w].at
    BY <2>1, <2>2 DEF WorkerShape
  <2>4. /\ ws[w].slot = worker[w].slot /\ ws[w].above = worker[w].above
        /\ ws[w].at = "drawing" <=> worker[w].at = "drawing"
        /\ ws[w].at = "feeding" <=> worker[w].at = "feeding"
        /\ ws[w].at = "none" <=> worker[w].at = "none"
    BY <1>1, WakingHolds
  <2> QED
    BY <2>3, <2>4 DEF Renders
<1> QED
  BY <1>2, <1>3, SameScreen

(* Every slot is free and nobody draws.                                    *)
LEMMA ClearedScreen ==
  ASSUME slots' = [s \in Slots |-> FreeSlot], shown' = None, fresh' \subseteq Slots,
         \A w \in Workers : worker'[w] \in {NoWorker, Started}
  PROVE  ScreenInv' /\ PlaceInv'
<1>1. \A w \in Workers : ~Renders(worker'[w])
  BY NewWorkers DEF Renders
<1>2. \A s \in fresh' : slots'[s].state # "READY"
  BY FreeSlotShape
<1> QED
  BY <1>1, <1>2 DEF ScreenInv, PlaceInv

LEMMA FrameScreen ==
  ASSUME IInv, ScreenInv, PlaceInv, NEW t \in Targets, Frame(t)
  PROVE  ScreenInv' /\ PlaceInv'
<1>1. PICK best :
        /\ best = Best(t)
        /\ slots' = [s \in Slots |-> IF s \in {shown} \ {None, best}
                                     THEN FreeSlot ELSE slots[s]]
        /\ shown' = best /\ worker' \in {Awake(worker), worker}
        /\ \/ screen' = IF best = None THEN Nothing ELSE slots[best].picture
           \/ /\ screen' = screen
              /\ best \in {shown, None} \/ slots[best].picture = screen
  BY DEF Frame
<1>2. t \in Nat /\ playhead' = t /\ fresh' = FreshAfter(t) /\ above' = above /\ Up
  BY NumbersAssumption DEF Frame, NumbersAssumption
<1>3. /\ Ring(slots) /\ fresh \subseteq Slots /\ playhead \in Int
      /\ shown \in Slots \cup {None} /\ fresh' \subseteq fresh
  BY <1>2 DEF IInv, ShapeInv, FreshAfter
<1>4. \A w \in Workers :
        /\ worker'[w].slot = worker[w].slot /\ worker'[w].above = worker[w].above
        /\ Renders(worker'[w]) <=> Renders(worker[w])
        /\ worker'[w].at = "none" <=> worker[w].at = "none"
  BY <1>1, WakingHolds DEF Renders
<1>5. ASSUME best # None
      PROVE  /\ best \in Slots /\ slots[best].state = "READY" /\ slots[best].frame <= t
             /\ slots'[best] = slots[best]
  <2>1. best \in Finished(t) \/ (best = shown /\ best = ShownAfter(t))
    BY <1>1, <1>2, <1>5, BestIsFinished
  <2>2. CASE best \in Finished(t)
    BY <1>1, <1>3, <2>2 DEF Finished, FreshAfter
  <2>3. CASE best = shown /\ best = ShownAfter(t)
    <3>1. slots[shown].state = "READY" /\ slots[shown].frame <= playhead /\ shown \in Slots
      BY <1>3, <1>5, <2>3 DEF ScreenInv
    <3>2. t >= playhead
      BY <1>2, <1>3, <1>5, <2>3 DEF ShownAfter, FreshAfter, Jumped
    <3>3. slots[shown].frame \in Int
      BY <1>3, <3>1 DEF Ring, SlotShape
    <3> QED
      BY <1>1, <1>2, <1>3, <2>3, <3>1, <3>2, <3>3
  <2> QED
    BY <2>1, <2>2, <2>3
<1>6. ScreenInv'
  <2>1. Up'
    BY <1>2, <1>4 DEF Up
  <2>2. ASSUME best # None PROVE screen' = slots[best].picture
    BY <1>1, <2>2 DEF ScreenInv
  <2> QED
    BY <1>1, <1>2, <1>5, <2>1, <2>2 DEF ScreenInv
<1>7. PlaceInv'
  <2>1. ASSUME NEW s \in fresh', slots'[s].state = "READY" PROVE (Placed(slots[s]))'
    <3>1. slots'[s] = slots[s] /\ s \in fresh
      BY <1>1, <1>3, <2>1, FreeSlotShape
    <3> QED
      BY <1>2, <2>1, <3>1 DEF PlaceInv, Placed
  <2>2. ASSUME NEW w \in Workers, Renders(worker'[w]), worker'[w].slot \in fresh'
        PROVE  worker'[w].above = above'
    BY <1>2, <1>3, <1>4, <2>2 DEF PlaceInv
  <2> QED
    BY <2>1, <2>2 DEF PlaceInv
<1> QED
  BY <1>6, <1>7

LEMMA KeepAboveScreen ==
  ASSUME IInv, ScreenInv, PlaceInv, KeepAbove
  PROVE  ScreenInv' /\ PlaceInv'
<1>1. /\ fresh' = {} /\ worker' = Awake(worker)
      /\ UNCHANGED <<slots, playhead, shown, screen>>
  BY DEF KeepAbove
<1>2. Up' <=> Up
  <2>1. \A w \in Workers : worker'[w].at = "none" <=> worker[w].at = "none"
    BY <1>1, WakingHolds
  <2> QED
    BY <2>1 DEF Up
<1>3. ScreenInv'
  BY <1>1, <1>2 DEF ScreenInv
<1>4. PlaceInv'
  BY <1>1 DEF PlaceInv
<1> QED
  BY <1>3, <1>4

LEMMA InitScreen == Init => ScreenInv /\ PlaceInv
BY DEF Init, ScreenInv, PlaceInv

LEMMA ScreenStep ==
  IInv /\ ScreenInv /\ PlaceInv /\ [Next]_vars => ScreenInv' /\ PlaceInv'
<1> SUFFICES ASSUME IInv, ScreenInv, PlaceInv, [Next]_vars
             PROVE  ScreenInv' /\ PlaceInv'
  OBVIOUS
<1> DEFINE Goal == ScreenInv' /\ PlaceInv'
<1>1. ASSUME NEW w \in Workers, WorkerStep(w) PROVE Goal
  BY <1>1, LookScreen, FeedWindowScreen, DrawScreen DEF WorkerStep
<1>2. ASSUME NEW op, NEW id, Stopping(op, id) PROVE Goal
  BY <1>2, WakingScreen DEF Stopping, ringVars, uiVars
<1>3. ASSUME NEW id \in 1..MaxSerial, Open(id) \/ OpenFile(id) \/ CloseTrack(id)
      PROVE  Goal
  BY <1>2, <1>3 DEF Open, OpenFile, CloseTrack
<1>4. ASSUME NEW id \in 1..MaxSerial, OpenFileHeld(id) PROVE Goal
  BY <1>4, WakingScreen DEF OpenFileHeld, ringVars, uiVars
<1>5. CASE Release
  BY <1>2, <1>5 DEF Release
<1>6. CASE Joined
  BY <1>6, ClearedScreen DEF Joined, IInv, ShapeInv
<1>7. CASE Start
  BY <1>7, ClearedScreen DEF Start
<1>8. CASE StartFails \/ InstallBacklog \/ Drop
  BY <1>8, WakingScreen DEF StartFails, InstallBacklog, Drop, ringVars, uiVars
<1>9. CASE InstallScript
  BY <1>9, ScriptScreen
<1>10. ASSUME NEW l \in Lines, Feed(l) PROVE Goal
  BY <1>10, WakingScreen DEF Feed, ringVars, uiVars
<1>11. ASSUME NEW t \in Targets, Frame(t) PROVE Goal
  BY <1>11, FrameScreen
<1>12. CASE FrameClosed
  BY <1>12, WakingScreen DEF FrameClosed, ringVars, ScreenInv
<1>13. CASE KeepAbove
  BY <1>13, KeepAboveScreen
<1>14. CASE UNCHANGED vars
  BY <1>14, WakingScreen DEF vars, ringVars, uiVars
<1> QED
  BY <1>1, <1>3, <1>4, <1>5, <1>6, <1>7, <1>8, <1>9, <1>10, <1>11, <1>12, <1>13, <1>14
     DEF Next, ControlStep

(* What the UI believes is on screen is there: no shortcut it takes over   *)
(* an upload leaves an older picture, or one from the future.              *)
THEOREM ScreensAreShown == Spec => []ScreenIsShown
<1>1. ScreenInv => ScreenIsShown
  BY DEF ScreenInv, ScreenIsShown
<1> QED
  BY <1>1, InitHolds, InitScreen, Step, ScreenStep, PTL DEF Spec

(* At rest, the picture shown is of this generation: its dialogue is where *)
(* the controls want it.                                                   *)
THEOREM PicturesAreInPlace == Spec => []PictureIsInPlace
<1>1. IInv /\ ScreenInv /\ PlaceInv => PictureIsInPlace
  <2> SUFFICES ASSUME IInv, ScreenInv, PlaceInv, AtRest
               PROVE  Placed(slots[shown])
    BY DEF PictureIsInPlace, Placed
  <2>1. shown # None /\ Best(playhead) = shown /\ playhead \in Int
    BY DEF AtRest, IInv, ShapeInv
  <2>2. Best(playhead) \in Finished(playhead) \cup {ShownAfter(playhead)}
    BY <2>1, BestIsFinished
  <2>3. shown \in fresh
    BY <2>1, <2>2 DEF Finished, ShownAfter, FreshAfter
  <2> QED
    BY <2>1, <2>3 DEF ScreenInv, PlaceInv
<1> QED
  BY <1>1, InitHolds, InitScreen, Step, ScreenStep, PTL DEF Spec
=============================================================================
