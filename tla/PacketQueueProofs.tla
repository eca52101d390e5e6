------------------------- MODULE PacketQueueProofs -------------------------
(***************************************************************************)
(* The packet queue's invariants for every number of slots, every budget   *)
(* and every size of packet: its variables keep their types (so the byte   *)
(* count never goes below zero), its count of bytes is exact, its          *)
(* read-ahead is bounded, and no thread sleeps on what has already         *)
(* happened.  It implements the channel of Channel.tla, and what the       *)
(* channel promises therefore holds of the queue: every packet has one     *)
(* owner, and packets leave in the order they were made.                   *)
(***************************************************************************)
EXTENDS PacketQueue, TLAPS

(* The places from the oldest packet's on, and the packets in them.        *)
Spots == [i \in 0..Slots |-> Place(i)]
Line == [i \in 0..(Slots - 1) |-> slots[Spots[i]]]

(* The ring is a stretch of `count` slots from `head` to `tail`.           *)
RingInv == tail = Spots[count]

(* The byte offsets of the queued packets partition received..sent: each   *)
(* begins where the one before it ends.  This is what makes the byte count *)
(* inductive: a pop subtracts the very bytes between the first offset and  *)
(* the second.                                                             *)
OffsetInv ==
  /\ bytes = sent - received
  /\ count = 0 => sent = received
  /\ count > 0 => Line[0].before = received
  /\ count > 0 => Line[count - 1].before + Line[count - 1].size = sent
  /\ \A i \in 0..(count - 1): Line[i].before + Line[i].size <= sent
  /\ \A i \in 0..(count - 2): Line[i + 1].before = Line[i].before + Line[i].size
  /\ \A i, j \in 0..(count - 1): i < j => Line[i].before + Line[i].size <= Line[j].before
  /\ producer \in {"asleep", "awake"} => chunk.before = sent

IInv == TypeOK /\ RingInv /\ OffsetInv /\ ReadAheadBounded

-----------------------------------------------------------------------------
(* The ring's arithmetic.                                                  *)

LEMMA AfterIs ==
  ASSUME NEW i \in Places
  PROVE  After(i) = IF i + 1 = Slots THEN 0 ELSE i + 1
BY SlotsAssumption DEF After, Places

LEMMA PlaceType ==
  ASSUME head \in Places, NEW i \in 0..Slots
  PROVE  Place(i) \in Places
BY SlotsAssumption DEF Place, Places

LEMMA PlaceDistinct ==
  ASSUME head \in Places, NEW i \in 0..(Slots - 1), NEW j \in 0..(Slots - 1), i # j
  PROVE  Place(i) # Place(j)
BY SlotsAssumption DEF Place, Places

(* The place after the i-th is the (i+1)-th, and so is the i-th once the   *)
(* head has moved on.                                                      *)
LEMMA SpotsFacts ==
  ASSUME head \in Places
  PROVE  /\ \A i \in 0..Slots: Spots[i] \in Places
         /\ \A i, j \in 0..(Slots - 1): i # j => Spots[i] # Spots[j]
         /\ Spots[0] = head
         /\ \A i \in 0..(Slots - 1): After(Spots[i]) = Spots[i + 1]
         /\ head' = After(head) => \A i \in 0..(Slots - 1): Spots'[i] = Spots[i + 1]
         /\ head' = head => Spots' = Spots
<1>1. \A i \in 0..Slots: Spots[i] = Place(i) /\ Spots[i] \in Places
  BY PlaceType DEF Spots
<1>2. \A i, j \in 0..(Slots - 1): i # j => Spots[i] # Spots[j]
  BY <1>1, PlaceDistinct, SlotsAssumption
<1>3. Spots[0] = head
  BY <1>1, SlotsAssumption DEF Place, Places
<1>4. \A i \in 0..(Slots - 1): After(Spots[i]) = Spots[i + 1]
  <2> SUFFICES ASSUME NEW i \in 0..(Slots - 1) PROVE After(Spots[i]) = Spots[i + 1]
    OBVIOUS
  <2>1. i \in 0..Slots /\ i + 1 \in 0..Slots
    BY SlotsAssumption
  <2>2. Spots[i] = Place(i) /\ Spots[i + 1] = Place(i + 1) /\ Spots[i] \in Places
    BY <1>1, <2>1
  <2> QED
    BY <2>2, AfterIs, SlotsAssumption DEF Place, Places
<1>5. ASSUME head' = After(head), NEW i \in 0..(Slots - 1)
      PROVE  Spots'[i] = Spots[i + 1]
  <2>1. i \in 0..Slots /\ i + 1 \in 0..Slots
    BY SlotsAssumption
  <2>2. Spots'[i] = IF head' + i < Slots THEN head' + i ELSE head' + i - Slots
    BY <2>1 DEF Spots, Place
  <2>3. Spots[i + 1] = Place(i + 1)
    BY <1>1, <2>1
  <2>4. head' = IF head + 1 = Slots THEN 0 ELSE head + 1
    BY <1>5, AfterIs
  <2> QED
    BY <2>2, <2>3, <2>4, SlotsAssumption DEF Place, Places
<1>6. head' = head => Spots' = Spots
  BY DEF Spots, Place
<1> QED
  BY <1>1, <1>2, <1>3, <1>4, <1>5, <1>6

LEMMA LineFacts ==
  /\ \A i \in 0..(Slots - 1): Line[i] = slots[Spots[i]]
  /\ \A i \in 0..(Slots - 1): Line'[i] = slots'[Spots'[i]]
BY DEF Line

LEMMA LineType ==
  ASSUME TypeOK, NEW i \in 0..(count - 1)
  PROVE  /\ i \in 0..(Slots - 1)
         /\ Line[i] \in Chunk
         /\ Line[i].size \in Nat /\ Line[i].before \in Nat /\ Line[i].id \in Nat
<1>1. i \in 0..(Slots - 1) /\ i \in 0..Slots
  BY SlotsAssumption DEF TypeOK
<1>2. Spots[i] \in Places
  BY <1>1, SpotsFacts DEF TypeOK
<1>3. Line[i] \in Chunk
  BY <1>1, <1>2, LineFacts DEF TypeOK
<1> QED
  BY <1>1, <1>3 DEF Chunk

(* The bound on read-ahead, said of the packets in line.                   *)
LEMMA ReadAheadInLine ==
  /\ TypeOK => (ReadAheadBounded <=>
       (bytes > Capacity => \E i \in 0..(count - 1): Line[i].size = bytes))
  /\ count' \in 0..Slots => (ReadAheadBounded' <=>
       (bytes' > Capacity => \E i \in 0..(count' - 1): Line'[i].size = bytes'))
<1>1. ASSUME NEW i \in 0..(Slots - 1)
      PROVE  slots[Place(i)] = Line[i] /\ slots'[Place(i)'] = Line'[i]
  BY SlotsAssumption DEF Line, Spots
<1>2. ASSUME NEW n \in 0..Slots PROVE \A i \in 0..(n - 1): i \in 0..(Slots - 1)
  BY <1>2, SlotsAssumption
<1>3. ASSUME count \in 0..Slots
      PROVE  ReadAheadBounded <=>
               (bytes > Capacity => \E i \in 0..(count - 1): Line[i].size = bytes)
  BY <1>1, <1>2, <1>3 DEF ReadAheadBounded
<1>4. ASSUME count' \in 0..Slots
      PROVE  ReadAheadBounded' <=>
               (bytes' > Capacity => \E i \in 0..(count' - 1): Line'[i].size = bytes')
  BY <1>1, <1>2, <1>4 DEF ReadAheadBounded
<1> QED
  BY <1>3, <1>4 DEF TypeOK

-----------------------------------------------------------------------------
LEMMA InvInit == Init => IInv
<1> SUFFICES ASSUME Init PROVE IInv
  OBVIOUS
<1>1. TypeOK
  <2>1. NoChunk \in Chunk /\ 0 \in Places
    BY SlotsAssumption DEF NoChunk, Chunk, Places
  <2>2. slots \in [Places -> Chunk] /\ chunk \in Chunk
    BY <2>1 DEF Init
  <2>3. head \in Places /\ tail \in Places /\ count \in 0..Slots
    BY <2>1, SlotsAssumption DEF Init
  <2>4. closed \in BOOLEAN /\ producer \in Phases /\ consumer \in Phases
    BY DEF Init, Phases
  <2> QED
    BY <2>2, <2>3, <2>4 DEF Init, TypeOK
<1>2. RingInv
  BY <1>1, SpotsFacts DEF Init, RingInv, TypeOK
<1>3. OffsetInv
  BY DEF Init, OffsetInv
<1>4. ReadAheadBounded
  BY CapacityAssumption DEF Init, ReadAheadBounded
<1> QED
  BY <1>1, <1>2, <1>3, <1>4 DEF IInv

(* A packet enqueued leaves the others where they are.                     *)
LEMMA EnqueueInLine ==
  ASSUME TypeOK, RingInv, NEW c \in Chunk, count < Slots,
         slots' = [slots EXCEPT ![tail] = c], UNCHANGED head
  PROVE  /\ \A i \in 0..(count - 1): Line'[i] = Line[i]
         /\ Line'[count] = c
<1>1. head \in Places /\ count \in 0..(Slots - 1) /\ slots \in [Places -> Chunk]
  BY SlotsAssumption DEF TypeOK
<1>2. Spots' = Spots
  BY <1>1, SpotsFacts
<1>3. ASSUME NEW i \in 0..(count - 1) PROVE Line'[i] = Line[i]
  <2>1. i \in 0..(Slots - 1) /\ i \in 0..Slots /\ i # count
    BY <1>1, SlotsAssumption
  <2>2. Spots[i] \in Places /\ Spots[i] # tail
    BY <1>1, <2>1, SpotsFacts DEF RingInv
  <2> QED
    BY <1>1, <1>2, <2>1, <2>2, LineFacts
<1>4. Line'[count] = c
  <2>1. Spots'[count] = tail /\ tail \in Places
    BY <1>1, <1>2 DEF RingInv, TypeOK
  <2> QED
    BY <1>1, <2>1, LineFacts
<1> QED
  BY <1>3, <1>4

(* A packet dequeued moves the others up by one.                           *)
LEMMA DequeueInLine ==
  ASSUME TypeOK, count > 0, head' = After(head), UNCHANGED slots
  PROVE  /\ \A i \in 0..(count - 2): Line'[i] = Line[i + 1]
         /\ Line[0] = slots[head]
<1>1. head \in Places /\ count \in 0..Slots
  BY DEF TypeOK
<1>2. ASSUME NEW i \in 0..(count - 2) PROVE Line'[i] = Line[i + 1]
  <2>1. i \in 0..(Slots - 1) /\ i + 1 \in 0..(Slots - 1)
    BY <1>1, SlotsAssumption
  <2>2. Spots'[i] = Spots[i + 1]
    BY <1>1, <2>1, SpotsFacts
  <2> QED
    BY <2>1, <2>2, LineFacts
<1>3. Line[0] = slots[head]
  BY <1>1, SpotsFacts, LineFacts, SlotsAssumption
<1> QED
  BY <1>2, <1>3

(* jf_queue_push's locked body, for a packet that was made when `sent`     *)
(* bytes had been accepted.                                                *)
LEMMA PushInv ==
  ASSUME IInv, NEW c \in Chunk, c.before = sent, chunk' = c, PushBody(c)
  PROVE  IInv'
<1> USE DEF IInv
<1>0. c.size \in Nat /\ c.id \in Nat /\ sent \in Nat /\ bytes \in Nat
  BY DEF TypeOK, Chunk
<1>1. CASE UNCHANGED <<ring, sent, received>>
  <2>1. TypeOK'
    BY <1>0, <1>1 DEF PushBody, TypeOK, ring, history, Phases, Woken
  <2>2. Line' = Line /\ Spots' = Spots
    BY <1>1 DEF Line, Spots, Place, ring
  <2>3. count \in 0..Slots /\ UNCHANGED <<head, tail, count, bytes, sent, received>>
    BY <1>1 DEF TypeOK, ring
  <2>4. RingInv'
    BY <2>2, <2>3 DEF RingInv
  <2>5. OffsetInv'
    BY <2>2, <2>3 DEF OffsetInv
  <2>6. ReadAheadBounded'
    BY <1>1 DEF ReadAheadBounded, Place, ring
  <2> QED
    BY <2>1, <2>4, <2>5, <2>6
<1>2. CASE ~closed /\ ~NoRoom(c.size) /\ ~UNCHANGED <<ring, sent, received>>
  <2>1. /\ slots' = [slots EXCEPT ![tail] = c] /\ tail' = After(tail)
        /\ count' = count + 1 /\ bytes' = bytes + c.size /\ sent' = sent + c.size
        /\ producer' = "running" /\ consumer' = Woken(consumer)
        /\ UNCHANGED <<head, closed, received, delivered, freed>>
    BY <1>2 DEF PushBody, ring, history
  <2>2. count \in 0..(Slots - 1) /\ head \in Places /\ tail \in Places
    BY <1>2, SlotsAssumption DEF NoRoom, TypeOK
  <2>3. TypeOK'
    <3>1. tail' \in Places
      BY <2>1, <2>2, AfterIs, SlotsAssumption DEF Places
    <3>2. slots' \in [Places -> Chunk] /\ chunk' \in Chunk
      BY <2>1, <2>2 DEF TypeOK
    <3>3. count' \in 0..Slots /\ bytes' \in Nat /\ sent' \in Nat /\ received' \in Nat
      BY <1>0, <2>1, <2>2, SlotsAssumption DEF TypeOK
    <3>4. /\ closed' \in BOOLEAN /\ head' \in Places
          /\ delivered' \subseteq Nat /\ freed' \subseteq Nat
      BY <2>1 DEF TypeOK
    <3>5. producer' \in Phases /\ consumer' \in Phases
      BY <2>1 DEF TypeOK, Phases, Woken
    <3> QED
      BY <3>1, <3>2, <3>3, <3>4, <3>5 DEF TypeOK
  <2>4. /\ \A i \in 0..(count - 1): Line'[i] = Line[i]
        /\ Line'[count] = c
    <3>1. count < Slots /\ UNCHANGED head
      BY <2>1, <2>2, SlotsAssumption
    <3>2. slots' = [slots EXCEPT ![tail] = c]
      BY <2>1
    <3> QED
      BY <3>1, <3>2, EnqueueInLine
  <2>5. RingInv'
    <3>1. Spots' = Spots /\ After(Spots[count]) = Spots[count + 1]
      BY <2>1, <2>2, SpotsFacts
    <3> QED
      BY <2>1, <3>1 DEF RingInv
  <2>6. \A i \in 0..(count - 1): Line[i].size \in Nat /\ Line[i].before \in Nat
    BY LineType
  <2>7. OffsetInv'
    <3>1. bytes' = sent' - received' /\ (count' = 0 => sent' = received')
      BY <1>0, <2>1, <2>2 DEF OffsetInv, TypeOK
    <3>2. Line'[0].before = received'
      BY <1>0, <2>1, <2>2, <2>4 DEF OffsetInv, TypeOK
    <3>3. Line'[count' - 1] = c /\ c.before + c.size = sent'
      BY <1>0, <2>1, <2>2, <2>4
    <3>4. \A i \in 0..(count' - 1): Line'[i].before + Line'[i].size <= sent'
      BY <1>0, <2>1, <2>2, <2>4, <2>6 DEF OffsetInv
    <3>5. \A i \in 0..(count' - 2): Line'[i + 1].before = Line'[i].before + Line'[i].size
      <4> SUFFICES ASSUME NEW i \in 0..(count' - 2)
                   PROVE  Line'[i + 1].before = Line'[i].before + Line'[i].size
        OBVIOUS
      <4>1. i \in 0..(count - 1) /\ Line'[i] = Line[i]
        BY <2>1, <2>2, <2>4
      <4>2. CASE i = count - 1
        BY <4>1, <4>2, <2>2, <2>4 DEF OffsetInv
      <4>3. CASE i # count - 1
        BY <4>1, <4>3, <2>2, <2>4 DEF OffsetInv
      <4> QED
        BY <4>2, <4>3
    <3>6. \A i, j \in 0..(count' - 1):
            i < j => Line'[i].before + Line'[i].size <= Line'[j].before
      <4> SUFFICES ASSUME NEW i \in 0..(count' - 1), NEW j \in 0..(count' - 1), i < j
                   PROVE  Line'[i].before + Line'[i].size <= Line'[j].before
        OBVIOUS
      <4>1. i \in 0..(count - 1) /\ Line'[i] = Line[i]
        BY <2>1, <2>2, <2>4
      <4>2. CASE j = count
        BY <4>1, <4>2, <2>4 DEF OffsetInv
      <4>3. CASE j # count
        BY <4>1, <4>3, <2>1, <2>2, <2>4 DEF OffsetInv
      <4> QED
        BY <4>2, <4>3
    <3> QED
      BY <2>1, <2>2, <3>1, <3>2, <3>3, <3>4, <3>5, <3>6 DEF OffsetInv
  <2>8. ReadAheadBounded'
    <3> SUFFICES ASSUME bytes' > Capacity
                 PROVE  \E i \in 0..(count' - 1): Line'[i].size = bytes'
      BY <2>3, ReadAheadInLine DEF TypeOK
    <3>1. bytes = 0
      BY <1>0, <1>2, <2>1, CapacityAssumption DEF NoRoom
    <3> QED
      BY <1>0, <2>1, <2>2, <2>4, <3>1
  <2> QED
    BY <2>3, <2>5, <2>7, <2>8
<1> QED
  BY <1>1, <1>2 DEF PushBody, ring, history

(* jf_queue_pop's locked body.                                             *)
LEMMA PopInv == ASSUME IInv, PopBody, UNCHANGED chunk PROVE IInv'
<1> USE DEF IInv
<1>1. CASE count = 0
  <2>1. UNCHANGED <<ring, producer, history>> /\ consumer' \in Phases
    BY <1>1 DEF PopBody, Phases, TypeOK
  <2>2. TypeOK'
    BY <2>1 DEF TypeOK, ring, history
  <2>3. Line' = Line /\ Spots' = Spots
    BY <2>1 DEF Line, Spots, Place, ring
  <2>4. UNCHANGED <<tail, count, bytes, sent, received, producer>>
    BY <2>1 DEF ring, history
  <2>5. RingInv' /\ OffsetInv'
    BY <2>3, <2>4 DEF RingInv, OffsetInv
  <2>6. ReadAheadBounded'
    BY <2>2, <2>3, <2>4, ReadAheadInLine DEF TypeOK
  <2> QED
    BY <2>2, <2>5, <2>6
<1>2. CASE count # 0
  <2>1. /\ head' = After(head) /\ count' = count - 1
        /\ bytes' = bytes - slots[head].size
        /\ received' = received + slots[head].size
        /\ delivered' = delivered \cup {slots[head].id}
        /\ producer' = Woken(producer) /\ consumer' = "running"
        /\ UNCHANGED <<slots, tail, closed, sent, freed>>
    BY <1>2 DEF PopBody
  <2>2. count \in 1..Slots /\ head \in Places
    BY <1>2, SlotsAssumption DEF TypeOK
  <2>3. /\ \A i \in 0..(count - 2): Line'[i] = Line[i + 1]
        /\ Line[0] = slots[head]
    BY <2>1, <2>2, DequeueInLine
  <2>4. \A i \in 0..(count - 1): Line[i].size \in Nat /\ Line[i].before \in Nat
    BY LineType
  <2>5. /\ Line[0].size \in Nat /\ Line[0].before \in Nat /\ Line[0].id \in Nat
        /\ Line[0].before = received
        /\ received \in Nat /\ sent \in Nat /\ bytes = sent - received
        /\ Line[0].before + Line[0].size <= sent
    BY <2>2, LineType DEF OffsetInv, TypeOK
  <2>6. bytes' = sent' - received' /\ received' = received + Line[0].size /\ bytes' \in Nat
    BY <2>1, <2>3, <2>5
  <2>7. TypeOK'
    <3>1. head' \in Places /\ tail' \in Places
      BY <2>1, <2>2, AfterIs, SlotsAssumption DEF Places, TypeOK
    <3>2. count' \in 0..Slots /\ received' \in Nat
      BY <2>1, <2>2, <2>5, <2>6, SlotsAssumption
    <3>3. producer' \in Phases /\ consumer' \in Phases
      BY <2>1 DEF TypeOK, Phases, Woken
    <3>4. delivered' \subseteq Nat /\ freed' \subseteq Nat
      BY <2>1, <2>3, <2>5 DEF TypeOK
    <3>5. slots' \in [Places -> Chunk] /\ chunk' \in Chunk
      BY <2>1 DEF TypeOK
    <3>6. closed' \in BOOLEAN /\ sent' \in Nat
      BY <2>1 DEF TypeOK
    <3> QED
      BY <2>6, <3>1, <3>2, <3>3, <3>4, <3>5, <3>6 DEF TypeOK
  <2>8. RingInv'
    <3>1. Spots'[count - 1] = Spots[count]
      BY <2>1, <2>2, SpotsFacts, SlotsAssumption
    <3> QED
      BY <2>1, <3>1 DEF RingInv
  <2>9. OffsetInv'
    <3>1. count' = 0 => sent' = received'
      BY <2>1, <2>2, <2>5, <2>6 DEF OffsetInv
    <3>2. count' > 0 => Line'[0].before = received'
      BY <2>1, <2>2, <2>3, <2>5, <2>6 DEF OffsetInv
    <3>3. count' > 0 => Line'[count' - 1].before + Line'[count' - 1].size = sent'
      BY <2>1, <2>2, <2>3 DEF OffsetInv
    <3>4. \A i \in 0..(count' - 1): Line'[i].before + Line'[i].size <= sent'
      BY <2>1, <2>2, <2>3 DEF OffsetInv
    <3>5. \A i \in 0..(count' - 2): Line'[i + 1].before = Line'[i].before + Line'[i].size
      BY <2>1, <2>2, <2>3 DEF OffsetInv
    <3>6. \A i, j \in 0..(count' - 1):
            i < j => Line'[i].before + Line'[i].size <= Line'[j].before
      BY <2>1, <2>2, <2>3 DEF OffsetInv
    <3>7. producer' \in {"asleep", "awake"} => chunk'.before = sent'
      BY <2>1 DEF OffsetInv, Woken
    <3> QED
      BY <2>6, <3>1, <3>2, <3>3, <3>4, <3>5, <3>6, <3>7 DEF OffsetInv
  <2>10. ReadAheadBounded'
    <3> SUFFICES ASSUME bytes' > Capacity
                 PROVE  \E i \in 0..(count' - 1): Line'[i].size = bytes'
      BY <2>7, ReadAheadInLine DEF TypeOK
    <3>1. bytes > Capacity
      BY <2>1, <2>3, <2>5, CapacityAssumption
    <3>2. PICK i \in 0..(count - 1): Line[i].size = bytes
      BY <3>1, ReadAheadInLine
    <3>3. CASE i = 0
      BY <2>1, <2>3, <2>5, <3>2, <3>3, CapacityAssumption
    <3>4. CASE i # 0
      <4>1. Line[0].before + Line[0].size <= Line[i].before
        BY <2>2, <3>2, <3>4 DEF OffsetInv
      <4>2. Line[i].before + Line[i].size <= sent
        BY <3>2 DEF OffsetInv
      <4>3. Line[0].size = 0
        BY <2>4, <2>5, <3>2, <4>1, <4>2
      <4>4. i - 1 \in 0..(count' - 1) /\ Line'[i - 1] = Line[i]
        BY <2>1, <2>2, <2>3, <3>4
      <4> QED
        BY <2>1, <2>3, <2>5, <3>2, <4>3, <4>4
    <3> QED
      BY <3>3, <3>4
  <2> QED
    BY <2>7, <2>8, <2>9, <2>10
<1> QED
  BY <1>1, <1>2

(* The steps that leave the ring alone or empty it.                        *)
LEMMA OtherInv ==
  ASSUME IInv, SpuriousWake \/ Close \/ ReaderEnds \/ FeederGivesUp \/ Reset \/ UNCHANGED vars
  PROVE  IInv'
<1> USE DEF IInv
<1>1. CASE Reset
  <2>1. /\ head' = 0 /\ tail' = 0 /\ count' = 0 /\ bytes' = 0 /\ closed' = FALSE
        /\ sent' = 0 /\ received' = 0 /\ producer' = "running" /\ consumer' = "running"
        /\ freed' = freed \cup Queued /\ UNCHANGED <<slots, chunk, delivered>>
    BY <1>1 DEF Reset
  <2>2. Queued \subseteq Nat
    <3> SUFFICES ASSUME NEW i \in 0..(count - 1) PROVE slots[Place(i)].id \in Nat
      BY DEF Queued
    <3>1. i \in 0..Slots
      BY SlotsAssumption DEF TypeOK
    <3>2. Place(i) \in Places
      BY <3>1, PlaceType DEF TypeOK
    <3> QED
      BY <3>2 DEF TypeOK, Chunk
  <2>3. TypeOK'
    <3>1. 0 \in Places /\ 0 \in 0..Slots
      BY SlotsAssumption DEF Places
    <3>2. freed' \subseteq Nat /\ delivered' \subseteq Nat
      BY <2>1, <2>2 DEF TypeOK
    <3>3. slots' \in [Places -> Chunk] /\ chunk' \in Chunk
      BY <2>1 DEF TypeOK
    <3>4. closed' \in BOOLEAN /\ producer' \in Phases /\ consumer' \in Phases
      BY <2>1 DEF Phases
    <3> QED
      BY <2>1, <3>1, <3>2, <3>3, <3>4 DEF TypeOK
  <2>4. RingInv'
    <3>1. Spots'[0] = Place(0)'
      BY SlotsAssumption DEF Spots
    <3>2. Place(0)' = 0
      BY <2>1, SlotsAssumption DEF Place
    <3> QED
      BY <2>1, <3>1, <3>2 DEF RingInv
  <2>5. OffsetInv'
    BY <2>1 DEF OffsetInv
  <2>6. ReadAheadBounded'
    BY <2>1, CapacityAssumption DEF ReadAheadBounded
  <2> QED
    BY <2>3, <2>4, <2>5, <2>6
<1>2. CASE SpuriousWake \/ Close \/ ReaderEnds \/ FeederGivesUp \/ UNCHANGED vars
  <2>1. /\ UNCHANGED <<slots, head, tail, count, bytes, chunk, history>>
        /\ closed' \in BOOLEAN /\ producer' \in Phases /\ consumer' \in Phases
    BY <1>2 DEF SpuriousWake, Close, ReaderEnds, FeederGivesUp, vars, ring, history,
                TypeOK, Phases, Woken
  <2>2. producer' \in {"asleep", "awake"} => producer \in {"asleep", "awake"}
    BY <1>2 DEF SpuriousWake, Close, ReaderEnds, FeederGivesUp, vars, Woken
  <2>3. TypeOK'
    BY <2>1 DEF TypeOK, history
  <2>4. Line' = Line /\ Spots' = Spots
    BY <2>1 DEF Line, Spots, Place
  <2>5. UNCHANGED <<tail, count, bytes, chunk, sent, received>>
    BY <2>1 DEF history
  <2>6. RingInv' /\ OffsetInv'
    BY <2>2, <2>4, <2>5 DEF RingInv, OffsetInv
  <2>7. ReadAheadBounded'
    BY <2>3, <2>4, <2>5, ReadAheadInLine DEF TypeOK
  <2> QED
    BY <2>3, <2>6, <2>7
<1> QED
  BY <1>1, <1>2

LEMMA InvStep == IInv /\ [Next]_vars => IInv'
<1> SUFFICES ASSUME IInv, [Next]_vars PROVE IInv'
  OBVIOUS
<1>1. ASSUME NEW size \in Sizes, Push(size) PROVE IInv'
  <2>1. chunk' = [id |-> chunk.id + 1, size |-> size, before |-> sent]
    BY <1>1 DEF Push
  <2>2. chunk' \in Chunk /\ chunk'.before = sent
    BY <2>1, SizesAssumption DEF IInv, TypeOK, Chunk
  <2> QED
    BY <1>1, <2>2, PushInv DEF Push
<1>2. CASE PushAgain
  BY <1>2, PushInv DEF PushAgain, IInv, TypeOK, OffsetInv
<1>3. CASE Pop
  BY <1>3, PopInv DEF Pop
<1> QED
  BY <1>1, <1>2, <1>3, OtherInv DEF Next

LEMMA InvHolds == Spec => []IInv
BY InvInit, InvStep, PTL DEF Spec

-----------------------------------------------------------------------------
(* The queue's variables keep their types; that `bytes` stays in Nat says  *)
(* that the subtraction in jf_queue_pop never wraps.                       *)
THEOREM QueueTypeCorrect == Spec => []TypeOK
BY InvHolds, PTL DEF IInv

(* The count of bytes is what went in less what came out.                  *)
THEOREM BytesExact == Spec => []BytesAreExact
<1>1. IInv => BytesAreExact
  <2> SUFFICES ASSUME IInv, count > 0 PROVE slots[head].size <= bytes
    BY DEF BytesAreExact, IInv, OffsetInv
  <2>1. 0 \in 0..(count - 1) /\ head \in Places
    BY DEF IInv, TypeOK
  <2>2. Line[0] = slots[head]
    BY <2>1, SpotsFacts, LineFacts, SlotsAssumption
  <2>3. Line[0].size \in Nat /\ Line[0].before \in Nat
    BY <2>1, LineType DEF IInv
  <2> QED
    BY <2>1, <2>2, <2>3 DEF IInv, OffsetInv, TypeOK
<1> QED
  BY <1>1, InvHolds, PTL

(* The queue is over its budget only by a packet that found it empty.      *)
THEOREM ReadAheadIsBounded == Spec => []ReadAheadBounded
BY InvHolds, PTL DEF IInv

(* The count is exact and the budget kept.                                 *)
THEOREM BudgetHolds == Spec => []BudgetIsKept
BY BytesExact, ReadAheadIsBounded, PTL DEF BudgetIsKept

(* A thread that sleeps has what it waits for still to come.               *)
THEOREM NoWakeupIsLost == Spec => []NoLostWakeup
<1>1. Init => NoLostWakeup
  BY DEF Init, NoLostWakeup
<1>2. ASSUME IInv, NoLostWakeup, [Next]_vars PROVE NoLostWakeup'
  <2>1. ASSUME NEW size \in Sizes, Push(size) PROVE NoLostWakeup'
    BY <1>2, <2>1 DEF Push, PushBody, NoLostWakeup, NoRoom, Woken, ring, history, IInv, TypeOK
  <2>2. CASE PushAgain
    BY <1>2, <2>2 DEF PushAgain, PushBody, NoLostWakeup, NoRoom, Woken, ring, history
  <2>3. CASE Pop
    BY <1>2, <2>3 DEF Pop, PopBody, NoLostWakeup, NoRoom, Woken, ring, history
  <2>4. CASE SpuriousWake \/ Close \/ ReaderEnds \/ FeederGivesUp \/ Reset \/ UNCHANGED vars
    BY <1>2, <2>4 DEF SpuriousWake, Close, ReaderEnds, FeederGivesUp, Reset, vars, NoLostWakeup,
                      NoRoom, Woken, ring, history
  <2> QED
    BY <1>2, <2>1, <2>2, <2>3, <2>4 DEF Next
<1> QED
  BY <1>1, <1>2, InvHolds, PTL DEF Spec

-----------------------------------------------------------------------------
(* The queue as a channel.                                                 *)

(* Packets stand in line in the order they were made, ahead of the one the *)
(* producer holds.  This is why the head of the ring is the oldest.  The   *)
(* reader leaves a closed queue only, so that only such a one is reset.    *)
OrderInv ==
  /\ producer = "joined" => closed
  /\ \A i \in 0..(count - 1): Line[i].id <= chunk.id
  /\ Hand # {} => \A i \in 0..(count - 1): Line[i].id < chunk.id
  /\ \A i, j \in 0..(count - 1): i < j => Line[i].id < Line[j].id

LEMMA QueuedIsLine ==
  /\ TypeOK => Queued = {Line[i].id : i \in 0..(count - 1)}
  /\ TypeOK' => Queued' = {Line'[i].id : i \in 0..(count' - 1)}
<1>1. ASSUME NEW i \in 0..(Slots - 1)
      PROVE  slots[Place(i)] = Line[i] /\ slots'[Place(i)'] = Line'[i]
  BY SlotsAssumption DEF Line, Spots
<1>2. ASSUME NEW n \in 0..Slots PROVE \A i \in 0..(n - 1): i \in 0..(Slots - 1)
  BY <1>2, SlotsAssumption
<1>3. ASSUME TypeOK PROVE Queued = {Line[i].id : i \in 0..(count - 1)}
  <2>1. \A i \in 0..(count - 1): slots[Place(i)] = Line[i]
    BY <1>1, <1>2, <1>3 DEF TypeOK
  <2> QED
    BY <2>1 DEF Queued
<1>4. ASSUME TypeOK' PROVE Queued' = {Line'[i].id : i \in 0..(count' - 1)}
  <2>1. \A i \in 0..(count' - 1): slots'[Place(i)'] = Line'[i]
    BY <1>1, <1>2, <1>4 DEF TypeOK
  <2> QED
    BY <2>1 DEF Queued
<1> QED
  BY <1>3, <1>4

LEMMA OrderInit == Init => OrderInv
BY DEF Init, OrderInv

(* What a push does to the line, for a packet made after those in it.      *)
LEMMA PushOrder ==
  ASSUME IInv, OrderInv, NEW c \in Chunk, c.before = sent, chunk' = c, PushBody(c),
         \A i \in 0..(count - 1): Line[i].id < c.id
  PROVE  /\ OrderInv'
         /\ \/ closed /\ Hand' = {} /\ Queued' = Queued /\ freed' = freed \cup {c.id}
            \/ Hand' = {c.id} /\ UNCHANGED <<Queued, freed>>
            \/ ~closed /\ Hand' = {} /\ Queued' = Queued \cup {c.id} /\ UNCHANGED freed
         /\ UNCHANGED <<delivered, closed>>
<1>1. IInv'
  BY PushInv
<1>2. TypeOK /\ TypeOK' /\ RingInv /\ count \in 0..Slots
  BY <1>1 DEF IInv, TypeOK
<1>3. c.id \in Nat /\ \A i \in 0..(count - 1): Line[i].id \in Nat
  BY <1>2, LineType DEF Chunk
<1>4. CASE closed
  <2>1. UNCHANGED <<ring, consumer, sent, received, delivered>> /\ producer' = "joined"
        /\ freed' = freed \cup {c.id}
    BY <1>4 DEF PushBody
  <2>2. Line' = Line /\ Queued' = Queued /\ Hand' = {} /\ count' = count /\ closed'
    BY <1>4, <2>1 DEF Line, Spots, Place, Queued, Hand, ring
  <2>3. OrderInv'
    BY <1>2, <1>3, <2>2 DEF OrderInv
  <2> QED
    BY <1>4, <2>1, <2>2, <2>3 DEF ring
<1>5. CASE ~closed /\ NoRoom(c.size)
  <2>1. UNCHANGED <<ring, consumer, history>> /\ producer' = "asleep"
    BY <1>5 DEF PushBody
  <2>2. Line' = Line /\ Queued' = Queued /\ Hand' = {c.id} /\ count' = count
    BY <2>1 DEF Line, Spots, Place, Queued, Hand, ring
  <2>3. OrderInv'
    BY <1>2, <1>3, <2>1, <2>2 DEF OrderInv
  <2> QED
    BY <2>1, <2>2, <2>3 DEF ring, history
<1>6. CASE ~closed /\ ~NoRoom(c.size)
  <2>1. /\ slots' = [slots EXCEPT ![tail] = c] /\ count' = count + 1
        /\ producer' = "running" /\ UNCHANGED <<head, closed, delivered, freed>>
    BY <1>6 DEF PushBody
  <2>2. count \in 0..(Slots - 1)
    BY <1>2, <1>6, SlotsAssumption DEF NoRoom
  <2>3. /\ \A i \in 0..(count - 1): Line'[i] = Line[i]
        /\ Line'[count] = c
    <3>1. count < Slots /\ UNCHANGED head
      BY <2>1, <2>2, SlotsAssumption
    <3>2. slots' = [slots EXCEPT ![tail] = c]
      BY <2>1
    <3> QED
      BY <1>2, <3>1, <3>2, EnqueueInLine
  <2>4. 0..(count' - 1) = (0..(count - 1)) \cup {count}
    BY <2>1, <2>2
  <2>5. Queued' = Queued \cup {c.id}
    <3>1. Queued = {Line[i].id : i \in 0..(count - 1)}
      BY <1>2, QueuedIsLine
    <3>2. Queued' = {Line'[i].id : i \in (0..(count - 1)) \cup {count}}
      BY <1>2, <2>4, QueuedIsLine
    <3> QED
      BY <2>3, <3>1, <3>2
  <2>6. Hand' = {}
    BY <2>1 DEF Hand
  <2>7. OrderInv'
    <3>1. \A i \in 0..(count' - 1): Line'[i].id <= chunk'.id
      BY <1>2, <1>3, <2>3, <2>4
    <3>2. \A i, j \in 0..(count' - 1): i < j => Line'[i].id < Line'[j].id
      BY <1>2, <1>3, <2>2, <2>3, <2>4 DEF OrderInv
    <3> QED
      BY <2>1, <2>6, <3>1, <3>2 DEF OrderInv
  <2> QED
    BY <1>6, <2>1, <2>5, <2>6, <2>7
<1> QED
  BY <1>4, <1>5, <1>6

(* A pop takes the oldest packet of the line, if there is any.             *)
LEMMA PopOrder ==
  ASSUME IInv, OrderInv, PopBody, UNCHANGED chunk
  PROVE  /\ OrderInv'
         /\ \/ UNCHANGED <<Queued, delivered>>
            \/ \E id \in Queued: /\ \A other \in Queued: id <= other
                                 /\ Queued' = Queued \ {id}
                                 /\ delivered' = delivered \cup {id}
         /\ UNCHANGED <<Hand, freed, closed>>
<1>1. IInv'
  BY PopInv
<1>2. TypeOK /\ TypeOK' /\ count \in 0..Slots
  BY <1>1 DEF IInv, TypeOK
<1>3. CASE count = 0
  <2>1. UNCHANGED <<ring, producer, history>>
    BY <1>3 DEF PopBody
  <2>2. Line' = Line /\ Queued' = Queued /\ Hand' = Hand /\ count' = count
    BY <2>1 DEF Line, Spots, Place, Queued, Hand, ring
  <2> QED
    BY <2>1, <2>2 DEF OrderInv, ring, history
<1>4. CASE count # 0
  <2>1. /\ head' = After(head) /\ count' = count - 1
        /\ delivered' = delivered \cup {slots[head].id}
        /\ producer' = Woken(producer) /\ UNCHANGED <<slots, closed, freed>>
    BY <1>4 DEF PopBody
  <2>2. count \in 1..Slots
    BY <1>2, <1>4, SlotsAssumption
  <2>3. /\ \A i \in 0..(count - 2): Line'[i] = Line[i + 1]
        /\ Line[0] = slots[head]
    BY <1>2, <2>1, <2>2, DequeueInLine
  <2>4. \A i \in 0..(count - 1): Line[i].id \in Nat
    BY <1>2, LineType
  <2>5. Queued = {Line[i].id : i \in 0..(count - 1)}
    BY <1>2, QueuedIsLine
  <2>6. Queued' = {Line[i].id : i \in 1..(count - 1)}
    <3>1. Queued' = {Line'[i].id : i \in 0..(count - 2)}
      BY <1>2, <2>1, <2>2, QueuedIsLine
    <3>2. ASSUME NEW i \in 1..(count - 1) PROVE i - 1 \in 0..(count - 2) /\ Line'[i - 1] = Line[i]
      BY <2>2, <2>3
    <3>3. ASSUME NEW i \in 0..(count - 2) PROVE i + 1 \in 1..(count - 1) /\ Line'[i] = Line[i + 1]
      BY <2>2, <2>3
    <3> QED
      BY <3>1, <3>2, <3>3
  <2>7. Line[0].id \in Queued /\ \A i \in 1..(count - 1): Line[0].id < Line[i].id
    BY <2>2, <2>5 DEF OrderInv
  <2>8. \A other \in Queued: Line[0].id <= other
    BY <2>2, <2>4, <2>5, <2>7
  <2>9. Queued' = Queued \ {Line[0].id}
    <3>1. \A i \in 1..(count - 1): Line[i].id # Line[0].id
      BY <2>2, <2>4, <2>7
    <3>2. 0..(count - 1) = {0} \cup (1..(count - 1))
      BY <2>2
    <3> QED
      BY <2>5, <2>6, <3>1, <3>2
  <2>10. Hand' = Hand /\ chunk' = chunk
    BY <2>1 DEF Hand, Woken
  <2>11. OrderInv'
    <3>1. \A i \in 0..(count' - 1): Line'[i].id <= chunk'.id
      BY <2>1, <2>2, <2>3, <2>10 DEF OrderInv
    <3>2. Hand' # {} => \A i \in 0..(count' - 1): Line'[i].id < chunk'.id
      BY <2>1, <2>2, <2>3, <2>10 DEF OrderInv
    <3>3. \A i, j \in 0..(count' - 1): i < j => Line'[i].id < Line'[j].id
      BY <2>1, <2>2, <2>3 DEF OrderInv
    <3>4. producer' = "joined" => closed'
      BY <2>1 DEF OrderInv, Woken
    <3> QED
      BY <3>1, <3>2, <3>3, <3>4 DEF OrderInv
  <2> QED
    BY <2>1, <2>3, <2>7, <2>8, <2>9, <2>10, <2>11
<1> QED
  BY <1>3, <1>4

(* Every step of the queue is a step of the channel, or none of its own.   *)
LEMMA StepRefines ==
  ASSUME IInv, OrderInv, [Next]_vars
  PROVE  OrderInv' /\ [Ideal!Next]_Ideal!vars
<1>0. chunk \in Chunk /\ chunk.id \in Nat /\ sent \in Nat
  BY DEF IInv, TypeOK, Chunk
<1>1. ASSUME NEW size \in Sizes, Push(size) PROVE OrderInv' /\ Ideal!Offer
  <2>1. chunk' = [id |-> chunk.id + 1, size |-> size, before |-> sent] /\ PushBody(chunk')
        /\ Hand = {}
    BY <1>1 DEF Push, Hand
  <2>2. chunk' \in Chunk /\ chunk'.before = sent /\ chunk'.id = chunk.id + 1
    BY <1>0, <2>1, SizesAssumption DEF Chunk
  <2>3. \A i \in 0..(count - 1): Line[i].id < chunk'.id
    <3>1. \A i \in 0..(count - 1): Line[i].id \in Nat
      BY LineType DEF IInv
    <3> QED
      BY <1>0, <2>2, <3>1 DEF OrderInv
  <2>4. ASSUME NEW c, c = chunk'
        PROVE  /\ OrderInv'
               /\ \/ closed /\ Hand' = {} /\ Queued' = Queued /\ freed' = freed \cup {c.id}
                  \/ Hand' = {c.id} /\ UNCHANGED <<Queued, freed>>
                  \/ ~closed /\ Hand' = {} /\ Queued' = Queued \cup {c.id} /\ UNCHANGED freed
               /\ UNCHANGED <<delivered, closed>>
    BY <2>1, <2>2, <2>3, <2>4, PushOrder
  <2> QED
    BY <2>1, <2>2, <2>4 DEF Ideal!Offer
<1>2. CASE PushAgain
  <2>1. PushBody(chunk) /\ chunk' = chunk /\ Hand = {chunk.id} /\ chunk.before = sent
    BY <1>2 DEF PushAgain, Hand, IInv, OffsetInv
  <2>2. \A i \in 0..(count - 1): Line[i].id < chunk.id
    BY <2>1 DEF OrderInv
  <2>3. /\ OrderInv'
        /\ \/ closed /\ Hand' = {} /\ Queued' = Queued /\ freed' = freed \cup {chunk.id}
           \/ Hand' = {chunk.id} /\ UNCHANGED <<Queued, freed>>
           \/ ~closed /\ Hand' = {} /\ Queued' = Queued \cup {chunk.id} /\ UNCHANGED freed
        /\ UNCHANGED <<delivered, closed>>
    BY <1>0, <2>1, <2>2, PushOrder
  <2> QED
    BY <2>1, <2>3 DEF Ideal!Next, Ideal!Accept, Ideal!Refuse, Ideal!vars
<1>3. CASE Pop
  <2>1. PopBody /\ UNCHANGED chunk
    BY <1>3 DEF Pop
  <2> QED
    BY <2>1, PopOrder DEF Ideal!Next, Ideal!Take, Ideal!vars
<1>4. CASE Reset
  <2>1. Hand = {} /\ Hand' = {} /\ count' = 0 /\ Queued' = {}
    BY <1>4 DEF Reset, Hand, Queued
  <2>2. OrderInv'
    BY <1>4, <2>1 DEF OrderInv, Reset
  <2>3. closed
    BY <1>4 DEF Reset, OrderInv
  <2> QED
    BY <1>4, <2>1, <2>2, <2>3 DEF Reset, Ideal!Next, Ideal!Reopen
<1>5. CASE SpuriousWake \/ Close \/ ReaderEnds \/ FeederGivesUp \/ UNCHANGED vars
  <2>1. UNCHANGED <<slots, head, count, chunk, history>>
        /\ (UNCHANGED closed \/ (~closed /\ closed'))
    BY <1>5 DEF SpuriousWake, Close, ReaderEnds, FeederGivesUp, vars, ring
  <2>2. Hand' = Hand
    BY <1>5 DEF SpuriousWake, Close, ReaderEnds, FeederGivesUp, vars, Hand, Woken
  <2>3. Line' = Line /\ Queued' = Queued
    BY <2>1 DEF Line, Spots, Place, Queued
  <2>4. producer' = "joined" => closed'
    BY <1>5 DEF SpuriousWake, Close, ReaderEnds, FeederGivesUp, vars, ring, OrderInv, Woken
  <2>5. OrderInv'
    BY <2>1, <2>2, <2>3, <2>4 DEF OrderInv
  <2> QED
    BY <2>1, <2>2, <2>3, <2>5 DEF Ideal!Next, Ideal!Shut, Ideal!vars, history
<1> QED
  BY <1>1, <1>2, <1>3, <1>4, <1>5 DEF Next, Ideal!Next

LEMMA BothHold == Spec => [](IInv /\ OrderInv)
<1>1. IInv /\ OrderInv /\ [Next]_vars => (IInv /\ OrderInv)'
  BY StepRefines, InvStep
<1> QED
  BY InvInit, OrderInit, <1>1, PTL DEF Spec

(* The queue of packet_queue.c is the channel packet_queue.h promises.     *)
THEOREM QueueImplementsChannel == Spec => ImplementsChannel
<1>1. Init => Ideal!Init
  BY DEF Init, Ideal!Init, Hand, Queued, NoChunk
<1>2. IInv /\ OrderInv /\ [Next]_vars => [Ideal!Next]_Ideal!vars
  BY StepRefines
<1> QED
  BY <1>1, <1>2, BothHold, PTL DEF Spec, ImplementsChannel, Ideal!Spec

-----------------------------------------------------------------------------
(* What the channel promises, said of the queue.                           *)
Kept ==
  /\ OneOwner
  /\ \A id \in delivered, later \in Queued \cup Hand: id < later
  /\ \A id \in Queued, later \in Hand: id < later

LEMMA KeptStep ==
  ASSUME chunk.id \in Nat, Kept, [Ideal!Next]_Ideal!vars
  PROVE  /\ Kept'
         /\ \A id \in delivered' \ delivered: \A older \in delivered: older < id
<1>0. Ideal!Next \/ UNCHANGED Ideal!vars
  OBVIOUS
<1>1. CASE Ideal!Offer
  <2>1. 1..(chunk.id + 1) = (1..chunk.id) \cup {chunk.id + 1} /\ chunk.id + 1 \notin 1..chunk.id
    OBVIOUS
  <2>2. /\ Hand = {} /\ chunk'.id = chunk.id + 1 /\ delivered' = delivered
        /\ \/ Hand' = {chunk.id + 1} /\ UNCHANGED <<Queued, freed>>
           \/ Queued' = Queued \cup {chunk.id + 1} /\ UNCHANGED <<Hand, freed>>
           \/ freed' = freed \cup {chunk.id + 1} /\ UNCHANGED <<Hand, Queued>>
    BY <1>1 DEF Ideal!Offer
  <2>3. \A id \in delivered \cup Queued: id < chunk.id + 1
    BY DEF Kept, OneOwner
  <2>4. OneOwner'
    BY <2>1, <2>2 DEF Kept, OneOwner
  <2>5. Queued' \cup Hand' \subseteq Queued \cup {chunk.id + 1} /\ (Hand' # {} => Queued' = Queued)
    BY <2>2
  <2> QED
    BY <2>2, <2>3, <2>4, <2>5 DEF Kept
<1>2. CASE Ideal!Accept \/ Ideal!Refuse \/ Ideal!Shut \/ Ideal!Reopen \/ UNCHANGED Ideal!vars
  <2>1. chunk'.id = chunk.id /\ delivered' = delivered
    BY <1>2 DEF Ideal!Accept, Ideal!Refuse, Ideal!Shut, Ideal!Reopen, Ideal!vars
  <2>2. OneOwner'
    BY <1>2, <2>1 DEF Ideal!Accept, Ideal!Refuse, Ideal!Shut, Ideal!Reopen, Ideal!vars, Kept, OneOwner
  <2>3. Queued' \cup Hand' \subseteq Queued \cup Hand
        /\ (Hand' = {} \/ (Hand' = Hand /\ Queued' \subseteq Queued))
    BY <1>2 DEF Ideal!Accept, Ideal!Refuse, Ideal!Shut, Ideal!Reopen, Ideal!vars
  <2> QED
    BY <2>1, <2>2, <2>3 DEF Kept
<1>3. CASE Ideal!Take
  <2>1. PICK packet \in Queued:
          /\ \A other \in Queued: packet <= other
          /\ Queued' = Queued \ {packet}
          /\ delivered' = delivered \cup {packet}
          /\ chunk'.id = chunk.id /\ UNCHANGED <<Hand, freed>>
    BY <1>3 DEF Ideal!Take
  <2>2. OneOwner'
    BY <2>1 DEF Kept, OneOwner
  <2>3. Queued \cup Hand \subseteq Nat
    BY DEF Kept, OneOwner
  <2>4. \A later \in Queued' \cup Hand': packet < later
    BY <2>1, <2>3 DEF Kept
  <2>5. \A older \in delivered: older < packet
    BY <2>1 DEF Kept
  <2>6. \A id \in delivered', later \in Queued' \cup Hand': id < later
    BY <2>1, <2>4 DEF Kept
  <2> QED
    BY <2>1, <2>2, <2>5, <2>6 DEF Kept
<1> QED
  BY <1>0, <1>1, <1>2, <1>3 DEF Ideal!Next

LEMMA KeptInit == Init => Kept
BY DEF Init, Kept, OneOwner, Hand, Queued, NoChunk

LEMMA KeptHolds == Spec => [](Kept /\ IInv /\ OrderInv)
<1>1. IInv => chunk.id \in Nat
  BY DEF IInv, TypeOK, Chunk
<1>2. Kept /\ IInv /\ OrderInv /\ [Next]_vars => Kept'
  BY <1>1, StepRefines, KeptStep
<1> QED
  BY KeptInit, <1>2, BothHold, PTL DEF Spec

(* Every packet has one owner: none is lost, and none freed twice.         *)
THEOREM EveryPacketHasOneOwner == Spec => []OneOwner
BY KeptHolds, PTL DEF Kept

(* Packets leave in the order they were made.                              *)
THEOREM PacketsLeaveInOrder ==
  Spec => [][\A id \in delivered' \ delivered: \A older \in delivered: older < id]_delivered
<1>1. ASSUME Kept, IInv, OrderInv, [Next]_vars
      PROVE  [\A id \in delivered' \ delivered: \A older \in delivered: older < id]_delivered
  <2>1. chunk.id \in Nat
    BY <1>1 DEF IInv, TypeOK, Chunk
  <2> QED
    BY <1>1, <2>1, StepRefines, KeptStep
<1> QED
  BY <1>1, KeptHolds, PTL DEF Spec
=============================================================================
