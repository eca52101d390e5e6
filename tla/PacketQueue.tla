---------------------------- MODULE PacketQueue ----------------------------
(***************************************************************************)
(* jf/packet_queue.c: the blocking hand-off of compressed packets from the *)
(* demuxer (jf/player.c reader) to one feeder thread (the audio thread, or *)
(* the session thread that feeds video).  Each queue has one producer and  *)
(* one consumer; anybody may close it.  The mutex makes each call atomic   *)
(* up to a pthread_cond_wait, so a call is one action, or one that goes to *)
(* sleep and others that try again after a wakeup.                         *)
(***************************************************************************)
EXTENDS Integers, FiniteSets

CONSTANTS Slots,        \* JF_QUEUE_SLOTS (512)
          Capacity,     \* JF_QUEUE_CAPACITY_BYTES (8 MiB)
          Sizes,        \* the packet sizes the demuxer can produce
          MaxChunks     \* bound: packets made in one behaviour

ASSUME SlotsAssumption == Slots \in Nat \ {0}
ASSUME CapacityAssumption == Capacity \in Nat \ {0}
ASSUME SizesAssumption == Sizes \subseteq Nat
ASSUME MaxChunksAssumption == MaxChunks \in Nat

VARIABLES slots, head, tail, count, bytes, closed,  \* jf_queue
          producer,   \* where the producer is in jf_queue_push
          chunk,      \* the packet the producer last made
          consumer,   \* where the consumer is in jf_queue_pop
          sent,       \* history: bytes accepted since the last reset
          received,   \* history: bytes popped since the last reset
          delivered,  \* history: packets the consumer was handed
          freed       \* history: packets the queue freed

ring == <<slots, head, tail, count, bytes, closed>>
history == <<sent, received, delivered, freed>>
vars == <<ring, producer, chunk, consumer, history>>

(* jf_chunk.  `id` numbers the packets in the order they were made, and    *)
(* `before` is history: the bytes accepted ahead of this one.              *)
Chunk == [id: Nat, size: Nat, before: Nat]
NoChunk == [id |-> 0, size |-> 0, before |-> 0]

Places == 0..(Slots - 1)
After(i) == (i + 1) % Slots
(* The slot of the i-th oldest packet, counting from 0.                    *)
Place(i) == IF head + i < Slots THEN head + i ELSE head + i - Slots
Queued == {slots[Place(i)].id : i \in 0..(count - 1)}

(* "running" is outside the call or inside it with the mutex; "asleep" is  *)
(* in pthread_cond_wait; "awake" has been signalled and wants the mutex.   *)
Phases == {"running", "asleep", "awake", "joined"}

Init ==
  /\ slots = [i \in Places |-> NoChunk]
  /\ head = 0 /\ tail = 0 /\ count = 0 /\ bytes = 0
  /\ closed = FALSE
  /\ producer = "running" /\ consumer = "running"
  /\ chunk = NoChunk
  /\ sent = 0 /\ received = 0
  /\ delivered = {} /\ freed = {}

(* Mutant: no signal, on no condition.                                     *)
WokenByNobody(phase) == phase

(* One sleeper at most waits on each condition, so a signal and a          *)
(* broadcast do the same.                                                  *)
Woken(phase) == IF phase = "asleep" THEN "awake" ELSE phase

(* Mutant: the budget compared before the packet is added to it.           *)
NoRoomAsItIs(size) == count = Slots \/ bytes > Capacity

(* The condition jf_queue_push waits on, for a packet of `size` bytes.     *)
NoRoom(size) == \/ count = Slots
                \/ bytes # 0 /\ bytes + size > Capacity

(* The locked body of jf_queue_push: refuse and free, sleep, or enqueue.   *)
PushBody(c) ==
  \/ /\ closed
     /\ freed' = freed \cup {c.id}
     /\ producer' = "joined"         \* the reader ends on the first refusal
     /\ UNCHANGED <<ring, consumer, sent, received, delivered>>
  \/ /\ ~closed /\ NoRoom(c.size)
     /\ producer' = "asleep"
     /\ UNCHANGED <<ring, consumer, history>>
  \/ /\ ~closed /\ ~NoRoom(c.size)
     /\ slots' = [slots EXCEPT ![tail] = c]
     /\ tail' = After(tail)
     /\ count' = count + 1
     /\ bytes' = bytes + c.size
     /\ sent' = sent + c.size
     /\ producer' = "running"
     /\ consumer' = Woken(consumer)
     /\ UNCHANGED <<head, closed, received, delivered, freed>>

Push(size) ==
  /\ producer = "running"
  /\ chunk.id < MaxChunks
  /\ chunk' = [id |-> chunk.id + 1, size |-> size, before |-> sent]
  /\ PushBody(chunk')

PushAgain ==
  /\ producer = "awake"
  /\ PushBody(chunk)
  /\ UNCHANGED chunk

(* POSIX lets a wait return unsignalled; the loops are there for it.       *)
SpuriousWake ==
  /\ \/ /\ producer = "asleep" /\ producer' = "awake"
        /\ UNCHANGED consumer
     \/ /\ consumer = "asleep" /\ consumer' = "awake"
        /\ UNCHANGED producer
  /\ UNCHANGED <<ring, chunk, history>>

PopBody ==
  \/ /\ count = 0 /\ ~closed
     /\ consumer' = "asleep"
     /\ UNCHANGED <<ring, producer, history>>
  \/ /\ count = 0 /\ closed
     /\ consumer' = "joined"         \* both feeders end on a false pop
     /\ UNCHANGED <<ring, producer, history>>
  \/ /\ count > 0
     /\ head' = After(head)
     /\ count' = count - 1
     /\ bytes' = bytes - slots[head].size
     /\ received' = received + slots[head].size
     /\ delivered' = delivered \cup {slots[head].id}
     /\ producer' = Woken(producer)
     /\ consumer' = "running"
     /\ UNCHANGED <<slots, tail, closed, sent, freed>>

Pop ==
  /\ consumer \in {"running", "awake"}
  /\ PopBody
  /\ UNCHANGED chunk

(* Mutant: closed without a broadcast.                                     *)
CloseQuietly == ~closed /\ closed' = TRUE
                /\ UNCHANGED <<slots, head, tail, count, bytes, chunk, producer, consumer, history>>

(* The reader closes both queues when it ends (player.c), and so does      *)
(* interrupt_segment_locked from another thread.                           *)
Close ==
  /\ ~closed
  /\ closed' = TRUE
  /\ producer' = Woken(producer)
  /\ consumer' = Woken(consumer)
  /\ UNCHANGED <<slots, head, tail, count, bytes, chunk, history>>

ReaderEnds ==
  /\ producer = "running" /\ closed
  /\ producer' = "joined"
  /\ UNCHANGED <<ring, chunk, consumer, history>>

(* A feeder that fails leaves without closing its queue.                   *)
FeederGivesUp ==
  /\ consumer = "running"
  /\ consumer' = "joined"
  /\ UNCHANGED <<ring, producer, chunk, history>>

(* Mutants: the byte count survives a reset; the packets left in the queue *)
(* are forgotten.                                                          *)
ResetBut(bytesAfter, freedAfter) ==
  /\ producer = "joined" /\ consumer = "joined"
  /\ head' = 0 /\ tail' = 0 /\ count' = 0 /\ bytes' = bytesAfter
  /\ closed' = FALSE /\ sent' = 0 /\ received' = 0 /\ freed' = freedAfter
  /\ producer' = "running" /\ consumer' = "running"
  /\ UNCHANGED <<slots, chunk, delivered>>
ResetKeepsBytes == ResetBut(bytes, freed \cup Queued)
ResetLeaks == ResetBut(0, freed)

(* jf_queue_reset and the two threads of the next segment.                 *)
Reset ==
  /\ producer = "joined" /\ consumer = "joined"
  /\ freed' = freed \cup Queued
  /\ head' = 0 /\ tail' = 0 /\ count' = 0 /\ bytes' = 0
  /\ closed' = FALSE
  /\ sent' = 0 /\ received' = 0
  /\ producer' = "running" /\ consumer' = "running"
  /\ UNCHANGED <<slots, chunk, delivered>>

Next ==
  \/ \E size \in Sizes: Push(size)
  \/ PushAgain \/ SpuriousWake \/ Pop
  \/ Close \/ ReaderEnds \/ FeederGivesUp \/ Reset

Spec == Init /\ [][Next]_vars

(* A thread that is awake and can have the mutex takes it; the reader that *)
(* finds its queue closed ends.                                            *)
Fairness == WF_vars(PushAgain) /\ WF_vars(Pop) /\ WF_vars(ReaderEnds)
FairSpec == Spec /\ Fairness

-----------------------------------------------------------------------------
(* Every variable has its type.                                            *)
TypeOK ==
  /\ slots \in [Places -> Chunk]
  /\ head \in Places /\ tail \in Places
  /\ count \in 0..Slots
  /\ bytes \in Nat
  /\ closed \in BOOLEAN
  /\ producer \in Phases /\ consumer \in Phases
  /\ chunk \in Chunk
  /\ sent \in Nat /\ received \in Nat
  /\ delivered \subseteq Nat /\ freed \subseteq Nat

(* The byte count is what the queued packets hold: what went in less what  *)
(* came out, and never less than the packet a pop is about to subtract, so *)
(* the size_t in jf_queue_pop never wraps (packet_queue.c:70).             *)
BytesAreExact ==
  /\ bytes = sent - received
  /\ count > 0 => slots[head].size <= bytes

(* Read-ahead is bounded: the queue exceeds its byte budget only by one    *)
(* oversized packet that found it empty of bytes (packet_queue.c:40-43).   *)
ReadAheadBounded ==
  bytes > Capacity =>
    \E i \in 0..(count - 1): slots[Place(i)].size = bytes

(* However packets of any size come, go, wait, are refused or are left     *)
(* behind at a reset, the count is exact and the budget kept.              *)
BudgetIsKept == BytesAreExact /\ ReadAheadBounded

(* No wakeup is lost: a producer that sleeps still has no room, and a      *)
(* consumer that sleeps still has nothing to take; neither sleeps on a     *)
(* closed queue, which is what lets a stop join both threads.              *)
NoLostWakeup ==
  /\ producer = "asleep" => ~closed /\ NoRoom(chunk.size)
  /\ consumer = "asleep" => ~closed /\ count = 0

(* Every packet has one owner: it is in the hand of a producer still       *)
(* inside jf_queue_push, in a slot, with the consumer, or freed, and never *)
(* in two of them (packet_queue.h:34).                                     *)
Hand == IF producer \in {"asleep", "awake"} THEN {chunk.id} ELSE {}
OneOwner ==
  /\ Hand \cup Queued \cup delivered \cup freed = 1..chunk.id
  /\ Hand \cap (Queued \cup delivered \cup freed) = {}
  /\ Queued \cap (delivered \cup freed) = {}
  /\ delivered \cap freed = {}

(* The ring, its mutex and its waits are the channel of packet_queue.h: no *)
(* packet is lost, freed twice or handed on out of turn, none is accepted  *)
(* after a close, and what was queued before it can still be popped.       *)
Ideal == INSTANCE Channel WITH made <- chunk.id, hand <- Hand, inside <- Queued,
                               taken <- delivered, dropped <- freed, open <- ~closed
ImplementsChannel == Ideal!Spec

(* Closing ends both threads, however full or empty the queue was.         *)
CloseEndsBoth == closed ~> (producer = "joined" /\ consumer = "joined")
=============================================================================
