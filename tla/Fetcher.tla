------------------------------- MODULE Fetcher ------------------------------
(***************************************************************************)
(* jf/api.c's fetcher: a fixed pool of task slots the UI submits to, a     *)
(* queue of the started ones, and the workers that take them off it.  The  *)
(* UI owns a task from submit until release, a worker in between (api.h).  *)
(* Submitting and starting are one step: nobody but the UI sees a reserved *)
(* slot.  What a task asks and what the server answers belongs to the      *)
(* modules that extend this one.                                           *)
(***************************************************************************)
EXTENDS Naturals, Sequences, FiniteSets

CONSTANTS Slots,       \* JF_TASK_SLOTS
          Workers,     \* JF_FETCH_WORKERS
          Free,        \* an unused slot
          NoSession,   \* of a task no worker has taken
          NoReply      \* of a task that is not over

ASSUME SlotsAssumption == Slots \in Nat \ {0}
ASSUME WorkersAssumption == Workers \in Nat \ {0}

VARIABLE fetcher   \* jf_fetcher: its tasks, its queue and its session

SlotIds == 1..Slots
Empty(session) ==
  [tasks |-> [i \in SlotIds |-> Free], queue |-> <<>>, session |-> session]

(* A task as it is started.  `live` stands for its tag: whether it is      *)
(* still the auth_generation the UI goes by.                               *)
Task(job, ask) ==
  [job |-> job, ask |-> ask, live |-> TRUE, state |-> "queued",
   session |-> NoSession, reply |-> NoReply]

Lowest(S) == CHOOSE i \in S: \A j \in S: i <= j
FreeSlots(f) == {i \in SlotIds: f.tasks[i] = Free}
InState(f, states) == {i \in SlotIds \ FreeSlots(f): f.tasks[i].state \in states}

(* The lowest free slot; without one the task is not made.                 *)
Submitted(f, task) ==
  IF FreeSlots(f) = {} THEN f
  ELSE LET i == Lowest(FreeSlots(f))
       IN [f EXCEPT !.tasks[i] = task, !.queue = Append(@, i)]
WithSession(f, session) == [f EXCEPT !.session = session]
Released(f, done) ==    \* after a step that consumed no task, done is 0
  [f EXCEPT !.tasks = [i \in SlotIds |-> IF i = done THEN Free ELSE f.tasks[i]]]

TakenFromBehind(f) ==    \* mutant: the other end of the queue is given up
  [f EXCEPT !.queue = SubSeq(f.queue, 1, Len(f.queue) - 1),
            !.tasks[Head(f.queue)].state = "running",
            !.tasks[Head(f.queue)].session = f.session]
(* A worker takes the task at the head, with a copy of the session.        *)
Taken(f) ==
  [f EXCEPT !.queue = Tail(f.queue),
            !.tasks[Head(f.queue)].state = "running",
            !.tasks[Head(f.queue)].session = f.session]
Take ==
  /\ fetcher.queue # <<>>
  /\ Cardinality(InState(fetcher, {"running"})) < Workers
  /\ fetcher' = Taken(fetcher)

Answered(f, i, state, reply) ==
  [f EXCEPT !.tasks[i].state = state, !.tasks[i].reply = reply,
            !.tasks[i].session = NoSession]

Running == InState(fetcher, {"running"})
Finished == InState(fetcher, {"ready", "failed"})
IsNext(i) == Finished # {} /\ i = Lowest(Finished)   \* jf_fetcher_finished

(* A task is in one hand: the queue holds exactly the started tasks no     *)
(* worker has taken, each once, and a worker's task has its session.       *)
PoolIsSound ==
  /\ \A i \in SlotIds:
       i \in InState(fetcher, {"queued"})
         <=> \E k \in DOMAIN fetcher.queue: fetcher.queue[k] = i
  /\ \A j, k \in DOMAIN fetcher.queue: fetcher.queue[j] = fetcher.queue[k] => j = k
  /\ \A i \in SlotIds \ FreeSlots(fetcher):
       fetcher.tasks[i].session # NoSession <=> i \in Running
=============================================================================
