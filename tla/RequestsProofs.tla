--------------------------- MODULE RequestsProofs ---------------------------
(* For any servers, pool, workers and stored credentials: every task is in    *)
(* one hand, and a token is only used at, and stored for, its own server.     *)
(* What the second rests on is about the tasks in flight: one of a sign-in    *)
(* that is still current was asked, and is answered, by the session's server, *)
(* and is one somebody wants: nobody is signed in who gave up.  And for any   *)
(* libraries and any cache, a poster comes back to the slot that asked.       *)
EXTENDS Requests, FiniteSetTheorems, WellFoundedInduction, TLAPS

(* What is told apart is distinct.                                            *)
IsSession(s) == s = Session(s.url, s.token, s.password)
IsTask(t) ==
  t = [job |-> t.job, ask |-> t.ask, live |-> t.live, state |-> t.state,
       session |-> t.session, reply |-> t.reply]
FreeIsNoTask ==
  \A job, ask, live, state, asker, reply:
    [job |-> job, ask |-> ask, live |-> live, state |-> state,
     session |-> asker, reply |-> reply] # Free
SessionsAreSessions ==
  \A url, token, password: Session(url, token, password) # NoSession

(* A file keeps a token with the server it is of.                             *)
StoredBelong ==
  \A s \in Stored: IsSession(s) /\ (s.token # NoToken => s.token.at = s.url)

Given == FreeIsNoTask /\ SessionsAreSessions /\ StoredBelong

-----------------------------------------------------------------------------
(* What a fetcher keeps to, between two steps of its operations.              *)

Shape(f) ==
  /\ f = [tasks |-> f.tasks, queue |-> f.queue, session |-> f.session]
  /\ f.tasks = [i \in SlotIds |-> f.tasks[i]]
  /\ \A i \in SlotIds: f.tasks[i] # Free => IsTask(f.tasks[i])
  /\ f.queue \in Seq(SlotIds)
  /\ f.session # NoSession

Is(f, i, states) == f.tasks[i] # Free /\ f.tasks[i].state \in states

Hands(f) ==
  /\ \A i \in SlotIds:
       Is(f, i, {"queued"}) <=> \E k \in 1..Len(f.queue): f.queue[k] = i
  /\ \A j, k \in 1..Len(f.queue): f.queue[j] = f.queue[k] => j = k
  /\ \A i \in SlotIds:
       f.tasks[i] # Free => (f.tasks[i].session # NoSession <=> f.tasks[i].state = "running")

(* A sign-in still current is between the application and this server.        *)
Current(t) == t.live = TRUE /\ t.job \in {"login", "authenticate"}
Asked(t, url) ==
  Current(t) => /\ t.state = "running" => t.session.url = url
                /\ t.state = "ready" => t.reply.token.at = url
(* One still current, or what leads to one, is wanted.                        *)
Leads == {"login", "initiate", "poll", "authenticate"}
Leading(t) == t.live = TRUE /\ t.job \in Leads
Mine(f, url, wanted) ==
  /\ f.session.url = url
  /\ \A i \in SlotIds: f.tasks[i] # Free =>
       Asked(f.tasks[i], url) /\ (Leading(f.tasks[i]) => wanted = TRUE)

(* d is the task being consumed, or 0.                                        *)
Over(f, d) == d = 0 \/ (d \in SlotIds /\ Is(f, d, {"ready", "failed"}))

Fit(f, d, url, wanted) == Shape(f) /\ Hands(f) /\ Over(f, d) /\ Mine(f, url, wanted)

LEMMA SlotsAreNumbers == SlotIds \subseteq Nat /\ 0 \notin SlotIds
BY SlotsAssumption DEF SlotIds

LEMMA LeastExists ==
  ASSUME NEW S \in SUBSET Nat, S # {} PROVE \E i \in S: \A j \in S: i <= j
<1>1. PICK i \in S: \A j \in S: <<j, i>> \notin OpToRel(<, Nat)
  BY WFMin, NatLessThanWellFounded, Zenon
<1>2. ASSUME NEW j \in S PROVE i <= j
  <2>1. i \in Nat /\ j \in Nat
    OBVIOUS
  <2>2. CASE j < i
    <3>1. <<j, i>> \in OpToRel(<, Nat)
      BY <2>1, <2>2 DEF OpToRel
    <3> QED
      BY <1>1, <3>1
  <2> QED
    BY <2>1, <2>2
<1> QED
  BY <1>2

LEMMA LowestIsOne ==
  ASSUME NEW S \in SUBSET SlotIds, S # {} PROVE Lowest(S) \in S
BY LeastExists, SlotsAreNumbers DEF Lowest

-----------------------------------------------------------------------------
(* The operations, one by one.                                                *)

LEMMA SubmittedFits ==
  ASSUME Given, NEW f, NEW d, NEW url, NEW wanted, Fit(f, d, url, wanted), NEW job, NEW ask,
         job \in Leads => wanted = TRUE
  PROVE  Fit(Submitted(f, Task(job, ask)), d, url, wanted)
<1> DEFINE t == Task(job, ask)
           g == Submitted(f, t)
           i == Lowest(FreeSlots(f))
<1>1. CASE FreeSlots(f) = {}
  BY <1>1 DEF Submitted
<1>2. CASE FreeSlots(f) # {}
  <2>1. i \in SlotIds /\ f.tasks[i] = Free
    BY <1>2, LowestIsOne DEF FreeSlots
  <2>2. PICK n: n = i
    OBVIOUS
  <2>3. /\ IsTask(t) /\ t # Free /\ t.state = "queued" /\ t.session = NoSession
        /\ t.job = job
    BY DEF Given, FreeIsNoTask, Task, IsTask
  <2>4. PICK u: u = t
    OBVIOUS
  <2>5. g = [f EXCEPT !.tasks[n] = u, !.queue = Append(@, n)]
    BY <1>2, <2>2, <2>4 DEF Submitted
  <2> HIDE DEF t, g, i
  <2>6. /\ g = [tasks |-> [f.tasks EXCEPT ![n] = u],
                queue |-> Append(f.queue, n), session |-> f.session]
    BY <2>5 DEF Fit, Shape
  <2>7. /\ g.tasks = [k \in SlotIds |-> IF k = n THEN u ELSE f.tasks[k]]
        /\ g.queue = Append(f.queue, n) /\ g.session = f.session
    BY <2>6 DEF Fit, Shape
  <2>8. Shape(g)
    BY <2>1, <2>2, <2>3, <2>4, <2>6, <2>7 DEF Fit, Shape
  <2>9. Hands(g)
    <3>1. f.queue \in Seq(SlotIds) /\ Len(f.queue) \in Nat
      BY DEF Fit, Shape
    <3>2. /\ Len(g.queue) = Len(f.queue) + 1
          /\ \A k \in 1..Len(f.queue): g.queue[k] = f.queue[k]
          /\ g.queue[Len(f.queue) + 1] = n
      BY <2>1, <2>2, <2>7, <3>1
    <3>3. \A k \in 1..Len(f.queue): f.queue[k] # n
      BY <2>1, <2>2 DEF Fit, Hands, Is
    <3>4. \A k \in 1..Len(g.queue): k \in 1..Len(f.queue) \/ k = Len(f.queue) + 1
      BY <3>1, <3>2
    <3>5. \A j, k \in 1..Len(g.queue): g.queue[j] = g.queue[k] => j = k
      BY <3>2, <3>3, <3>4 DEF Fit, Hands
    <3>6. ASSUME NEW k \in SlotIds
          PROVE Is(g, k, {"queued"}) <=> \E m \in 1..Len(g.queue): g.queue[m] = k
      <4>1. CASE k = n
        <5>1. Len(f.queue) + 1 \in 1..Len(g.queue)
          BY <3>1, <3>2
        <5> QED
          BY <2>3, <2>4, <2>7, <3>2, <4>1, <5>1 DEF Is
      <4>2. CASE k # n
        <5>1. Is(g, k, {"queued"}) <=> Is(f, k, {"queued"})
          BY <2>7, <4>2 DEF Is
        <5>2. 1..Len(f.queue) \subseteq 1..Len(g.queue)
          BY <3>1, <3>2
        <5> QED
          BY <3>2, <3>4, <4>2, <5>1, <5>2 DEF Fit, Hands
      <4> QED
        BY <4>1, <4>2
    <3>7. \A k \in SlotIds: g.tasks[k] # Free =>
            (g.tasks[k].session # NoSession <=> g.tasks[k].state = "running")
      BY <2>3, <2>4, <2>7 DEF Fit, Hands
    <3> QED
      BY <3>5, <3>6, <3>7 DEF Hands
  <2>10. Over(g, d)
    BY <2>1, <2>2, <2>7 DEF Fit, Over, Is
  <2>11. Mine(g, url, wanted)
    <3>1. Asked(u, url) /\ (Leading(u) => wanted = TRUE)
      BY <2>3, <2>4 DEF Asked, Leading
    <3> QED
      BY <2>7, <3>1 DEF Fit, Mine
  <2> QED
    BY <2>8, <2>9, <2>10, <2>11 DEF Fit, g, t
<1> QED
  BY <1>1, <1>2

LEMMA WantedFits ==
  ASSUME NEW f, NEW d, NEW url, NEW before, Fit(f, d, url, before)
  PROVE  Fit(f, d, url, TRUE)
BY DEF Fit, Mine

LEMMA HomeFits ==
  ASSUME Given, NEW f, NEW d, NEW url, NEW wanted, Fit(f, d, url, wanted)
  PROVE  Fit(HomeLoading(f), d, url, wanted)
<1> DEFINE t == Task("home", Nothing)
<1> "home" \notin Leads
  BY DEF Leads
<1>1. Fit(Submitted(f, t), d, url, wanted)
  BY SubmittedFits
<1>2. Fit(Submitted(Submitted(f, t), t), d, url, wanted)
  BY <1>1, SubmittedFits
<1>3. Fit(Submitted(Submitted(Submitted(f, t), t), t), d, url, wanted)
  BY <1>2, SubmittedFits
<1> QED
  BY <1>3 DEF HomeLoading

LEMMA OutdatedFits ==
  ASSUME Given, NEW f, NEW d, NEW url, NEW before, Fit(f, d, url, before), NEW wanted
  PROVE  /\ Fit(Outdated(f), d, url, wanted)
         /\ \A i \in SlotIds: Outdated(f).tasks[i] # Free =>
              ~Current(Outdated(f).tasks[i]) /\ ~Leading(Outdated(f).tasks[i])
<1> DEFINE g == Outdated(f)
           Cut(t) == IF t # Free /\ t.job \in AuthJobs THEN [t EXCEPT !.live = FALSE] ELSE t
<1>1. /\ g.tasks = [i \in SlotIds |-> Cut(f.tasks[i])]
      /\ g.queue = f.queue /\ g.session = f.session
      /\ g = [tasks |-> g.tasks, queue |-> g.queue, session |-> g.session]
  <2>1. PICK ts: ts = [i \in SlotIds |-> Cut(f.tasks[i])]
    OBVIOUS
  <2>2. g = [f EXCEPT !.tasks = ts]
    BY <2>1 DEF Outdated
  <2>3. f = [tasks |-> f.tasks, queue |-> f.queue, session |-> f.session]
    BY DEF Fit, Shape
  <2>4. g = [tasks |-> ts, queue |-> f.queue, session |-> f.session]
    BY <2>2, <2>3
  <2> HIDE DEF g
  <2> QED
    BY <2>1, <2>4
<1> HIDE DEF g
<1>2. ASSUME NEW i \in SlotIds
      PROVE /\ g.tasks[i] = Free <=> f.tasks[i] = Free
            /\ f.tasks[i] # Free =>
                 /\ IsTask(g.tasks[i]) /\ g.tasks[i].state = f.tasks[i].state
                 /\ g.tasks[i].session = f.tasks[i].session
                 /\ ~Current(g.tasks[i]) /\ ~Leading(g.tasks[i])
  <2>1. g.tasks[i] = Cut(f.tasks[i])
    BY <1>1
  <2>2. CASE f.tasks[i] = Free
    BY <2>1, <2>2
  <2>3. CASE f.tasks[i] # Free /\ f.tasks[i].job \in AuthJobs
    <3>1. PICK t: t = f.tasks[i]
      OBVIOUS
    <3>2. t = [job |-> t.job, ask |-> t.ask, live |-> t.live, state |-> t.state,
               session |-> t.session, reply |-> t.reply]
      BY <2>3, <3>1 DEF Fit, Shape, IsTask
    <3>3. g.tasks[i] = [job |-> t.job, ask |-> t.ask, live |-> FALSE, state |-> t.state,
                        session |-> t.session, reply |-> t.reply]
      BY <2>1, <2>3, <3>1, <3>2
    <3>4. g.tasks[i] # Free
      BY <3>3 DEF Given, FreeIsNoTask
    <3> QED
      BY <2>3, <3>1, <3>3, <3>4 DEF IsTask, Current, Leading
  <2>4. CASE f.tasks[i] # Free /\ f.tasks[i].job \notin AuthJobs
    BY <2>1, <2>4 DEF Fit, Shape, Current, Leading, Leads, AuthJobs
  <2> QED
    BY <2>2, <2>3, <2>4
<1>3. Shape(g)
  BY <1>1, <1>2 DEF Fit, Shape
<1>4. Hands(g)
  BY <1>1, <1>2 DEF Fit, Hands, Is
<1>5. Over(g, d)
  BY <1>2 DEF Fit, Over, Is
<1>6. Mine(g, url, wanted)
  BY <1>1, <1>2 DEF Fit, Mine, Asked, Leading
<1> QED
  BY <1>2, <1>3, <1>4, <1>5, <1>6 DEF Fit, g

(* Changing the server or its token: the attempts are outdated first.         *)
LEMMA NewSessionFits ==
  ASSUME Given, NEW f, NEW d, NEW url, NEW before, Fit(f, d, url, before),
         NEW s, IsSession(s), NEW wanted
  PROVE  Fit(WithSession(Outdated(f), s), d, s.url, wanted)
<1>1. PICK g: g = Outdated(f)
  OBVIOUS
<1>2. /\ Fit(g, d, url, wanted)
      /\ \A i \in SlotIds: g.tasks[i] # Free =>
           ~Current(g.tasks[i]) /\ ~Leading(g.tasks[i])
  BY <1>1, OutdatedFits
<1>3. PICK h: h = WithSession(g, s)
  OBVIOUS
<1>4. h = [tasks |-> g.tasks, queue |-> g.queue, session |-> s]
  BY <1>2, <1>3 DEF WithSession, Fit, Shape
<1>5. s # NoSession
  BY DEF Given, SessionsAreSessions, IsSession
<1>6. Shape(h) /\ Hands(h) /\ Over(h, d)
  BY <1>2, <1>4, <1>5 DEF Fit, Shape, Hands, Over, Is
<1>7. Mine(h, s.url, wanted)
  BY <1>2, <1>4 DEF Mine, Asked, Leading
<1> QED
  BY <1>1, <1>3, <1>6, <1>7 DEF Fit

LEMMA ReleasedFits ==
  ASSUME Given, NEW f, NEW d, NEW url, NEW wanted, Fit(f, d, url, wanted)
  PROVE  Fit(Released(f, d), 0, url, wanted)
<1>1. PICK g: g = Released(f, d)
  OBVIOUS
<1>2. /\ g.tasks = [i \in SlotIds |-> IF i = d THEN Free ELSE f.tasks[i]]
      /\ g.queue = f.queue /\ g.session = f.session
      /\ g = [tasks |-> g.tasks, queue |-> g.queue, session |-> g.session]
  BY <1>1 DEF Released, Fit, Shape
<1>3. Shape(g)
  BY <1>2 DEF Fit, Shape
<1>4. \A i \in SlotIds: Is(g, i, {"queued"}) <=> Is(f, i, {"queued"})
  <2>1. CASE d = 0
    BY <1>2, <2>1, SlotsAreNumbers DEF Is
  <2>2. CASE d \in SlotIds /\ Is(f, d, {"ready", "failed"})
    BY <1>2, <2>2 DEF Is
  <2> QED
    BY <2>1, <2>2 DEF Fit, Over
<1>5. Hands(g)
  BY <1>2, <1>4 DEF Fit, Hands
<1>6. Mine(g, url, wanted) /\ Over(g, 0)
  BY <1>2 DEF Fit, Mine, Over
<1> QED
  BY <1>1, <1>3, <1>5, <1>6 DEF Fit

LEMMA EmptyFits ==
  ASSUME Given, NEW s, IsSession(s), NEW wanted PROVE Fit(Empty(s), 0, s.url, wanted)
<1>1. PICK f: f = Empty(s)
  OBVIOUS
<1>2. f = [tasks |-> [i \in SlotIds |-> Free], queue |-> <<>>, session |-> s]
  BY <1>1 DEF Empty
<1>3. s # NoSession
  BY DEF Given, SessionsAreSessions, IsSession
<1>4. Shape(f)
  BY <1>2, <1>3 DEF Shape
<1>5. Hands(f)
  BY <1>2 DEF Hands, Is
<1>6. Over(f, 0) /\ Mine(f, s.url, wanted)
  BY <1>2 DEF Over, Mine, Leading
<1> QED
  BY <1>1, <1>4, <1>5, <1>6 DEF Fit

(* What a worker's two steps change of a task.                                *)
LEMMA ChangedTask ==
  ASSUME NEW t, IsTask(t), NEW x, NEW y, NEW z
  PROVE  /\ [[t EXCEPT !.state = x] EXCEPT !.session = y]
              = [job |-> t.job, ask |-> t.ask, live |-> t.live, state |-> x,
                 session |-> y, reply |-> t.reply]
         /\ [[[t EXCEPT !.state = x] EXCEPT !.reply = z] EXCEPT !.session = y]
              = [job |-> t.job, ask |-> t.ask, live |-> t.live, state |-> x,
                 session |-> y, reply |-> z]
<1>1. PICK job, ask, live, state, asker, reply:
        t = [job |-> job, ask |-> ask, live |-> live, state |-> state,
             session |-> asker, reply |-> reply]
  BY DEF IsTask
<1>2. PICK v: v = [t EXCEPT !.state = x]
  OBVIOUS
<1>3. v = [job |-> job, ask |-> ask, live |-> live, state |-> x,
           session |-> asker, reply |-> reply]
  BY <1>1, <1>2
<1>4. [v EXCEPT !.session = y]
        = [job |-> job, ask |-> ask, live |-> live, state |-> x,
           session |-> y, reply |-> reply]
  BY <1>3
<1>5. PICK w: w = [v EXCEPT !.reply = z]
  OBVIOUS
<1>6. w = [job |-> job, ask |-> ask, live |-> live, state |-> x,
           session |-> asker, reply |-> z]
  BY <1>3, <1>5
<1>7. [w EXCEPT !.session = y]
        = [job |-> job, ask |-> ask, live |-> live, state |-> x,
           session |-> y, reply |-> z]
  BY <1>6
<1>8. t.job = job /\ t.ask = ask /\ t.live = live /\ t.reply = reply
  BY <1>1
<1> QED
  BY <1>2, <1>4, <1>5, <1>7, <1>8, Zenon

(* A worker takes the task at the head, and asks the session's server.        *)
LEMMA TakenFits ==
  ASSUME Given, NEW f, NEW url, NEW wanted, Fit(f, 0, url, wanted), f.queue # <<>>
  PROVE  Fit(Taken(f), 0, url, wanted)
<1>1. PICK n: n = Head(f.queue)
  OBVIOUS
<1>2. /\ f.queue \in Seq(SlotIds) /\ Len(f.queue) \in Nat \ {0}
      /\ n = f.queue[1] /\ n \in SlotIds
  BY <1>1 DEF Fit, Shape
<1>3. Is(f, n, {"queued"})
  <2>1. 1 \in 1..Len(f.queue)
    BY <1>2
  <2> QED
    BY <1>2, <2>1 DEF Fit, Hands
<1>4. PICK t: t = f.tasks[n]
  OBVIOUS
<1>5. t = [job |-> t.job, ask |-> t.ask, live |-> t.live, state |-> t.state,
           session |-> t.session, reply |-> t.reply]
  BY <1>2, <1>3, <1>4 DEF Fit, Shape, IsTask, Is
<1>6. PICK u: u = [job |-> t.job, ask |-> t.ask, live |-> t.live, state |-> "running",
                   session |-> f.session, reply |-> t.reply]
  OBVIOUS
<1>7. IsTask(u) /\ u # Free
  BY <1>6 DEF IsTask, Given, FreeIsNoTask
<1>8. PICK g: g = Taken(f)
  OBVIOUS
<1>9. g = [tasks |-> [f.tasks EXCEPT ![n] = u], queue |-> Tail(f.queue),
           session |-> f.session]
  <2>1. [[t EXCEPT !.state = "running"] EXCEPT !.session = f.session] = u
    <3>1. IsTask(t)
      BY <1>5 DEF IsTask
    <3> QED
      BY <1>6, <3>1, ChangedTask, Zenon
  <2>2. f.tasks = [i \in SlotIds |-> f.tasks[i]]
    BY DEF Fit, Shape
  <2>3. [[f.tasks EXCEPT ![n].state = "running"] EXCEPT ![n].session = f.session]
          = [f.tasks EXCEPT ![n] = u]
    BY <1>2, <1>4, <2>1, <2>2
  <2>4. f = [tasks |-> f.tasks, queue |-> f.queue, session |-> f.session]
    BY DEF Fit, Shape
  <2> QED
    BY <1>1, <1>8, <2>3, <2>4 DEF Taken
<1>10. /\ g.tasks = [k \in SlotIds |-> IF k = n THEN u ELSE f.tasks[k]]
       /\ g.queue = Tail(f.queue) /\ g.session = f.session
  BY <1>9 DEF Fit, Shape
<1>11. Shape(g)
  BY <1>2, <1>7, <1>9, <1>10 DEF Fit, Shape
<1>12. Hands(g)
  <2>1. /\ Len(g.queue) = Len(f.queue) - 1 /\ Len(g.queue) \in Nat
        /\ \A k \in 1..Len(g.queue): k + 1 \in 1..Len(f.queue) /\ g.queue[k] = f.queue[k + 1]
    BY <1>2, <1>10
  <2>2. \A k \in 1..Len(f.queue): k # 1 => k - 1 \in 1..Len(g.queue) /\ g.queue[k - 1] = f.queue[k]
    <3> TAKE k \in 1..Len(f.queue)
    <3> HAVE k # 1
    <3>1. k - 1 \in 1..Len(g.queue) /\ (k - 1) + 1 = k
      BY <1>2, <2>1
    <3> QED
      BY <2>1, <3>1
  <2>3. ASSUME NEW j \in 1..Len(g.queue), NEW k \in 1..Len(g.queue), g.queue[j] = g.queue[k]
        PROVE j = k
    <3>1. j + 1 = k + 1
      BY <2>1, <2>3 DEF Fit, Hands
    <3> QED
      BY <2>1, <3>1
  <2>4. \A k \in 1..Len(g.queue): g.queue[k] # n
    <3> SUFFICES ASSUME NEW k \in 1..Len(g.queue), g.queue[k] = n PROVE FALSE
      OBVIOUS
    <3>1. 1 \in 1..Len(f.queue) /\ f.queue[k + 1] = f.queue[1]
      BY <1>2, <2>1
    <3>2. k + 1 = 1
      BY <2>1, <3>1 DEF Fit, Hands
    <3> QED
      BY <3>2
  <2>5. ASSUME NEW i \in SlotIds
        PROVE Is(g, i, {"queued"}) <=> \E k \in 1..Len(g.queue): g.queue[k] = i
    <3>1. CASE i = n
      BY <1>6, <1>10, <2>4, <3>1 DEF Is
    <3>2. CASE i # n
      <4>1. Is(g, i, {"queued"}) <=> Is(f, i, {"queued"})
        BY <1>10, <3>2 DEF Is
      <4>2. (\E k \in 1..Len(g.queue): g.queue[k] = i)
              <=> (\E k \in 1..Len(f.queue): f.queue[k] = i)
        BY <1>2, <2>1, <2>2, <3>2
      <4> QED
        BY <4>1, <4>2 DEF Fit, Hands
    <3> QED
      BY <3>1, <3>2
  <2>6. \A i \in SlotIds: g.tasks[i] # Free =>
          (g.tasks[i].session # NoSession <=> g.tasks[i].state = "running")
    BY <1>6, <1>10 DEF Fit, Hands, Shape
  <2> QED
    BY <2>3, <2>5, <2>6 DEF Hands
<1>13. Mine(g, url, wanted)
  <2>1. f.tasks[n] # Free /\ f.session.url = url
    BY <1>3 DEF Fit, Mine, Is
  <2>2. Leading(t) => wanted = TRUE
    BY <1>2, <1>4, <2>1 DEF Fit, Mine
  <2>3. Asked(u, url) /\ (Leading(u) => wanted = TRUE)
    BY <1>6, <2>1, <2>2 DEF Asked, Leading
  <2> QED
    BY <1>10, <2>3 DEF Fit, Mine
<1> QED
  BY <1>8, <1>11, <1>12, <1>13 DEF Fit, Over

(* An answer, which to a sign-in still current is a token of the server's.    *)
LEMMA AnsweredFits ==
  ASSUME Given, NEW f, NEW url, NEW wanted, Fit(f, 0, url, wanted),
         NEW i \in SlotIds, Is(f, i, {"running"}),
         NEW state \in {"ready", "failed"}, NEW reply,
         Current(f.tasks[i]) /\ state = "ready" => reply.token.at = url
  PROVE  Fit(Answered(f, i, state, reply), 0, url, wanted)
<1>1. PICK t: t = f.tasks[i]
  OBVIOUS
<1>2. t = [job |-> t.job, ask |-> t.ask, live |-> t.live, state |-> t.state,
           session |-> t.session, reply |-> t.reply]
  BY <1>1 DEF Fit, Shape, IsTask, Is
<1>3. PICK u: u = [job |-> t.job, ask |-> t.ask, live |-> t.live, state |-> state,
                   session |-> NoSession, reply |-> reply]
  OBVIOUS
<1>4. IsTask(u) /\ u # Free
  BY <1>3 DEF IsTask, Given, FreeIsNoTask
<1>5. PICK g: g = Answered(f, i, state, reply)
  OBVIOUS
<1>6. g = [tasks |-> [f.tasks EXCEPT ![i] = u], queue |-> f.queue, session |-> f.session]
  <2>1. [[[t EXCEPT !.state = state] EXCEPT !.reply = reply] EXCEPT !.session = NoSession] = u
    <3>1. IsTask(t)
      BY <1>2 DEF IsTask
    <3> QED
      BY <1>3, <3>1, ChangedTask, Zenon
  <2>2. f.tasks = [k \in SlotIds |-> f.tasks[k]]
    BY DEF Fit, Shape
  <2>3. [[[f.tasks EXCEPT ![i].state = state] EXCEPT ![i].reply = reply]
           EXCEPT ![i].session = NoSession] = [f.tasks EXCEPT ![i] = u]
    BY <1>1, <2>1, <2>2
  <2>4. f = [tasks |-> f.tasks, queue |-> f.queue, session |-> f.session]
    BY DEF Fit, Shape
  <2> QED
    BY <1>5, <2>3, <2>4 DEF Answered
<1>7. /\ g.tasks = [k \in SlotIds |-> IF k = i THEN u ELSE f.tasks[k]]
      /\ g.queue = f.queue /\ g.session = f.session
  BY <1>6 DEF Fit, Shape
<1>8. Shape(g)
  BY <1>4, <1>6, <1>7 DEF Fit, Shape
<1>9. Hands(g)
  BY <1>3, <1>7 DEF Fit, Hands, Is
<1>10. Mine(g, url, wanted)
  <2>1. (Leading(t) => wanted = TRUE) /\ f.session.url = url
    BY <1>1 DEF Fit, Mine, Is
  <2>2. Current(u) <=> Current(t)
    BY <1>3 DEF Current
  <2>3. Asked(u, url) /\ (Leading(u) => wanted = TRUE)
    BY <1>1, <1>3, <2>1, <2>2 DEF Asked, Leading
  <2> QED
    BY <1>7, <2>1, <2>3 DEF Fit, Mine
<1> QED
  BY <1>5, <1>8, <1>9, <1>10 DEF Fit, Over

-----------------------------------------------------------------------------
(* The application.                                                           *)

Proper(s) == IsSession(s) /\ (s.token # NoToken => s.token.at = s.url)

IInv ==
  /\ IsSession(session) /\ IsSession(saved)
  /\ Fit(fetcher, 0, session.url, asked)
  /\ screen = "quick" => asked = TRUE
  /\ TokenBelongsToServer

Consuming(d) == Fit(fetcher, d, session.url, asked)

(* Nobody is given a token who did not ask.                                   *)
Unasked == session'.token # session.token /\ session'.token # NoToken => asked

LEMMA LaunchedHolds ==
  ASSUME Given, NEW s, Proper(s),
         NEW f, f = (IF s.token # NoToken THEN HomeLoading(Empty(s)) ELSE Empty(s)),
         NEW wanted
  PROVE  Fit(f, 0, s.url, wanted)
BY EmptyFits, HomeFits DEF Proper

LEMMA InitHolds == ASSUME Given PROVE Init => IInv
<1> SUFFICES ASSUME Init PROVE IInv
  OBVIOUS
<1>1. Proper(saved) /\ session = saved
  BY DEF Init, Launched, Given, StoredBelong, Proper
<1>2. Fit(fetcher, 0, session.url, asked)
  BY <1>1, LaunchedHolds, Zenon DEF Init, Launched
<1>3. TokenBelongsToServer
  BY <1>1 DEF Init, Launched, TokenBelongsToServer, Proper
<1>4. screen # "quick"
  BY DEF Init, Launched
<1> QED
  BY <1>1, <1>2, <1>3, <1>4 DEF IInv, Proper

LEMMA SessionAt ==
  ASSUME NEW s, IsSession(s), NEW url PROVE IsSession([s EXCEPT !.url = url])
BY DEF IsSession, Session

LEMMA UseServerKeeps ==
  ASSUME Given, IInv, NEW s, NEW d, Consuming(d), UseServer(s, d) PROVE IInv' /\ Unasked
<1>1. IsSession(session')
  BY SessionAt DEF UseServer, IInv
<1>2. Fit(WithSession(Outdated(fetcher), session'), d, session'.url, asked')
  BY <1>1, NewSessionFits DEF Consuming
<1>3. Fit(fetcher', 0, session'.url, asked')
  BY <1>2, ReleasedFits DEF UseServer
<1>4. TokenBelongsToServer'
  BY DEF UseServer, IInv, TokenBelongsToServer
<1> QED
  BY <1>1, <1>3, <1>4, SessionAt DEF IInv, UseServer, Unasked

LEMMA SignedInKeeps ==
  ASSUME Given, IInv, NEW token, NEW password, NEW d, Consuming(d),
         token.at = session.url, asked = TRUE, SignedIn(token, password, d)
  PROVE  IInv' /\ Unasked
<1>1. IsSession(session') /\ session'.url = session.url /\ session'.token = token
  <2>1. session' = Session(session.url, token, password)
    BY DEF SignedIn
  <2> QED
    BY <2>1 DEF Session, IsSession
<1>2. Fit(WithSession(Outdated(fetcher), session'), d, session'.url, asked')
  BY <1>1, NewSessionFits DEF Consuming
<1>3. Fit(HomeLoading(WithSession(Outdated(fetcher), session')), d, session'.url, asked')
  BY <1>2, HomeFits
<1>4. Fit(fetcher', 0, session'.url, asked')
  BY <1>3, ReleasedFits DEF SignedIn
<1>5. TokenBelongsToServer'
  BY <1>1 DEF SignedIn, TokenBelongsToServer
<1> QED
  BY <1>1, <1>4, <1>5 DEF IInv, SignedIn, Unasked

LEMMA SignOutKeeps ==
  ASSUME Given, IInv, NEW d, Consuming(d), SignOut(d) PROVE IInv' /\ Unasked
<1>1. IsSession(session') /\ session'.token = NoToken
  <2>1. session' = Session(session.url, NoToken, "none")
    BY DEF SignOut
  <2> QED
    BY <2>1 DEF Session, IsSession
<1>2. Fit(WithSession(Outdated(fetcher), session'), d, session'.url, asked')
  BY <1>1, NewSessionFits DEF Consuming
<1>3. Fit(fetcher', 0, session'.url, asked')
  BY <1>2, ReleasedFits DEF SignOut
<1>4. TokenBelongsToServer'
  BY <1>1 DEF SignOut, TokenBelongsToServer
<1> QED
  BY <1>1, <1>3, <1>4 DEF IInv, SignOut, Unasked

(* The steps that leave the session and the file as they are.                 *)
LEMMA OthersKeep ==
  ASSUME IInv, Fit(fetcher', 0, session.url, asked'), UNCHANGED <<session, saved>>,
         \/ UNCHANGED <<screen, asked>>
         \/ asked' = TRUE /\ (UNCHANGED screen \/ screen' = "quick")
         \/ screen' \in {"server", "auth"}
         \/ screen \in {"home", "away"} /\ screen' \in {"home", "away"}
  PROVE  IInv' /\ Unasked
BY DEF IInv, TokenBelongsToServer, Unasked

LEMMA OnlyReleaseKeeps ==
  ASSUME Given, IInv, NEW d, Consuming(d), OnlyRelease(d) PROVE IInv' /\ Unasked
BY OthersKeep, ReleasedFits DEF OnlyRelease, uiVars, Consuming

LEMMA ReauthenticateKeeps ==
  ASSUME Given, IInv, NEW d, Consuming(d), Reauthenticate(d) PROVE IInv' /\ Unasked
<1>1. CASE MayRelogin
  <2>1. Fit(fetcher, d, session.url, TRUE)
    BY WantedFits DEF Consuming
  <2>2. Fit(Submitted(fetcher, Task("login", Ask(session.password, None))), d,
            session.url, TRUE)
    BY <2>1, SubmittedFits
  <2>3. asked' = TRUE
    BY <1>1 DEF Reauthenticate
  <2>4. Fit(fetcher', 0, session.url, asked') /\ UNCHANGED <<session, saved, screen>>
    BY <1>1, <2>3, <2>2, ReleasedFits DEF Reauthenticate
  <2> QED
    BY <2>4, <2>3, OthersKeep
<1>2. CASE ~MayRelogin
  BY <1>2, SignOutKeeps DEF Reauthenticate
<1> QED
  BY <1>1, <1>2

LEMMA ShowSignInKeeps ==
  ASSUME Given, IInv, NEW d, Consuming(d), ShowSignIn(d) PROVE IInv' /\ Unasked
BY OthersKeep, ReleasedFits DEF ShowSignIn, Consuming

LEMMA FailedKeeps ==
  ASSUME Given, IInv, NEW d, Consuming(d), NEW job, NEW error, Failed(d, job, error)
  PROVE  IInv' /\ Unasked
<1>1. CASE job = "probe"
  <2>1. Fit(fetcher', 0, session.url, asked') /\ UNCHANGED <<session, saved, screen, asked>>
    BY <1>1, ReleasedFits DEF Failed, Consuming
  <2> QED
    BY <2>1, OthersKeep
<1>2. CASE job = "home"
  BY <1>2, ReauthenticateKeeps, ShowSignInKeeps, OnlyReleaseKeeps DEF Failed
<1>3. CASE job = "login"
  BY <1>3, SignOutKeeps, OnlyReleaseKeeps DEF Failed
<1>4. CASE job = "item"
  BY <1>4, ShowSignInKeeps, OnlyReleaseKeeps DEF Failed
<1>5. CASE job \notin {"probe", "home", "login", "item"}
  BY <1>5, OnlyReleaseKeeps DEF Failed
<1> QED
  BY <1>1, <1>2, <1>3, <1>4, <1>5

(* A sign-in consumed as current is from the server in use.                   *)
LEMMA ReadyKeeps ==
  ASSUME Given, IInv, NEW d \in SlotIds, Consuming(d), NEW t, t = fetcher.tasks[d],
         t # Free, t.state = "ready", t.job \in AuthJobs => t.live = TRUE, Ready(d, t)
  PROVE  IInv' /\ Unasked
<1>1. t.job \in {"login", "authenticate"} => t.reply.token.at = session.url
  <2>1. Asked(t, session.url)
    BY DEF Consuming, Fit, Mine
  <2> QED
    BY <2>1 DEF Asked, Current, AuthJobs
<1>2. t.job \in Leads => asked = TRUE
  <2>1. Leading(t) => asked = TRUE
    BY DEF Consuming, Fit, Mine
  <2> QED
    BY <2>1 DEF Leading, Leads, AuthJobs
<1>3. CASE t.job = "probe"
  BY <1>3, UseServerKeeps DEF Ready
<1>4. CASE t.job = "login"
  BY <1>1, <1>4, <1>2, SignedInKeeps DEF Ready, Leads
<1>5. CASE t.job = "authenticate"
  BY <1>1, <1>5, <1>2, SignedInKeeps DEF Ready, Leads
<1>6. CASE t.job = "initiate"
  <2>1. /\ Fit(fetcher', 0, session.url, asked') /\ UNCHANGED <<session, saved>>
        /\ screen' = "quick" /\ asked' = TRUE
    BY <1>6, <1>2, ReleasedFits DEF Ready, Consuming, Leads
  <2> QED
    BY <2>1, OthersKeep
<1>7. CASE t.job = "poll" /\ t.reply.code # None
  <2>1. Fit(Authenticating(fetcher), d, session.url, asked)
    BY <1>7, <1>2, SubmittedFits DEF Consuming, Authenticating, Leads
  <2>2. Fit(fetcher', 0, session.url, asked') /\ UNCHANGED <<session, saved, screen, asked>>
    BY <1>7, <2>1, ReleasedFits DEF Ready, uiVars
  <2> QED
    BY <2>2, OthersKeep
<1>8. CASE /\ t.job \notin {"probe", "login", "authenticate", "initiate"}
           /\ ~(t.job = "poll" /\ t.reply.code # None)
  BY <1>8, OnlyReleaseKeeps DEF Ready
<1> QED
  BY <1>3, <1>4, <1>5, <1>6, <1>7, <1>8

LEMMA ConsumeKeeps ==
  ASSUME Given, IInv, NEW i \in SlotIds, Consume(i) PROVE IInv' /\ Unasked
<1>1. i \in Finished
  <2>1. Finished \in SUBSET SlotIds /\ Finished # {}
    BY DEF Consume, IsNext, Finished, InState
  <2> QED
    BY <2>1, LowestIsOne DEF Consume, IsNext
<1>2. Is(fetcher, i, {"ready", "failed"})
  BY <1>1 DEF Finished, InState, FreeSlots, Is
<1>3. Consuming(i)
  BY <1>2 DEF IInv, Fit, Over, Consuming
<1>4. PICK t: t = fetcher.tasks[i]
  OBVIOUS
<1>5. IsTask(t) /\ t # Free /\ t.state \in {"ready", "failed"}
  BY <1>2, <1>4 DEF IInv, Fit, Shape, Is
<1>6. CASE t.job \in AuthJobs /\ ~t.live
  BY <1>3, <1>4, <1>6, OnlyReleaseKeeps DEF Consume
<1>7. CASE ~(t.job \in AuthJobs /\ ~t.live) /\ t.state = "failed"
  BY <1>3, <1>4, <1>7, FailedKeeps DEF Consume
<1>8. CASE ~(t.job \in AuthJobs /\ ~t.live) /\ t.state # "failed"
  <2>1. Ready(i, t)
    BY <1>4, <1>8 DEF Consume
  <2> QED
    BY <1>3, <1>4, <1>5, <1>8, <2>1, ReadyKeeps
<1> QED
  BY <1>6, <1>7, <1>8

LEMMA UserKeeps == ASSUME Given, IInv, User PROVE IInv'
<1>1. ASSUME NEW s \in Servers, Connect(s) PROVE IInv'
  <2>1. Fit(Submitted(fetcher, Task("probe", Ask(s, None))), 0, session.url, asked)
    BY SubmittedFits DEF IInv, Leads
  <2>2. Fit(fetcher', 0, session.url, asked') /\ UNCHANGED <<session, saved, screen, asked>>
    BY <1>1, <2>1 DEF Connect
  <2> QED
    BY <2>2, OthersKeep
<1>2. ASSUME NEW s \in Servers, Choose(s) PROVE IInv'
  BY <1>2, UseServerKeeps DEF Choose, IInv, Consuming
<1>3. ASSUME NEW p, LogIn(p) PROVE IInv'
  <2>1. Fit(Submitted(fetcher, Task("login", Ask(p, None))), 0, session.url, TRUE)
    BY WantedFits, SubmittedFits DEF IInv
  <2>2. /\ Fit(fetcher', 0, session.url, asked') /\ UNCHANGED <<session, saved, screen>>
        /\ asked' = TRUE
    BY <1>3, <2>1 DEF LogIn
  <2> QED
    BY <2>2, OthersKeep
<1>4. CASE QuickConnect
  <2>1. Fit(Submitted(fetcher, Task("initiate", Nothing)), 0, session.url, TRUE)
    BY WantedFits, SubmittedFits DEF IInv
  <2>2. /\ Fit(fetcher', 0, session.url, asked') /\ UNCHANGED <<session, saved, screen>>
        /\ asked' = TRUE
    BY <1>4, <2>1 DEF QuickConnect
  <2> QED
    BY <2>2, OthersKeep
<1>5. CASE BackFromSignIn \/ BackFromConnecting \/ BackFromQuick
  <2>1. Fit(Outdated(fetcher), 0, session.url, asked')
    BY OutdatedFits DEF IInv
  <2>2. Fit(fetcher', 0, session.url, asked') /\ UNCHANGED <<session, saved>>
    BY <1>5, <2>1 DEF BackFromSignIn, BackFromConnecting, BackFromQuick
  <2>3. screen' \in {"server", "auth"}
    BY <1>5 DEF BackFromSignIn, BackFromConnecting, BackFromQuick
  <2> QED
    BY <2>2, <2>3, OthersKeep
<1>6. CASE BackHome
  <2>1. Fit(fetcher', 0, session.url, asked') /\ UNCHANGED <<session, saved>>
    BY <1>6 DEF BackHome, IInv
  <2>2. screen \in {"home", "away"} /\ screen' \in {"home", "away"}
    BY <1>6 DEF BackHome
  <2> QED
    BY <2>1, <2>2, OthersKeep
<1>7. CASE OpenItem
  <2>1. Fit(Submitted(fetcher, Task("item", Nothing)), 0, session.url, asked)
    BY SubmittedFits DEF IInv, Leads
  <2>2. Fit(fetcher', 0, session.url, asked') /\ UNCHANGED <<session, saved>>
    BY <1>7, <2>1 DEF OpenItem
  <2>3. screen \in {"home", "away"} /\ screen' \in {"home", "away"}
    BY <1>7 DEF OpenItem
  <2> QED
    BY <2>2, <2>3, OthersKeep
<1>8. CASE SignOutPressed
  BY <1>8, SignOutKeeps DEF SignOutPressed, IInv, Consuming
<1>9. CASE Relaunch
  <2>1. Proper(saved)
    BY DEF IInv, TokenBelongsToServer, Proper
  <2>2. fetcher' = IF saved.token # NoToken THEN HomeLoading(Empty(saved)) ELSE Empty(saved)
    BY <1>9 DEF Relaunch
  <2>3. Fit(fetcher', 0, saved.url, asked')
    BY <2>1, <2>2, LaunchedHolds, Zenon
  <2>4. session' = saved /\ saved' = saved
    BY <1>9 DEF Relaunch
  <2>5. TokenBelongsToServer'
    BY <1>9, <2>1, <2>4 DEF Relaunch, TokenBelongsToServer, Proper
  <2>6. screen' # "quick"
    BY <1>9 DEF Relaunch
  <2> QED
    BY <2>1, <2>3, <2>4, <2>5, <2>6 DEF IInv, Proper
<1> QED
  BY <1>1, <1>2, <1>3, <1>4, <1>5, <1>6, <1>7, <1>8, <1>9 DEF User, GoBack

(* Whoever answers a current sign-in was asked by the session's server.       *)
LEMMA ServeKeeps ==
  ASSUME Given, IInv, NEW i \in SlotIds, Serve(i) PROVE IInv' /\ Unasked
<1>1. Is(fetcher, i, {"running"})
  BY DEF Serve, Running, InState, FreeSlots, Is
<1>2. PICK t: t = fetcher.tasks[i]
  OBVIOUS
<1>3. t # Free /\ t.state = "running"
  BY <1>1, <1>2 DEF Is
<1>4. Current(t) => t.session.url = session.url
  <2>1. Asked(t, session.url)
    BY <1>2, <1>3 DEF IInv, Fit, Mine
  <2> QED
    BY <1>3, <2>1 DEF Asked
<1>5. UNCHANGED <<session, saved, screen, asked>>
  BY <1>2 DEF Serve, Issues, Grants, Refuses, Says, uiVars
<1>6. ASSUME NEW reply, fetcher' = Answered(fetcher, i, "failed", reply) PROVE IInv' /\ Unasked
  BY <1>1, <1>5, <1>6, AnsweredFits, OthersKeep DEF IInv
<1>7. ASSUME NEW reply, fetcher' = Answered(fetcher, i, "ready", reply),
             Current(t) => reply.token.at = session.url
      PROVE  IInv' /\ Unasked
  BY <1>1, <1>2, <1>5, <1>7, AnsweredFits, OthersKeep DEF IInv
<1>8. CASE Refuses(i)
  BY <1>6, <1>8 DEF Refuses, Says
<1>9. CASE Issues(i, t.session.url)
  <2>1. PICK n: fetcher' = Answered(fetcher, i, "ready",
                             Reply("none", Token(t.session.url, n), None))
    BY <1>9 DEF Issues, Says
  <2>2. Reply("none", Token(t.session.url, n), None).token.at = t.session.url
    BY DEF Reply, Token
  <2> QED
    BY <1>4, <1>7, <2>1, <2>2
<1>10. ASSUME NEW code, Grants(i, code), t.job \notin {"login", "authenticate"} PROVE IInv' /\ Unasked
  BY <1>7, <1>10 DEF Grants, Says, Current
<1>11. CASE t.job \in {"login", "authenticate"}
  BY <1>2, <1>8, <1>9, <1>11 DEF Serve
<1>12. CASE t.job \in {"probe", "poll"}
  BY <1>2, <1>10, <1>12 DEF Serve
<1>13. CASE t.job = "initiate"
  <2>1. PICK n: fetcher' = Answered(fetcher, i, "ready", Reply("none", NoToken, n))
    BY <1>2, <1>13 DEF Serve, Says
  <2> QED
    BY <1>7, <1>13, <2>1 DEF Current
<1>14. CASE t.job \notin {"login", "authenticate", "probe", "poll", "initiate"}
  BY <1>2, <1>8, <1>10, <1>14 DEF Serve
<1> QED
  BY <1>11, <1>12, <1>13, <1>14

LEMMA NextKeeps ==
  ASSUME Given PROVE IInv /\ [Next]_vars => IInv' /\ (Unasked \/ Event)
<1> SUFFICES ASSUME IInv, [Next]_vars PROVE IInv' /\ (Unasked \/ Event)
  OBVIOUS
<1>1. CASE User
  <2>1. Event
    BY <1>1 DEF User, Connect, Choose, LogIn, QuickConnect, GoBack, OpenItem,
                SignOutPressed, Relaunch, Press
  <2> QED
    BY <1>1, <2>1, UserKeeps
<1>2. CASE Poll
  <2>1. Fit(fetcher', 0, session.url, asked') /\ UNCHANGED <<session, saved, screen, asked>>
    <3>1. Fit(Submitted(fetcher, Task("poll", Ask("none", secret))), 0, session.url, asked)
      BY <1>2, SubmittedFits DEF Poll, IInv
    <3> QED
      BY <1>2, <3>1 DEF Poll, uiVars
  <2> QED
    BY <2>1, OthersKeep
<1>3. CASE TakeTask
  <2>1. Fit(fetcher', 0, session.url, asked') /\ UNCHANGED <<session, saved, screen, asked>>
    BY <1>3, TakenFits DEF TakeTask, Take, uiVars, IInv
  <2> QED
    BY <2>1, OthersKeep
<1>4. CASE Approve
  BY <1>4, OthersKeep DEF Approve, uiVars, IInv
<1>5. ASSUME NEW i \in SlotIds, Consume(i) PROVE IInv' /\ Unasked
  BY <1>5, ConsumeKeeps
<1>6. ASSUME NEW i \in SlotIds, Serve(i) PROVE IInv' /\ Unasked
  BY <1>6, ServeKeeps
<1>7. ASSUME NEW i \in SlotIds, Fail(i) PROVE IInv' /\ Unasked
  <2>1. Is(fetcher, i, {"running"})
    BY <1>7 DEF Fail, Running, InState, FreeSlots, Is
  <2>2. Fit(fetcher', 0, session.url, asked') /\ UNCHANGED <<session, saved, screen, asked>>
    BY <1>7, <2>1, AnsweredFits DEF Fail, uiVars, IInv
  <2> QED
    BY <2>2, OthersKeep
<1>8. CASE UNCHANGED vars
  BY <1>8 DEF vars, uiVars, IInv, TokenBelongsToServer, Unasked
<1> QED
  BY <1>1, <1>2, <1>3, <1>4, <1>5, <1>6, <1>7, <1>8 DEF Next

LEMMA FitIsSound == ASSUME NEW url, NEW wanted, Fit(fetcher, 0, url, wanted) PROVE PoolIsSound
<1>1. fetcher.queue \in Seq(SlotIds) /\ DOMAIN fetcher.queue = 1..Len(fetcher.queue)
  BY DEF Fit, Shape
<1> QED
  BY <1>1 DEF Fit, Hands, Is, PoolIsSound, InState, FreeSlots, Running

-----------------------------------------------------------------------------
(* Every task is in one hand -- the queue's, one worker's or the UI's -- for   *)
(* every pool and number of workers, through every reply, sign-out and        *)
(* restart (api.c:944-1092).                                                  *)
THEOREM PoolStaysSound == ASSUME Given PROVE Spec => []PoolIsSound
<1>1. Spec => []IInv
  BY InitHolds, NextKeeps, PTL DEF Spec
<1>2. IInv => PoolIsSound
  BY FitIsSound DEF IInv
<1> QED
  BY <1>1, <1>2, PTL

(* A token is used at, and stored for, the server that gave it, whatever was  *)
(* in flight when the user changed the server, gave up or signed out          *)
(* (main.c:1135-1186, 1263-1520).                                             *)
THEOREM TokensBelong == ASSUME Given PROVE Spec => []TokenBelongsToServer
<1>1. Spec => []IInv
  BY InitHolds, NextKeeps, PTL DEF Spec
<1>2. IInv => TokenBelongsToServer
  BY DEF IInv
<1> QED
  BY <1>1, <1>2, PTL

(* "Back cancels the UI's interest in pending sign-in / Quick Connect         *)
(* replies" (main.c:698): nobody is signed in who gave up, whatever was in    *)
(* flight and however late it comes.                                          *)
THEOREM NobodyUnasked == ASSUME Given PROVE Spec => NoUnaskedSignIn
<1>1. Spec => []IInv
  BY InitHolds, NextKeeps, PTL DEF Spec
<1>2. IInv /\ [Next]_vars =>
        [session'.token # session.token /\ session'.token # NoToken => asked \/ Event]_vars
  BY NextKeeps DEF Unasked
<1> QED
  BY <1>1, <1>2, PTL DEF Spec, NoUnaskedSignIn

-----------------------------------------------------------------------------
(* The grid's posters.  A slot of the cache that is loading has one task out, *)
(* which will find it as it was left: the fetcher neither loses a task nor    *)
(* gives its place to another before it is released, and no slot that loads   *)
(* is evicted.                                                                *)

(* What the grid's fetcher keeps to.                                          *)
GridPool(f) ==
  /\ f = [tasks |-> f.tasks, queue |-> f.queue, session |-> f.session]
  /\ f.tasks = [i \in SlotIds |-> f.tasks[i]]
  /\ \A i \in SlotIds: f.tasks[i] # Free =>
       IsTask(f.tasks[i])
       /\ f.tasks[i].job \in {"children", "poster"}
       /\ (f.tasks[i].job = "poster" => f.tasks[i].ask.slot \in Library!Caches)
  /\ f.queue \in Seq(SlotIds)
  /\ \A k \in 1..Len(f.queue): Is(f, f.queue[k], {"queued"})
  /\ \A j, k \in 1..Len(f.queue): f.queue[j] = f.queue[k] => j = k

IsSlot(s) ==
  /\ s = [id |-> s.id, texture |-> s.texture, loading |-> s.loading, age |-> s.age]
  /\ s.loading \in BOOLEAN /\ s.age \in 0..Library!Never
  /\ s.texture \in {Library!NoItem, s.id}

Brings(f, i, k) ==
  f.tasks[i] # Free /\ f.tasks[i].job = "poster" /\ f.tasks[i].ask.slot = k

(* The cache, against the tasks of a fetcher.                                 *)
Awaits(f, cache) ==
  /\ cache = [k \in Library!Caches |-> cache[k]]
  /\ \A k \in Library!Caches:
       /\ IsSlot(cache[k])
       /\ cache[k].loading = TRUE => \E i \in SlotIds: Brings(f, i, k)
       /\ \A i \in SlotIds: Brings(f, i, k) =>
            cache[k].loading = TRUE /\ f.tasks[i].ask.item = cache[k].id
       /\ \A i, j \in SlotIds: Brings(f, i, k) /\ Brings(f, j, k) => i = j

GridFit(f, cache) == GridPool(f) /\ Awaits(f, cache)

LEMMA GridLowest ==
  ASSUME NEW S \in SUBSET Nat, S # {} PROVE Library!Lowest(S) \in S
BY LeastExists DEF Library!Lowest

(* An evictable slot that was not drawn for the longest, when there is one.   *)
LEMMA OldestIsOne ==
  ASSUME NEW c, \A k \in Library!Caches: c.slots[k].age \in 0..Library!Never,
         Library!Evictable(c) # {}
  PROVE  Library!Oldest(c) \in Library!Evictable(c)
<1> DEFINE E == Library!Evictable(c)
           Left == {Library!Never - c.slots[k].age : k \in E}
           O == {k \in E: \A j \in E: c.slots[j].age <= c.slots[k].age}
<1>1. Library!Never \in Nat
  BY CacheSizeAssumption DEF CacheSizeAssumption, Library!Never
<1>2. E \subseteq Library!Caches
  BY DEF Library!Evictable
<1>3. Left \in SUBSET Nat /\ Left # {}
  BY <1>1, <1>2
<1>4. PICK n \in Left: \A m \in Left: n <= m
  BY <1>3, LeastExists
<1>5. PICK k \in E: n = Library!Never - c.slots[k].age
  BY <1>4
<1>6. \A j \in E: c.slots[j].age <= c.slots[k].age
  <2> SUFFICES ASSUME NEW j \in E PROVE c.slots[j].age <= c.slots[k].age
    OBVIOUS
  <2>1. /\ c.slots[j].age \in 0..Library!Never /\ c.slots[k].age \in 0..Library!Never
    BY <1>2
  <2>2. n <= Library!Never - c.slots[j].age
    BY <1>4
  <2> HIDE DEF E
  <2> QED
    BY <1>1, <1>5, <2>1, <2>2
<1>7. O # {} /\ O \in SUBSET Nat
  BY <1>2, <1>6 DEF Library!Caches
<1>8. Library!Lowest(O) \in O
  BY <1>7, GridLowest
<1> QED
  BY <1>8 DEF Library!Oldest

(* A task goes to a free place, and the queue.                                *)
LEMMA GridSubmitted ==
  ASSUME FreeIsNoTask, NEW f, GridPool(f), NEW job \in {"children", "poster"},
         NEW ask, job = "poster" => ask.slot \in Library!Caches,
         Library!FreeSlots(f) # {}
  PROVE  LET g == Library!Submitted(f, Library!Task(job, ask))
         IN  /\ GridPool(g)
             /\ \E n \in SlotIds:
                  /\ f.tasks[n] = Free /\ g.tasks[n] # Free
                  /\ g.tasks[n].job = job /\ g.tasks[n].ask = ask
                  /\ \A i \in SlotIds \ {n}: g.tasks[i] = f.tasks[i]
<1> DEFINE t == Library!Task(job, ask)
           g == Library!Submitted(f, t)
<1>1. PICK n: n = Library!Lowest(Library!FreeSlots(f))
  OBVIOUS
<1>2. n \in SlotIds /\ f.tasks[n] = Free
  BY <1>1, GridLowest, SlotsAreNumbers DEF Library!FreeSlots, Library!SlotIds, SlotIds
<1>3. IsTask(t) /\ t # Free /\ t.state = "queued" /\ t.job = job /\ t.ask = ask
  BY DEF FreeIsNoTask, Library!Task, IsTask
<1>4. PICK u: u = t
  OBVIOUS
<1>5. g = [f EXCEPT !.tasks[n] = u, !.queue = Append(@, n)]
  BY <1>1, <1>4 DEF Library!Submitted
<1> HIDE DEF t, g
<1>6. g = [tasks |-> [f.tasks EXCEPT ![n] = u], queue |-> Append(f.queue, n),
           session |-> f.session]
  BY <1>5 DEF GridPool
<1>7. /\ g.tasks = [k \in SlotIds |-> IF k = n THEN u ELSE f.tasks[k]]
      /\ g.queue = Append(f.queue, n) /\ g.session = f.session
  BY <1>6 DEF GridPool
<1>8. f.queue \in Seq(SlotIds) /\ Len(f.queue) \in Nat
  BY DEF GridPool
<1>9. /\ Len(g.queue) = Len(f.queue) + 1 /\ g.queue \in Seq(SlotIds)
      /\ \A k \in 1..Len(f.queue): g.queue[k] = f.queue[k]
      /\ g.queue[Len(f.queue) + 1] = n
  BY <1>2, <1>7, <1>8
<1>10. \A k \in 1..Len(f.queue): f.queue[k] # n
  BY <1>2 DEF GridPool, Is
<1>11. \A k \in 1..Len(g.queue): k \in 1..Len(f.queue) \/ k = Len(f.queue) + 1
  BY <1>8, <1>9
<1>12. \A j, k \in 1..Len(g.queue): g.queue[j] = g.queue[k] => j = k
  BY <1>9, <1>10, <1>11 DEF GridPool
<1>13. \A k \in 1..Len(g.queue): Is(g, g.queue[k], {"queued"})
  <2> SUFFICES ASSUME NEW k \in 1..Len(g.queue)
               PROVE  Is(g, g.queue[k], {"queued"})
    OBVIOUS
  <2>1. CASE k \in 1..Len(f.queue)
    <3>1. f.queue[k] \in SlotIds
      BY <1>8, <2>1
    <3> QED
      BY <1>7, <1>9, <1>10, <2>1, <3>1 DEF GridPool, Is
  <2>2. CASE k = Len(f.queue) + 1
    BY <1>2, <1>3, <1>4, <1>7, <1>9, <2>2 DEF Is
  <2> QED
    BY <1>11, <2>1, <2>2
<1>14. \A i \in SlotIds: g.tasks[i] # Free =>
         IsTask(g.tasks[i])
         /\ g.tasks[i].job \in {"children", "poster"}
         /\ (g.tasks[i].job = "poster" => g.tasks[i].ask.slot \in Library!Caches)
  BY <1>3, <1>4, <1>7 DEF GridPool
<1>15. GridPool(g)
  BY <1>6, <1>7, <1>9, <1>12, <1>13, <1>14 DEF GridPool
<1>16. /\ g.tasks[n] # Free /\ g.tasks[n].job = job /\ g.tasks[n].ask = ask
       /\ \A i \in SlotIds \ {n}: g.tasks[i] = f.tasks[i]
  BY <1>2, <1>3, <1>4, <1>7
<1> QED
  BY <1>2, <1>15, <1>16 DEF g, t

(* A page is asked for: the posters' tasks are as they were.                  *)
LEMMA PageAsked ==
  ASSUME FreeIsNoTask, NEW f, NEW cache, GridFit(f, cache), NEW ask
  PROVE  GridFit(Library!Submitted(f, Library!Task("children", ask)), cache)
<1> DEFINE g == Library!Submitted(f, Library!Task("children", ask))
<1>1. CASE Library!FreeSlots(f) = {}
  BY <1>1 DEF Library!Submitted
<1>2. CASE Library!FreeSlots(f) # {}
  <2>1. GridPool(g) /\ \E n \in SlotIds:
                         /\ f.tasks[n] = Free /\ g.tasks[n] # Free
                         /\ g.tasks[n].job = "children" /\ g.tasks[n].ask = ask
                         /\ \A i \in SlotIds \ {n}: g.tasks[i] = f.tasks[i]
    BY <1>2, GridSubmitted DEF GridFit
  <2> HIDE DEF g
  <2>2. \A i \in SlotIds, k \in Library!Caches:
          /\ Brings(g, i, k) <=> Brings(f, i, k)
          /\ Brings(f, i, k) => g.tasks[i] = f.tasks[i]
    BY <2>1 DEF Brings
  <2>3. Awaits(g, cache)
    BY <2>2 DEF GridFit, Awaits
  <2> QED
    BY <2>1, <2>3 DEF GridFit, g
<1> QED
  BY <1>1, <1>2

(* A poster is asked for, into a slot that is not loading.                    *)
LEMMA PosterAsked ==
  ASSUME FreeIsNoTask, NEW f, NEW cache, GridFit(f, cache), NEW item, NEW n \in Library!Caches,
         ~cache[n].loading, Library!FreeSlots(f) # {}
  PROVE  GridFit(Library!Submitted(f, Library!Task("poster", [item |-> item, slot |-> n])),
                 [cache EXCEPT ![n] = [id |-> item, texture |-> Library!NoItem,
                                       loading |-> TRUE, age |-> 0]])
<1> DEFINE g == Library!Submitted(f, Library!Task("poster", [item |-> item, slot |-> n]))
           s == [id |-> item, texture |-> Library!NoItem, loading |-> TRUE, age |-> 0]
<1>1. [item |-> item, slot |-> n].slot = n /\ [item |-> item, slot |-> n].item = item
  OBVIOUS
<1>2. PICK ask: ask = [item |-> item, slot |-> n]
  OBVIOUS
<1>3. GridPool(g) /\ \E m \in SlotIds:
                       /\ f.tasks[m] = Free /\ g.tasks[m] # Free
                       /\ g.tasks[m].job = "poster" /\ g.tasks[m].ask = ask
                       /\ \A i \in SlotIds \ {m}: g.tasks[i] = f.tasks[i]
  BY <1>1, <1>2, GridSubmitted DEF GridFit
<1>4. PICK m \in SlotIds:
        /\ f.tasks[m] = Free /\ g.tasks[m] # Free
        /\ g.tasks[m].job = "poster" /\ g.tasks[m].ask = ask
        /\ \A i \in SlotIds \ {m}: g.tasks[i] = f.tasks[i]
  BY <1>3
<1>5. IsSlot(s) /\ s.id = item /\ s.loading = TRUE
  BY CacheSizeAssumption DEF CacheSizeAssumption, IsSlot, Library!Never
<1>6. PICK new: new = s
  OBVIOUS
<1>7. PICK changed: changed = [cache EXCEPT ![n] = new]
  OBVIOUS
<1>8. changed = [k \in Library!Caches |-> IF k = n THEN new ELSE cache[k]]
  BY <1>7 DEF GridFit, Awaits
<1> HIDE DEF g, s
<1>9. \A i \in SlotIds: ~Brings(f, i, n)
  BY DEF GridFit, Awaits
<1>10. /\ \A i \in SlotIds: Brings(g, i, n) <=> i = m
       /\ \A i \in SlotIds, k \in Library!Caches \ {n}:
            /\ Brings(g, i, k) <=> Brings(f, i, k)
            /\ Brings(f, i, k) => g.tasks[i] = f.tasks[i]
  BY <1>1, <1>2, <1>4, <1>9 DEF Brings
<1>11. g.tasks[m].ask.item = item
  BY <1>1, <1>2, <1>4
<1>12. Awaits(g, changed)
  <2>1. changed = [k \in Library!Caches |-> changed[k]]
    BY <1>8
  <2>2. /\ IsSlot(changed[n]) /\ \E i \in SlotIds: Brings(g, i, n)
        /\ \A i \in SlotIds: Brings(g, i, n) =>
             changed[n].loading = TRUE /\ g.tasks[i].ask.item = changed[n].id
        /\ \A i, j \in SlotIds: Brings(g, i, n) /\ Brings(g, j, n) => i = j
    BY <1>5, <1>6, <1>8, <1>10, <1>11
  <2>3. ASSUME NEW k \in Library!Caches \ {n}
        PROVE  /\ IsSlot(changed[k])
               /\ changed[k].loading = TRUE => \E i \in SlotIds: Brings(g, i, k)
               /\ \A i \in SlotIds: Brings(g, i, k) =>
                    changed[k].loading = TRUE /\ g.tasks[i].ask.item = changed[k].id
               /\ \A i, j \in SlotIds: Brings(g, i, k) /\ Brings(g, j, k) => i = j
    BY <1>8, <1>10 DEF GridFit, Awaits
  <2> QED
    BY <2>1, <2>2, <2>3 DEF Awaits
<1> QED
  BY <1>3, <1>6, <1>7, <1>12 DEF GridFit, g, s

(* What a worker does to a task changes neither its job nor what it asks.     *)
LEMMA SameAsks ==
  ASSUME NEW f, NEW g, NEW cache, Awaits(f, cache),
         \A i \in SlotIds: /\ g.tasks[i] = Free <=> f.tasks[i] = Free
                           /\ f.tasks[i] # Free => /\ g.tasks[i].job = f.tasks[i].job
                                                   /\ g.tasks[i].ask = f.tasks[i].ask
  PROVE  Awaits(g, cache)
<1>1. \A i \in SlotIds, k \in Library!Caches:
        /\ Brings(g, i, k) <=> Brings(f, i, k)
        /\ Brings(f, i, k) => g.tasks[i].ask = f.tasks[i].ask
  BY DEF Brings
<1> QED
  BY <1>1 DEF Awaits

LEMMA GridTaken ==
  ASSUME FreeIsNoTask, NEW f, NEW cache, GridFit(f, cache), f.queue # <<>>
  PROVE  GridFit(Library!Taken(f), cache)
<1>1. PICK n: n = Head(f.queue)
  OBVIOUS
<1>2. /\ f.queue \in Seq(SlotIds) /\ Len(f.queue) \in Nat \ {0}
      /\ n = f.queue[1] /\ n \in SlotIds
  BY <1>1 DEF GridFit, GridPool
<1>3. f.tasks[n] # Free /\ IsTask(f.tasks[n])
  <2>1. 1 \in 1..Len(f.queue)
    BY <1>2
  <2> QED
    BY <1>2, <2>1 DEF GridFit, GridPool, Is
<1>4. PICK t: t = f.tasks[n]
  OBVIOUS
<1>5. PICK u: u = [job |-> t.job, ask |-> t.ask, live |-> t.live, state |-> "running",
                   session |-> f.session, reply |-> t.reply]
  OBVIOUS
<1>6. IsTask(u) /\ u # Free /\ u.job = t.job /\ u.ask = t.ask
  BY <1>5 DEF IsTask, FreeIsNoTask
<1>7. PICK g: g = Library!Taken(f)
  OBVIOUS
<1>8. g = [tasks |-> [f.tasks EXCEPT ![n] = u], queue |-> Tail(f.queue),
           session |-> f.session]
  <2>1. [[t EXCEPT !.state = "running"] EXCEPT !.session = f.session] = u
    BY <1>3, <1>4, <1>5, ChangedTask, Zenon
  <2>2. f.tasks = [i \in SlotIds |-> f.tasks[i]]
    BY DEF GridFit, GridPool
  <2>3. [[f.tasks EXCEPT ![n].state = "running"] EXCEPT ![n].session = f.session]
          = [f.tasks EXCEPT ![n] = u]
    BY <1>2, <1>4, <2>1, <2>2
  <2>4. f = [tasks |-> f.tasks, queue |-> f.queue, session |-> f.session]
    BY DEF GridFit, GridPool
  <2> QED
    BY <1>1, <1>7, <2>3, <2>4 DEF Library!Taken
<1>9. /\ g.tasks = [i \in SlotIds |-> IF i = n THEN u ELSE f.tasks[i]]
      /\ g.queue = Tail(f.queue) /\ g.session = f.session
  BY <1>8 DEF GridFit, GridPool
<1>10. /\ g.queue \in Seq(SlotIds) /\ Len(g.queue) = Len(f.queue) - 1
       /\ \A k \in 1..Len(g.queue): k + 1 \in 1..Len(f.queue) /\ g.queue[k] = f.queue[k + 1]
  BY <1>2, <1>9
<1>11. \A j, k \in 1..Len(g.queue): g.queue[j] = g.queue[k] => j = k
  <2> SUFFICES ASSUME NEW j \in 1..Len(g.queue), NEW k \in 1..Len(g.queue),
                      g.queue[j] = g.queue[k]
               PROVE  j = k
    OBVIOUS
  <2>1. j + 1 = k + 1
    BY <1>10 DEF GridFit, GridPool
  <2> QED
    BY <1>2, <1>10, <2>1
<1>12. \A k \in 1..Len(g.queue): Is(g, g.queue[k], {"queued"})
  <2> SUFFICES ASSUME NEW k \in 1..Len(g.queue) PROVE Is(g, g.queue[k], {"queued"})
    OBVIOUS
  <2>1. 1 \in 1..Len(f.queue) /\ k + 1 \in 1..Len(f.queue) /\ k + 1 # 1
    BY <1>2, <1>10
  <2>2. g.queue[k] # n /\ g.queue[k] \in SlotIds
    BY <1>2, <1>10, <2>1 DEF GridFit, GridPool
  <2>3. Is(f, g.queue[k], {"queued"})
    BY <1>10, <2>1 DEF GridFit, GridPool
  <2> QED
    BY <1>9, <2>2, <2>3 DEF Is
<1>13. GridPool(g)
  <2>1. \A i \in SlotIds: g.tasks[i] # Free =>
          IsTask(g.tasks[i])
          /\ g.tasks[i].job \in {"children", "poster"}
          /\ (g.tasks[i].job = "poster" => g.tasks[i].ask.slot \in Library!Caches)
    BY <1>2, <1>3, <1>4, <1>6, <1>9 DEF GridFit, GridPool
  <2>2. /\ g = [tasks |-> g.tasks, queue |-> g.queue, session |-> g.session]
        /\ g.tasks = [i \in SlotIds |-> g.tasks[i]]
    BY <1>8, <1>9
  <2> QED
    BY <1>10, <1>11, <1>12, <2>1, <2>2 DEF GridPool
<1>14. Awaits(g, cache)
  BY <1>2, <1>3, <1>4, <1>6, <1>9, SameAsks DEF GridFit
<1> QED
  BY <1>7, <1>13, <1>14 DEF GridFit

LEMMA GridAnswered ==
  ASSUME FreeIsNoTask, NEW f, NEW cache, GridFit(f, cache), NEW n \in SlotIds,
         Is(f, n, {"running"}), NEW state, NEW reply
  PROVE  GridFit(Library!Answered(f, n, state, reply), cache)
<1>1. PICK t: t = f.tasks[n]
  OBVIOUS
<1>2. PICK u: u = [job |-> t.job, ask |-> t.ask, live |-> t.live, state |-> state,
                   session |-> NoSession, reply |-> reply]
  OBVIOUS
<1>3. IsTask(u) /\ u # Free /\ u.job = t.job /\ u.ask = t.ask
  BY <1>2 DEF IsTask, FreeIsNoTask
<1>4. PICK g: g = Library!Answered(f, n, state, reply)
  OBVIOUS
<1>5. g = [tasks |-> [f.tasks EXCEPT ![n] = u], queue |-> f.queue, session |-> f.session]
  <2>1. [[[t EXCEPT !.state = state] EXCEPT !.reply = reply] EXCEPT !.session = NoSession] = u
    <3>1. IsTask(t)
      BY <1>1 DEF GridFit, GridPool, Is
    <3> QED
      BY <1>2, <3>1, ChangedTask, Zenon
  <2>2. f.tasks = [i \in SlotIds |-> f.tasks[i]]
    BY DEF GridFit, GridPool
  <2>3. [[[f.tasks EXCEPT ![n].state = state] EXCEPT ![n].reply = reply]
           EXCEPT ![n].session = NoSession] = [f.tasks EXCEPT ![n] = u]
    BY <1>1, <2>1, <2>2
  <2>4. f = [tasks |-> f.tasks, queue |-> f.queue, session |-> f.session]
    BY DEF GridFit, GridPool
  <2> QED
    BY <1>4, <2>3, <2>4 DEF Library!Answered
<1>6. /\ g.tasks = [i \in SlotIds |-> IF i = n THEN u ELSE f.tasks[i]]
      /\ g.queue = f.queue /\ g.session = f.session
  BY <1>5 DEF GridFit, GridPool
<1>7. \A k \in 1..Len(g.queue): Is(g, g.queue[k], {"queued"})
  <2> SUFFICES ASSUME NEW k \in 1..Len(g.queue) PROVE Is(g, g.queue[k], {"queued"})
    OBVIOUS
  <2>1. Is(f, f.queue[k], {"queued"}) /\ f.queue[k] \in SlotIds
    BY <1>6 DEF GridFit, GridPool
  <2> QED
    BY <1>6, <2>1 DEF Is
<1>8. GridPool(g)
  BY <1>1, <1>3, <1>5, <1>6, <1>7 DEF GridFit, GridPool, Is
<1>9. Awaits(g, cache)
  BY <1>1, <1>3, <1>6, SameAsks DEF GridFit, Is
<1> QED
  BY <1>4, <1>8, <1>9 DEF GridFit

(* A reply is taken, and its task's place is free.                            *)
LEMMA GridReleased ==
  ASSUME FreeIsNoTask, NEW f, GridPool(f), NEW n \in SlotIds, Is(f, n, {"ready", "failed"})
  PROVE  /\ GridPool(Library!Released(f, n))
         /\ \A i \in SlotIds: Library!Released(f, n).tasks[i] = IF i = n THEN Free ELSE f.tasks[i]
<1>1. PICK g: g = Library!Released(f, n)
  OBVIOUS
<1>2. /\ g.tasks = [i \in SlotIds |-> IF i = n THEN Free ELSE f.tasks[i]]
      /\ g.queue = f.queue /\ g.session = f.session
      /\ g = [tasks |-> g.tasks, queue |-> g.queue, session |-> g.session]
  BY <1>1 DEF Library!Released, Library!SlotIds, SlotIds, GridPool
<1>3. \A k \in 1..Len(g.queue): Is(g, g.queue[k], {"queued"})
  <2> SUFFICES ASSUME NEW k \in 1..Len(g.queue) PROVE Is(g, g.queue[k], {"queued"})
    OBVIOUS
  <2>1. Is(f, f.queue[k], {"queued"}) /\ f.queue[k] \in SlotIds
    BY <1>2 DEF GridPool
  <2> QED
    BY <1>2, <2>1 DEF Is
<1>4. GridPool(g)
  BY <1>2, <1>3 DEF GridPool
<1> QED
  BY <1>1, <1>2, <1>4

(* A frame, as it is drawn.                                                   *)
CanvasFit(c) ==
  /\ c = [f |-> c.f, requested |-> c.requested, slots |-> c.slots, posters |-> c.posters,
          again |-> c.again]
  /\ GridFit(c.f, c.slots)

LEMMA RequestedFits ==
  ASSUME FreeIsNoTask, NEW c, CanvasFit(c), NEW library, NEW page
  PROVE  CanvasFit(Library!Requested(c, library, page))
<1> DEFINE ask == [item |-> Library!Item(library, page), slot |-> 0]
           g == Library!Submitted(c.f, Library!Task("children", ask))
           ring == [c.requested EXCEPT ![Library!Ring(page)] = page]
<1>1. GridFit(g, c.slots)
  BY PageAsked DEF CanvasFit
<1>2. PICK h: h = g
  OBVIOUS
<1>3. PICK r: r = ring
  OBVIOUS
<1>4. CASE Library!Requested(c, library, page) = c
  BY <1>4
<1>5. CASE Library!Requested(c, library, page) = [c EXCEPT !.f = h, !.requested = r]
  <2> HIDE DEF g, ring
  <2>1. PICK d: d = [c EXCEPT !.f = h, !.requested = r]
    OBVIOUS
  <2>2. d = [f |-> h, requested |-> r, slots |-> c.slots, posters |-> c.posters,
             again |-> c.again]
    BY <2>1 DEF CanvasFit
  <2>3. CanvasFit(d)
    BY <1>1, <1>2, <2>2 DEF CanvasFit
  <2> QED
    BY <1>5, <2>1, <2>3
<1>6. \/ Library!Requested(c, library, page) = c
      \/ Library!Requested(c, library, page) = [c EXCEPT !.f = h, !.requested = r]
  BY <1>2, <1>3 DEF Library!Requested, CanvasFit
<1> QED
  BY <1>4, <1>5, <1>6

(* The grid counts as everyone does.                                          *)
LEMMA SameCount == ASSUME NEW S PROVE Library!Cardinality(S) = Cardinality(S)
BY DEF Library!Cardinality, Cardinality

(* While fewer tasks are out than the limit, a place is free.                 *)
LEMMA PlaceIsFree ==
  ASSUME NEW f, ~(Slots - Library!Cardinality(Library!FreeSlots(f)) >= PosterLimit)
  PROVE  Library!FreeSlots(f) # {}
<1>1. Library!Cardinality({}) = 0
  BY FS_EmptySet, SameCount
<1> QED
  BY <1>1, SlotsAssumption, PosterLimitAssumption DEF SlotsAssumption, PosterLimitAssumption

LEMMA ShownFits ==
  ASSUME NEW c, CanvasFit(c), NEW k \in Library!Caches
  PROVE  CanvasFit(Library!Shown(c, k))
<1>1. PICK s: s = c.slots[k]
  OBVIOUS
<1>2. PICK u: u = [s EXCEPT !.age = 0]
  OBVIOUS
<1>3. /\ IsSlot(u) /\ u.id = s.id /\ u.loading = s.loading
  <2>1. s = [id |-> s.id, texture |-> s.texture, loading |-> s.loading, age |-> s.age]
    BY <1>1 DEF CanvasFit, GridFit, Awaits, IsSlot
  <2>2. u = [id |-> s.id, texture |-> s.texture, loading |-> s.loading, age |-> 0]
    BY <1>2, <2>1
  <2>3. IsSlot(s)
    BY <1>1 DEF CanvasFit, GridFit, Awaits
  <2>4. 0 \in 0..Library!Never
    BY CacheSizeAssumption DEF CacheSizeAssumption, Library!Never
  <2>5. /\ u.id = s.id /\ u.texture = s.texture /\ u.loading = s.loading /\ u.age = 0
        /\ u = [id |-> u.id, texture |-> u.texture, loading |-> u.loading, age |-> u.age]
    BY <2>2
  <2> QED
    BY <2>3, <2>4, <2>5 DEF IsSlot
<1>4. PICK cache: cache = [n \in Library!Caches |-> IF n = k THEN u ELSE c.slots[n]]
  OBVIOUS
<1>5. Library!Shown(c, k) = [c EXCEPT !.slots = cache]
  BY <1>1, <1>2, <1>4 DEF Library!Shown, CanvasFit, GridFit, Awaits
<1>6. Awaits(c.f, cache)
  BY <1>1, <1>3, <1>4 DEF CanvasFit, GridFit, Awaits
<1>7. PICK d: d = [c EXCEPT !.slots = cache]
  OBVIOUS
<1>8. d = [f |-> c.f, requested |-> c.requested, slots |-> cache, posters |-> c.posters,
           again |-> c.again]
  BY <1>7 DEF CanvasFit
<1> QED
  BY <1>5, <1>6, <1>7, <1>8 DEF CanvasFit, GridFit

LEMMA ArtworkFits ==
  ASSUME FreeIsNoTask, NEW c, CanvasFit(c), NEW item
  PROVE  CanvasFit(Library!Artwork(c, item))
<1> DEFINE held == {k \in Library!Caches: c.slots[k].id = item}
<1>1. CASE held # {}
  <2>1. Library!Lowest(held) \in Library!Caches
    BY <1>1, GridLowest DEF Library!Caches
  <2>2. Library!Artwork(c, item) = Library!Shown(c, Library!Lowest(held))
    BY <1>1 DEF Library!Artwork
  <2> QED
    BY <2>1, <2>2, ShownFits
<1>2. CASE held = {} /\ Library!Artwork(c, item) = c
  BY <1>2
<1>3. CASE held = {} /\ Library!Artwork(c, item) = Library!GraceEnds(c)
  <2>1. PICK again: Library!GraceEnds(c) = [c EXCEPT !.again = again]
    BY DEF Library!GraceEnds
  <2>2. PICK d: d = [c EXCEPT !.again = again]
    OBVIOUS
  <2>3. d = [f |-> c.f, requested |-> c.requested, slots |-> c.slots, posters |-> c.posters,
             again |-> again]
    BY <2>2 DEF CanvasFit
  <2>4. CanvasFit(d)
    BY <2>3 DEF CanvasFit
  <2> QED
    BY <1>3, <2>1, <2>2, <2>4
<1>4. CASE /\ held = {}
           /\ ~(Slots - Library!Cardinality(Library!FreeSlots(c.f)) >= PosterLimit)
           /\ Library!Evictable(c) # {}
           /\ Library!Artwork(c, item) = Library!Fetching(c, Library!Oldest(c), item)
  <2>1. PICK k: k = Library!Oldest(c)
    OBVIOUS
  <2>2. k \in Library!Evictable(c)
    BY <1>4, <2>1, OldestIsOne DEF CanvasFit, GridFit, Awaits, IsSlot
  <2>3. k \in Library!Caches /\ ~c.slots[k].loading
    BY <2>2 DEF Library!Evictable
  <2>4. Library!FreeSlots(c.f) # {}
    BY <1>4, PlaceIsFree
  <2>5. PICK g: g = Library!Submitted(c.f, Library!Task("poster", [item |-> item, slot |-> k]))
    OBVIOUS
  <2>6. PICK cache: cache = [c.slots EXCEPT ![k] = [id |-> item, texture |-> Library!NoItem,
                                                    loading |-> TRUE, age |-> 0]]
    OBVIOUS
  <2>7. GridFit(g, cache)
    BY <2>3, <2>4, <2>5, <2>6, PosterAsked DEF CanvasFit
  <2>8. PICK d: d = Library!Fetching(c, k, item)
    OBVIOUS
  <2>9. PICK posters: d = [c EXCEPT !.f = g, !.slots = cache, !.posters = posters]
    BY <2>5, <2>6, <2>8 DEF Library!Fetching
  <2>10. d = [f |-> g, requested |-> c.requested, slots |-> cache, posters |-> posters,
              again |-> c.again]
    BY <2>9 DEF CanvasFit
  <2>11. CanvasFit(d)
    BY <2>7, <2>10 DEF CanvasFit
  <2> QED
    BY <1>4, <2>1, <2>8, <2>11
<1>5. CASE held = {}
  <2> DEFINE full == Slots - Library!Cardinality(Library!FreeSlots(c.f)) >= PosterLimit
  <2>1. CASE c.posters >= Burst \/ full
    <3>1. Library!Artwork(c, item) = c
      BY <1>5, <2>1 DEF Library!Artwork
    <3> QED
      BY <1>2, <1>5, <3>1
  <2>2. CASE ~(c.posters >= Burst \/ full) /\ Library!Evictable(c) = {}
    <3>1. Library!Artwork(c, item) = Library!GraceEnds(c)
      BY <1>5, <2>2 DEF Library!Artwork
    <3> QED
      BY <1>3, <1>5, <3>1
  <2>3. CASE ~(c.posters >= Burst \/ full) /\ Library!Evictable(c) # {}
    <3>1. Library!Artwork(c, item) = Library!Fetching(c, Library!Oldest(c), item)
      BY <1>5, <2>3 DEF Library!Artwork
    <3> QED
      BY <1>4, <1>5, <2>3, <3>1
  <2> QED
    BY <2>1, <2>2, <2>3
<1> QED
  BY <1>1, <1>5

LEMMA DrawRowFits ==
  ASSUME FreeIsNoTask, NEW c, CanvasFit(c), NEW page
  PROVE  CanvasFit(Library!DrawRow(c, page))
<1>1. PICK d: d = IF Library!GridCard(page) = Library!NoItem THEN c
                  ELSE Library!Artwork(c, Library!GridCard(page))
  OBVIOUS
<1>2. CanvasFit(d)
  BY <1>1, ArtworkFits
<1>3. CanvasFit(Library!Requested(d, parent, page))
  BY <1>2, RequestedFits
<1> QED
  BY <1>1, <1>3 DEF Library!DrawRow

GridInv == GridFit(gridFetcher, slots)

LEMMA GridInit == FreeIsNoTask /\ Library!Init => GridInv
<1> SUFFICES ASSUME FreeIsNoTask, Library!Init
             PROVE  GridInv
  OBVIOUS
<1>1. gridFetcher = [tasks |-> [i \in SlotIds |-> Free], queue |-> <<>>, session |-> NoSession]
  BY DEF Library!Init, Library!Empty, Library!SlotIds, SlotIds
<1>2. GridPool(gridFetcher)
  BY <1>1 DEF GridPool
<1>3. \A i \in SlotIds, k \in Library!Caches: ~Brings(gridFetcher, i, k)
  BY <1>1 DEF Brings
<1>4. IsSlot(Library!FreeCache) /\ Library!FreeCache.loading = FALSE
  BY CacheSizeAssumption DEF CacheSizeAssumption, IsSlot, Library!FreeCache, Library!Never
<1>5. slots = [k \in Library!Caches |-> Library!FreeCache]
  BY DEF Library!Init
<1>6. Awaits(gridFetcher, slots)
  BY <1>3, <1>4, <1>5 DEF Awaits
<1> QED
  BY <1>2, <1>6 DEF GridInv, GridFit

(* A page ring for, and nothing drawn.                                       *)
LEMMA AskingKeeps ==
  ASSUME FreeIsNoTask, GridInv, NEW ring, NEW library, NEW page,
         Library!Asking(ring, library, page), slots' = slots
  PROVE  GridInv'
<1>1. PICK c: c = Library!Canvas(gridFetcher, ring, slots, TRUE)
  OBVIOUS
<1>2. CanvasFit(c) /\ c.slots = slots
  BY <1>1 DEF Library!Canvas, CanvasFit, GridInv
<1>3. PICK d: d = Library!Requested(c, library, page)
  OBVIOUS
<1>4. CanvasFit(d) /\ d.slots = c.slots
  <2>1. CanvasFit(d)
    BY <1>2, <1>3, RequestedFits
  <2>2. d.slots = c.slots
    BY <1>2, <1>3 DEF Library!Requested, CanvasFit
  <2> QED
    BY <2>1, <2>2
<1> QED
  BY <1>1, <1>2, <1>3, <1>4 DEF Library!Asking, CanvasFit, GridInv

(* Ageing changes nothing else of a slot.                                     *)
LEMMA AgedAwaits ==
  ASSUME NEW f, Awaits(f, slots) PROVE Awaits(f, Library!Aged)
<1>1. PICK cache: cache = Library!Aged
  OBVIOUS
<1>2. ASSUME NEW k \in Library!Caches
      PROVE  /\ IsSlot(cache[k]) /\ cache[k].id = slots[k].id
             /\ cache[k].loading = slots[k].loading
  <2>1. PICK s: s = slots[k]
    OBVIOUS
  <2>2. IsSlot(s)
    BY <2>1 DEF Awaits
  <2>3. PICK age: age = IF s.age < MaxAge THEN s.age + 1 ELSE s.age
    OBVIOUS
  <2>4. age \in 0..Library!Never
    BY <2>2, <2>3, CacheSizeAssumption DEF CacheSizeAssumption, IsSlot, Library!Never
  <2>5. cache[k] = [s EXCEPT !.age = age]
    BY <1>1, <2>1, <2>3 DEF Library!Aged
  <2>6. cache[k] = [id |-> s.id, texture |-> s.texture, loading |-> s.loading, age |-> age]
    BY <2>2, <2>5 DEF IsSlot
  <2> QED
    BY <2>1, <2>2, <2>4, <2>6 DEF IsSlot
<1>3. cache = [k \in Library!Caches |-> cache[k]]
  BY <1>1 DEF Library!Aged
<1> QED
  BY <1>1, <1>2, <1>3 DEF Awaits

LEMMA DrawKeeps == ASSUME FreeIsNoTask, GridInv, Library!Draw PROVE GridInv'
<1>1. PICK blank: blank = Library!Canvas(gridFetcher, requested, Library!Aged, FALSE)
  OBVIOUS
<1>2. CanvasFit(blank)
  BY <1>1, AgedAwaits DEF Library!Canvas, CanvasFit, GridInv, GridFit
<1>3. PICK c: c = Library!DrawRow(Library!DrawRow(blank, selected), selected + 1)
  OBVIOUS
<1>4. CanvasFit(c)
  BY <1>2, <1>3, DrawRowFits
<1>5. gridFetcher' = c.f /\ slots' = c.slots
  BY <1>1, <1>3 DEF Library!Draw
<1> QED
  BY <1>4, <1>5 DEF CanvasFit, GridInv

LEMMA GridConsumeKeeps ==
  ASSUME FreeIsNoTask, GridInv, NEW i \in Library!SlotIds, Library!Consume(i) PROVE GridInv'
<1>1. PICK f: f = gridFetcher
  OBVIOUS
<1>2. PICK g: g = Library!Released(f, i)
  OBVIOUS
<1>3. PICK t: t = f.tasks[i]
  OBVIOUS
<1>4. i \in SlotIds /\ Is(f, i, {"ready", "failed"})
  <2>1. /\ Library!Finished # {} /\ Library!Finished \subseteq SlotIds
        /\ i = Library!Lowest(Library!Finished)
    BY DEF Library!Consume, Library!IsNext, Library!Finished, Library!InState, Library!SlotIds,
           SlotIds
  <2>2. i \in Library!Finished
    BY <2>1, GridLowest, SlotsAreNumbers
  <2> QED
    BY <1>1, <2>2 DEF Library!Finished, Library!InState, Library!FreeSlots, Library!SlotIds,
                      SlotIds, Is
<1>5. /\ GridPool(g)
      /\ \A n \in SlotIds: g.tasks[n] = IF n = i THEN Free ELSE f.tasks[n]
  BY <1>1, <1>2, <1>4, GridReleased DEF GridInv, GridFit
<1>6. gridFetcher' = g
  BY <1>1, <1>2 DEF Library!Consume
<1>7. \A n \in SlotIds, k \in Library!Caches:
        /\ Brings(g, n, k) <=> n # i /\ Brings(f, n, k)
        /\ Brings(g, n, k) => g.tasks[n] = f.tasks[n]
  BY <1>5 DEF Brings
<1>8. CASE t.job = "children"
  <2>1. slots' = slots
    BY <1>1, <1>3, <1>8 DEF Library!Consume, Library!PageArrives, Library!PageFails
  <2>2. \A k \in Library!Caches: ~Brings(f, i, k)
    BY <1>3, <1>8 DEF Brings
  <2>3. Awaits(g, slots)
    BY <1>1, <1>7, <2>2 DEF GridInv, GridFit, Awaits
  <2> QED
    BY <1>5, <1>6, <2>1, <2>3 DEF GridInv, GridFit
<1>9. CASE t.job # "children"
  <2>1. PICK k \in Library!Caches: k = t.ask.slot /\ Brings(f, i, k)
    BY <1>1, <1>3, <1>4, <1>9 DEF GridInv, GridFit, GridPool, Is, Brings
  <2>2. PICK s: s = slots[k]
    OBVIOUS
  <2>3. s.loading = TRUE /\ t.ask.item = s.id /\ IsSlot(s)
    BY <1>1, <1>3, <1>4, <2>1, <2>2 DEF GridInv, GridFit, Awaits
  <2>4. PICK u: /\ \/ u = [[s EXCEPT !.texture = t.ask.item] EXCEPT !.loading = FALSE]
                   \/ u = [s EXCEPT !.loading = FALSE]
                /\ slots' = [n \in Library!Caches |-> IF n = k THEN u ELSE slots[n]]
    <3>1. slots = [n \in Library!Caches |-> slots[n]]
      BY DEF GridInv, GridFit, Awaits
    <3>2. CASE Library!PosterArrives(k, t.ask.item)
      <4>1. slots' = [[slots EXCEPT ![k].texture = t.ask.item] EXCEPT ![k].loading = FALSE]
        BY <3>2 DEF Library!PosterArrives
      <4> QED
        BY <2>2, <3>1, <4>1
    <3>3. CASE Library!PosterFails(k)
      BY <2>2, <3>1, <3>3 DEF Library!PosterFails
    <3> QED
      BY <1>1, <1>3, <1>9, <2>1, <3>2, <3>3 DEF Library!Consume
  <2>5. \E texture \in {Library!NoItem, s.id}:
          u = [id |-> s.id, texture |-> texture, loading |-> FALSE, age |-> s.age]
    BY <2>3, <2>4 DEF IsSlot
  <2>6. IsSlot(u) /\ u.id = s.id /\ u.loading = FALSE
    BY <2>3, <2>5 DEF IsSlot
  <2>7. \A n \in SlotIds: ~Brings(g, n, k)
    BY <1>1, <1>4, <1>7, <2>1 DEF GridInv, GridFit, Awaits
  <2>8. PICK cache: cache = slots'
    OBVIOUS
  <2>9. Awaits(g, cache)
    <3>1. cache = [n \in Library!Caches |-> cache[n]]
      BY <2>4, <2>8
    <3>2. ASSUME NEW n \in Library!Caches \ {k}
          PROVE  /\ IsSlot(cache[n])
                 /\ cache[n].loading = TRUE => \E m \in SlotIds: Brings(g, m, n)
                 /\ \A m \in SlotIds: Brings(g, m, n) =>
                      cache[n].loading = TRUE /\ g.tasks[m].ask.item = cache[n].id
                 /\ \A j, m \in SlotIds: Brings(g, j, n) /\ Brings(g, m, n) => j = m
      <4>1. cache[n] = slots[n] /\ ~Brings(f, i, n)
        BY <2>1, <2>4, <2>8 DEF Brings
      <4> QED
        BY <1>1, <1>7, <4>1 DEF GridInv, GridFit, Awaits
    <3>3. IsSlot(cache[k]) /\ cache[k].loading = FALSE
      BY <2>4, <2>6, <2>8
    <3> QED
      BY <2>7, <3>1, <3>2, <3>3 DEF Awaits
  <2> QED
    BY <1>5, <1>6, <2>8, <2>9 DEF GridInv, GridFit
<1> QED
  BY <1>8, <1>9

LEMMA GridStep ==
  ASSUME FreeIsNoTask, GridInv, [Library!Next]_(Library!vars) PROVE GridInv'
<1>1. CASE UNCHANGED <<gridFetcher, slots>>
  BY <1>1 DEF GridInv
<1>2. CASE Library!Draw
  BY <1>2, DrawKeeps
<1>3. CASE Library!Leave \/ \E page \in 0..total - 1: Library!Reenter(page)
  BY <1>1, <1>3 DEF Library!Leave, Library!Reenter
<1>4. CASE Library!TakeTask
  <2>1. /\ gridFetcher.queue # <<>> /\ gridFetcher' = Library!Taken(gridFetcher)
        /\ slots' = slots
    BY <1>4 DEF Library!TakeTask, Library!Take
  <2> QED
    BY <2>1, GridTaken DEF GridInv
<1>5. ASSUME NEW library, NEW page, Library!Open(library, page) PROVE GridInv'
  <2>1. \E ring: Library!Asking(ring, library, 0) /\ slots' = slots
    BY <1>5 DEF Library!Open
  <2> QED
    BY <2>1, AskingKeeps
<1>6. ASSUME NEW page, Library!Move(page) PROVE GridInv'
  <2>1. Library!Asking(requested, parent, page) /\ slots' = slots
    BY <1>6 DEF Library!Move
  <2> QED
    BY <2>1, AskingKeeps
<1>7. ASSUME NEW i \in Library!SlotIds, Library!Consume(i) PROVE GridInv'
  BY <1>7, GridConsumeKeeps
<1>8. ASSUME NEW i \in Library!SlotIds, Library!Serve(i) \/ Library!Fail(i) PROVE GridInv'
  <2>1. i \in SlotIds /\ Is(gridFetcher, i, {"running"})
    BY <1>8 DEF Library!Serve, Library!Fail, Library!Running, Library!InState,
                Library!FreeSlots, Library!SlotIds, SlotIds, Is
  <2>2. /\ slots' = slots
        /\ \E state: gridFetcher' = Library!Answered(gridFetcher, i, state, NoReply)
    BY <1>8 DEF Library!Serve, Library!Fail
  <2> QED
    BY <2>1, <2>2, GridAnswered DEF GridInv
<1>9. CASE UNCHANGED Library!vars
  BY <1>1, <1>9 DEF Library!vars
<1> QED
  BY <1>2, <1>3, <1>4, <1>5, <1>6, <1>7, <1>8, <1>9 DEF Library!Next, Library!Work

LEMMA SlotsAwaitTheirItems == GridInv => SlotAwaitsItsItem
<1> SUFFICES ASSUME GridInv, NEW k \in Library!Caches
             PROVE  /\ slots[k].loading => Library!Cardinality(Library!PosterTasks(k)) = 1
                    /\ \A i \in Library!PosterTasks(k):
                         slots[k].loading /\ gridFetcher.tasks[i].ask.item = slots[k].id
                    /\ slots[k].texture \in {Library!NoItem, slots[k].id}
  BY DEF SlotAwaitsItsItem, Library!SlotAwaitsItsItem
<1>1. \A i: i \in Library!PosterTasks(k) <=> i \in SlotIds /\ Brings(gridFetcher, i, k)
  BY DEF Library!PosterTasks, Library!FreeSlots, Library!SlotIds, SlotIds, Brings
<1>2. ASSUME slots[k].loading PROVE Library!Cardinality(Library!PosterTasks(k)) = 1
  <2>1. slots[k].loading = TRUE
    BY <1>2 DEF GridInv, GridFit, Awaits, IsSlot
  <2>2. PICK i \in SlotIds: Brings(gridFetcher, i, k)
    BY <2>1 DEF GridInv, GridFit, Awaits
  <2>3. Library!PosterTasks(k) = {i}
    BY <1>1, <2>2 DEF GridInv, GridFit, Awaits
  <2> QED
    BY <2>3, FS_Singleton, SameCount
<1> QED
  BY <1>1, <1>2 DEF GridInv, GridFit, Awaits, IsSlot

(* A slot of the cache that is loading has exactly one request out, for its   *)
(* item, no other slot has any, and what it holds is its item's poster:       *)
(* jf_fetcher_poll's replies, in any order, with eviction in between.         *)
THEOREM PostersComeBack ==
  ASSUME FreeIsNoTask PROVE Library!Spec => []SlotAwaitsItsItem
<1>1. Library!Init => GridInv
  BY GridInit
<1>2. GridInv /\ [Library!Next]_(Library!vars) => GridInv'
  BY GridStep
<1>3. GridInv => SlotAwaitsItsItem
  BY SlotsAwaitTheirItems
<1> QED
  BY <1>1, <1>2, <1>3, PTL DEF Library!Spec
=============================================================================
