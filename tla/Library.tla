------------------------------- MODULE Library ------------------------------
(***************************************************************************)
(* A library's poster grid in app/main.c: a window of a few pages of a     *)
(* much longer list, asked for as the selection moves and as rows are      *)
(* drawn, and a cache of artwork, asked for by drawing it; both through    *)
(* one fetcher, which answers in any order.  Items of a page come and go   *)
(* together, so a page stands for its one item here.  A frame is drawn     *)
(* only when something asked for one, and drawing it is one step.  The     *)
(* network may fail a request; what an HTTP error does is SignIn's.        *)
(***************************************************************************)
EXTENDS Fetcher, Integers

CONSTANTS Libraries, Length,   \* and how many pages each has
          WindowPages,         \* WINDOW_PAGES
          CacheSize,           \* CACHE_SIZE
          Burst, PosterLimit,  \* posters asked for in a frame; tasks beyond
                               \* which none is asked for
          MaxAge,              \* bound: frames after which a slot is no older
          MaxEvents            \* bound: keys pressed and requests failed

VARIABLES
  onGrid, parent, total,     \* screen, grid_parent, grid_total
  selected, requested,       \* grid_selected, grid_requested
  window,                    \* grid_cards and grid_at
  slots,                     \* slots, each with its age in frames
  frameRequested,            \* jf_window_frame_requested
  events

gridVars == <<onGrid, parent, total, selected, requested, window>>
vars == <<fetcher, gridVars, slots, frameRequested, events>>

Caches == 1..CacheSize
Rings == 0..WindowPages - 1
NoPage == 1000                 \* UINT32_MAX
Never == MaxAge + 1            \* used is 0
NoItem == [of |-> "none", page |-> NoPage]
Item(library, page) == [of |-> library, page |-> page]
Ring(page) == page % WindowPages
FreeCache == [id |-> NoItem, texture |-> NoItem, loading |-> FALSE, age |-> Never]
Cards == [at |-> NoPage, item |-> NoItem]

Init ==
  /\ fetcher = Empty(NoSession)
  /\ onGrid = FALSE /\ parent = "none" /\ total = 0 /\ selected = 0
  /\ requested = [r \in Rings |-> NoPage] /\ window = [r \in Rings |-> Cards]
  /\ slots = [k \in Caches |-> FreeCache]
  /\ frameRequested = FALSE /\ events = 0

-----------------------------------------------------------------------------
(* What a step changes as it goes along: the fetcher, grid_requested, the  *)
(* cache, the posters asked for this frame, and whether another is wanted. *)
Canvas(f, asked, cache, again) ==
  [f |-> f, requested |-> asked, slots |-> cache, posters |-> 0, again |-> again]

(* request_page: unless asked for already, and if a task is to be had.     *)
Requested(c, library, page) ==
  IF c.requested[Ring(page)] = page \/ FreeSlots(c.f) = {} THEN c
  ELSE [c EXCEPT !.f = Submitted(@, Task("children", [item |-> Item(library, page), slot |-> 0])),
                 !.requested[Ring(page)] = page]

(* A slot neither loading nor drawn in this frame or the one before.       *)
Evictable(c) == {k \in Caches: ~c.slots[k].loading /\ c.slots[k].age >= 2}
Oldest(c) ==
  Lowest({k \in Evictable(c): \A j \in Evictable(c): c.slots[j].age <= c.slots[k].age})

Shown(c, k) == [c EXCEPT !.slots[k].age = 0]
Fetching(c, k, item) ==
  [c EXCEPT !.f = Submitted(@, Task("poster", [item |-> item, slot |-> k])),
            !.slots[k] = [id |-> item, texture |-> NoItem, loading |-> TRUE, age |-> 0],
            !.posters = @ + 1]

(* The grace the frame before gives the last screen's slots ends with      *)
(* another frame, even if nothing is in flight to bring one.               *)
GraceIgnored(c) == c    \* mutant
GraceEnds(c) ==
  [c EXCEPT !.again = @ \/ \E k \in Caches: ~c.slots[k].loading /\ c.slots[k].age > 0]

Artwork(c, item) ==
  LET held == {k \in Caches: c.slots[k].id = item}
  IN IF held # {} THEN Shown(c, Lowest(held))
     ELSE IF c.posters >= Burst \/ Slots - Cardinality(FreeSlots(c.f)) >= PosterLimit THEN c
     ELSE IF Evictable(c) = {} THEN GraceEnds(c)
     ELSE Fetching(c, Oldest(c), item)

GridCard(page) ==
  IF window[Ring(page)].at = page THEN window[Ring(page)].item ELSE NoItem

(* The selected row and the next one are on screen.                        *)
Visible == IF onGrid THEN {p \in {selected, selected + 1}: p < total} ELSE {}
DrawRow(c, page) ==
  IF page \notin Visible THEN c
  ELSE Requested(IF GridCard(page) = NoItem THEN c ELSE Artwork(c, GridCard(page)), parent, page)

Aged == [k \in Caches |-> [slots[k] EXCEPT !.age = IF @ < MaxAge THEN @ + 1 ELSE @]]

(* build_ui: on any other screen nothing of the grid is drawn, but the     *)
(* frames go by.                                                           *)
Draw ==
  /\ frameRequested
  /\ LET blank == Canvas(fetcher, requested, Aged, FALSE)
         c == DrawRow(DrawRow(blank, selected), selected + 1)
     IN /\ fetcher' = c.f /\ requested' = c.requested /\ slots' = c.slots
        /\ frameRequested' = c.again
  /\ UNCHANGED <<onGrid, parent, total, selected, window, events>>

-----------------------------------------------------------------------------
Event == events < MaxEvents /\ events' = events + 1
Asking(asked, library, page) ==
  LET c == Requested(Canvas(fetcher, asked, slots, TRUE), library, page)
  IN fetcher' = c.f /\ requested' = c.requested

(* open_grid, from whichever screen; pop then selects the card it recalls. *)
Open(library, page) ==
  /\ Event /\ ~onGrid /\ onGrid' = TRUE /\ parent' = library /\ total' = 0
  /\ selected' = page /\ window' = [r \in Rings |-> Cards] /\ frameRequested' = TRUE
  /\ Asking([r \in Rings |-> NoPage], library, 0)
  /\ UNCHANGED slots

(* pop, back to the grid whose pages are still held.                       *)
Reenter(page) ==
  /\ Event /\ ~onGrid /\ total # 0 /\ onGrid' = TRUE /\ frameRequested' = TRUE
  /\ selected' = page
  /\ UNCHANGED <<fetcher, parent, total, requested, window, slots>>

Leave ==
  /\ Event /\ onGrid /\ onGrid' = FALSE /\ frameRequested' = TRUE
  /\ UNCHANGED <<fetcher, parent, total, selected, requested, window, slots>>

(* move_grid.                                                              *)
Moves == {selected - 1, selected + 1} \cap 0..total - 1
Move(page) ==
  /\ Event /\ onGrid /\ page \in Moves
  /\ selected' = page /\ frameRequested' = TRUE
  /\ Asking(requested, parent, page)
  /\ UNCHANGED <<onGrid, parent, total, window, slots>>

-----------------------------------------------------------------------------
(* consume: a reply lands where its page belongs, whichever library it is  *)
(* of; a poster in the slot that was kept for it.                          *)

PageArrives(item) ==
  /\ total' = Length[item.of]
  /\ window' = [window EXCEPT ![Ring(item.page)] = [at |-> item.page, item |-> item]]
  /\ UNCHANGED <<requested, slots>>
PageFails(item) ==
  /\ requested' = [requested EXCEPT ![Ring(item.page)] = NoPage]
  /\ UNCHANGED <<total, window, slots>>
PosterForgets(k, item) ==    \* mutant: the slot goes on loading
  /\ slots' = [slots EXCEPT ![k].texture = item]
  /\ UNCHANGED <<total, window, requested>>
PosterArrives(k, item) ==
  /\ slots' = [slots EXCEPT ![k].texture = item, ![k].loading = FALSE]
  /\ UNCHANGED <<total, window, requested>>
PosterFails(k) ==
  /\ slots' = [slots EXCEPT ![k].loading = FALSE]
  /\ UNCHANGED <<total, window, requested>>

Consume(i) ==
  /\ IsNext(i)
  /\ LET task == fetcher.tasks[i]
         ready == task.state = "ready"
     IN IF task.job = "children"
        THEN IF ready THEN PageArrives(task.ask.item) ELSE PageFails(task.ask.item)
        ELSE IF ready THEN PosterArrives(task.ask.slot, task.ask.item)
             ELSE PosterFails(task.ask.slot)
  /\ fetcher' = Released(fetcher, i) /\ frameRequested' = TRUE
  /\ UNCHANGED <<onGrid, parent, selected, events>>

TakeTask == Take /\ UNCHANGED <<gridVars, slots, frameRequested, events>>
Serve(i) ==
  /\ i \in Running /\ fetcher' = Answered(fetcher, i, "ready", NoReply)
  /\ UNCHANGED <<gridVars, slots, frameRequested, events>>
Fail(i) ==
  /\ i \in Running /\ Event /\ fetcher' = Answered(fetcher, i, "failed", NoReply)
  /\ UNCHANGED <<gridVars, slots, frameRequested>>

Work(i) == Consume(i) \/ Serve(i)
Next ==
  \/ Draw \/ Leave \/ TakeTask
  \/ \E page \in 0..total - 1: Reenter(page)
  \/ \E library \in Libraries: \E page \in 0..Length[library] - 1: Open(library, page)
  \/ \E page \in Moves: Move(page)
  \/ \E i \in SlotIds: Work(i) \/ Fail(i)

Spec == Init /\ [][Next]_vars

(* The UI's loop runs on, and so do the workers: a frame that was asked    *)
(* for is drawn (weak fairness of Draw, with its guard written out).       *)
FairSpec ==
  /\ Spec /\ WF_vars(TakeTask) /\ \A i \in SlotIds: WF_vars(Work(i))
  /\ []<>~frameRequested \/ []<><<Draw>>_vars

-----------------------------------------------------------------------------
(* Every variable has its type.                                            *)
Pages == 0..10 \cup {NoPage}
Items == {NoItem} \cup [of: Libraries, page: Pages]
TypeOK ==
  /\ {onGrid, frameRequested} \subseteq BOOLEAN /\ selected \in 0..10 /\ total \in 0..10
  /\ requested \in [Rings -> Pages] /\ window \in [Rings -> [at: Pages, item: Items]]
  /\ slots \in [Caches -> [id: Items, texture: Items, loading: BOOLEAN, age: 0..Never]]
  /\ events \in 0..MaxEvents

Shelf == UNION {{Item(library, page): page \in 0..Length[library] - 1}: library \in Libraries}

(* A poster comes back to the slot that asked for it: a slot that is       *)
(* loading has exactly one request out, for its item, and no other has.    *)
PosterTasks(k) ==
  {i \in SlotIds \ FreeSlots(fetcher):
     fetcher.tasks[i].job = "poster" /\ fetcher.tasks[i].ask.slot = k}
SlotAwaitsItsItem ==
  \A k \in Caches:
    /\ slots[k].loading => Cardinality(PosterTasks(k)) = 1
    /\ \A i \in PosterTasks(k): slots[k].loading /\ fetcher.tasks[i].ask.item = slots[k].id
    /\ slots[k].texture \in {NoItem, slots[k].id}

(* Every card on screen gets its poster, or the placeholder it keeps when  *)
(* there is none, though each frame asks for only a few and frames stop    *)
(* when nothing asks for them.                                             *)
OnScreen(item) == \E p \in Visible: GridCard(p) = item
Settled(item) == \E k \in Caches: slots[k].id = item /\ ~slots[k].loading
PostersSettle ==
  \A item \in Shelf: (OnScreen(item) ~> Settled(item) \/ ~OnScreen(item))

(* "unless that page is already in the window or already in flight"        *)
(* (main.c:954): what grid_requested names is one or the other.            *)
RequestedIsComing ==
  onGrid => \A r \in Rings:
    requested[r] # NoPage =>
      \/ GridCard(requested[r]) = Item(parent, requested[r])
      \/ \E i \in SlotIds \ FreeSlots(fetcher):
           fetcher.tasks[i].job = "children"
             /\ fetcher.tasks[i].ask.item = Item(parent, requested[r])
=============================================================================
