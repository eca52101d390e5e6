---------------------------- MODULE ScreensProofs ----------------------------
(* For any libraries, series and episodes, a stack of any size and any number *)
(* of requests at once: replies belong to what is shown, the screen says of   *)
(* playback what the player was told, and Back returns to what was left.      *)
EXTENDS Screens, SequenceTheorems, TLAPS

(* The steps that touch neither what is playing nor what is shown.            *)
Still == UNCHANGED <<place, playback>>

(* Rows are emptied when their card is opened, and filled for no other.       *)
RowsInv ==
  /\ ~recalled => seasons \in {None, detail}
  /\ episodes \in {None, season}

NeighboursInv ==
  item # None => /\ previous \in {None, Neighbour(item, -1)}
                 /\ next \in {None, Neighbour(item, 1)}

LEMMA PopKeepsRows == ASSUME RowsInv, Pop PROVE RowsInv'
<1>1. CASE UNCHANGED place
  BY <1>1 DEF place, RowsInv
<1>2. ASSUME NEW entry, PopTo(entry) PROVE RowsInv'
  BY <1>2 DEF PopTo, OpenGrid, OpenDetails, OpenSeason, RowsInv
<1> QED
  BY <1>1, <1>2 DEF Pop

LEMMA RowsStep == ASSUME RowsInv, [Next]_vars PROVE RowsInv'
<1>1. CASE UNCHANGED <<detail, recalled, seasons, season, episodes>>
  BY <1>1 DEF RowsInv
<1>2. CASE OpenCard
  BY <1>2 DEF OpenCard, OpenGrid, OpenDetails, OpenSeason, RowsInv
<1>3. CASE Settings \/ BlueButton
  BY <1>1, <1>3 DEF Settings, BlueButton, SignOut, GoTo, place
<1>4. CASE OpenSidebar \/ CloseSidebar \/ SidebarSettles
  BY <1>1, <1>4 DEF OpenSidebar, CloseSidebar, SidebarSettles, place
<1>5. CASE ActivateSidebar
  BY <1>1, <1>5 DEF ActivateSidebar, OpenGrid, GoTo
<1>6. CASE Play \/ PlayAdjacent
  BY <1>1, <1>6 DEF Play, PlayAdjacent, GoTo, place
<1>7. CASE Toggle \/ OpenPicker \/ PlayerEnds
  BY <1>1, <1>7 DEF Toggle, OpenPicker, PlayerEnds, place
<1>8. CASE PressBar \/ RepeatBar \/ ReleaseBar
  BY <1>1, <1>8 DEF PressBar, RepeatBar, ReleaseBar, place
<1>9. CASE Back
  <2>1. UNCHANGED <<detail, recalled, seasons, season, episodes>> \/ Pop
    BY <1>9 DEF Back, ClosePicker, BackFrom, GoTo, place
  <2> QED
    BY <1>1, <2>1, PopKeepsRows
<1>10. CASE Reply
  BY <1>10 DEF Reply, SeasonsArrive, EpisodesArrive, ChildrenArrive, place, RowsInv
<1>11. CASE SignedIn \/ Failure
  BY <1>1, <1>11 DEF SignedIn, Failure, GoTo, place
<1>12. CASE UNCHANGED vars
  BY <1>1, <1>12 DEF vars, place
<1> QED
  BY <1>2, <1>3, <1>4, <1>5, <1>6, <1>7, <1>8, <1>9, <1>10, <1>11, <1>12 DEF Next

(* The steps after which the item and its neighbours may be others.           *)
LEMMA NeighboursStep == ASSUME NeighboursInv, [Next]_vars PROVE NeighboursInv'
<1>1. CASE UNCHANGED <<item, previous, next>>
  BY <1>1 DEF NeighboursInv
<1>2. CASE OpenCard \/ Settings \/ BlueButton
  BY <1>1, <1>2 DEF OpenCard, Settings, BlueButton, playback
<1>3. CASE OpenSidebar \/ CloseSidebar \/ ActivateSidebar \/ SidebarSettles
  BY <1>1, <1>3 DEF OpenSidebar, CloseSidebar, ActivateSidebar, SidebarSettles, playback
<1>4. ASSUME NEW id, NowPlays(id) PROVE NeighboursInv'
  BY <1>4 DEF NowPlays, NeighboursInv
<1>5. CASE Play \/ PlayAdjacent
  BY <1>1, <1>4, <1>5 DEF Play, PlayAdjacent
<1>6. CASE Toggle \/ OpenPicker \/ PlayerEnds
  BY <1>1, <1>6 DEF Toggle, OpenPicker, PlayerEnds
<1>7. CASE PressBar \/ RepeatBar \/ ReleaseBar
  BY <1>1, <1>7 DEF PressBar, RepeatBar, ReleaseBar, playback
<1>8. CASE Back
  <2>1. item' = None \/ UNCHANGED <<item, previous, next>>
    BY <1>8 DEF Back, ClosePicker, Leave, playback
  <2> QED
    BY <1>1, <2>1 DEF NeighboursInv
<1>9. CASE Reply
  <2>1. UNCHANGED <<item, previous, next>> \/ \E task: AdjacentArrives(task)
    BY <1>9 DEF Reply, InfoArrives, playback
  <2>2. ASSUME NEW task, AdjacentArrives(task) PROVE NeighboursInv'
    BY <2>2 DEF AdjacentArrives, NeighboursInv
  <2> QED
    BY <1>1, <2>1, <2>2
<1>10. CASE SignedIn \/ Failure
  BY <1>1, <1>10 DEF SignedIn, Failure, playback
<1>11. CASE UNCHANGED vars
  BY <1>1, <1>11 DEF vars, playback
<1> QED
  BY <1>2, <1>3, <1>5, <1>6, <1>7, <1>8, <1>9, <1>10, <1>11 DEF Next

(* What replies bring belongs to what is shown: consume compares each with    *)
(* the card, the season or the item it is for (main.c:1443, 1453, 1475).      *)
THEOREM RepliesStayWhereTheyBelong == Spec => []RepliesBelong
<1>1. Init => RowsInv /\ NeighboursInv
  BY DEF Init, RowsInv, NeighboursInv
<1>2. RowsInv /\ NeighboursInv /\ [Next]_vars => (RowsInv /\ NeighboursInv)'
  BY RowsStep, NeighboursStep
<1>3. RowsInv /\ NeighboursInv => RepliesBelong
  BY DEF RowsInv, NeighboursInv, RepliesBelong
<1> QED
  BY <1>1, <1>2, <1>3, PTL DEF Spec

-----------------------------------------------------------------------------
(* What the player was told is what the screen says.                          *)
IsPlayer(p) ==
  p = [item |-> p.item, paused |-> p.paused, preview |-> p.preview, tracks |-> p.tracks]
PlayerInv == IsPlayer(player) /\ PlayerIsNamed

LEMMA Retitled ==
  ASSUME NEW p, IsPlayer(p), NEW id
  PROVE  [p EXCEPT !.item = id] = [item |-> id, paused |-> p.paused, preview |-> p.preview,
                                   tracks |-> p.tracks]
<1>1. PICK a, b, c, d: p = [item |-> a, paused |-> b, preview |-> c, tracks |-> d]
  BY DEF IsPlayer
<1> QED
  BY <1>1

LEMMA Told ==
  ASSUME NEW id
  PROVE  /\ IsPlayer(Stopped) /\ Stopped.item = None
         /\ [Stopped EXCEPT !.item = id] = [item |-> id, paused |-> FALSE, preview |-> FALSE,
                                            tracks |-> None]
<1>1. PICK p: p = Stopped
  OBVIOUS
<1>2. p = [item |-> None, paused |-> FALSE, preview |-> FALSE, tracks |-> None]
  BY <1>1 DEF Stopped
<1>3. IsPlayer(p) /\ p.item = None
  BY <1>2 DEF IsPlayer
<1>4. [p EXCEPT !.item = id] = [item |-> id, paused |-> p.paused, preview |-> p.preview,
                                tracks |-> p.tracks]
  BY <1>3, Retitled
<1>5. p.paused = FALSE /\ p.preview = FALSE /\ p.tracks = None
  BY <1>2
<1> QED
  BY <1>1, <1>3, <1>4, <1>5

LEMMA NowPlaysKeeps == ASSUME NEW id, NowPlays(id) PROVE PlayerInv'
<1>1. player' = [item |-> id, paused |-> FALSE, preview |-> FALSE, tracks |-> None]
  BY Told DEF NowPlays
<1>2. item' = id /\ paused' = FALSE /\ picker' = FALSE
  BY DEF NowPlays
<1> QED
  BY <1>1, <1>2 DEF PlayerInv, IsPlayer, PlayerIsNamed

LEMMA StoppedKeeps == ASSUME player' = Stopped PROVE PlayerInv'
BY Told DEF PlayerInv, PlayerIsNamed, IsPlayer

LEMMA PlayerStep == ASSUME PlayerInv, [Next]_vars PROVE PlayerInv'
<1>1. CASE UNCHANGED <<item, paused, picker, player>>
  BY <1>1 DEF PlayerInv, PlayerIsNamed, IsPlayer
<1>2. CASE OpenCard \/ Settings \/ BlueButton
  BY <1>1, <1>2 DEF OpenCard, Settings, BlueButton, playback
<1>3. CASE OpenSidebar \/ CloseSidebar \/ ActivateSidebar \/ SidebarSettles
  BY <1>1, <1>3 DEF OpenSidebar, CloseSidebar, ActivateSidebar, SidebarSettles, playback
<1>4. CASE Play \/ PlayAdjacent
  BY <1>4, NowPlaysKeeps, StoppedKeeps DEF Play, PlayAdjacent
<1>5. CASE Toggle
  <2>1. CASE player.item = None
    <3>1. player' = player
      BY <1>5, <2>1 DEF Toggle
    <3> QED
      BY <2>1, <3>1 DEF PlayerInv, PlayerIsNamed, IsPlayer
  <2>2. CASE player.item # None
    <3>1. /\ player' = [item |-> player.item, paused |-> ~paused,
                        preview |-> player.preview, tracks |-> player.tracks]
          /\ paused' = ~paused /\ item' = item /\ picker' = picker
      BY <1>5, <2>2 DEF Toggle, PlayerInv, IsPlayer
    <3> QED
      BY <2>2, <3>1 DEF PlayerInv, PlayerIsNamed, IsPlayer
  <2> QED
    BY <2>1, <2>2
<1>6. CASE OpenPicker
  <2>1. /\ player' = [item |-> player.item, paused |-> player.paused,
                      preview |-> TRUE, tracks |-> player.tracks]
        /\ picker' = TRUE /\ item' = item /\ paused' = paused
    BY <1>6 DEF OpenPicker, PlayerInv, IsPlayer
  <2> QED
    BY <2>1 DEF PlayerInv, PlayerIsNamed, IsPlayer
<1>7. CASE PressBar \/ RepeatBar \/ ReleaseBar
  BY <1>1, <1>7 DEF PressBar, RepeatBar, ReleaseBar, playback
<1>8. CASE Back
  <2>1. CASE ClosePicker
    <3>1. /\ player' = [item |-> player.item, paused |-> player.paused,
                        preview |-> FALSE, tracks |-> player.tracks]
          /\ picker' = FALSE /\ item' = item /\ paused' = paused
      BY <2>1 DEF ClosePicker, PlayerInv, IsPlayer
    <3> QED
      BY <3>1 DEF PlayerInv, PlayerIsNamed, IsPlayer
  <2>2. CASE Leave
    BY <2>2, StoppedKeeps DEF Leave
  <2>3. CASE UNCHANGED playback
    BY <1>1, <2>3 DEF playback
  <2> QED
    BY <1>8, <2>1, <2>2, <2>3 DEF Back
<1>9. CASE Reply
  <2>1. ASSUME NEW task, InfoArrives(task) PROVE PlayerInv'
    <3>1. item' = item /\ paused' = paused /\ picker' = picker
      BY <2>1 DEF InfoArrives
    <3>2. CASE task.id = item
      <4>1. player' = [item |-> player.item, paused |-> player.paused,
                       preview |-> player.preview, tracks |-> item]
        BY <2>1, <3>2 DEF InfoArrives, PlayerInv, IsPlayer
      <4> QED
        BY <3>1, <4>1 DEF PlayerInv, PlayerIsNamed, IsPlayer
    <3>3. CASE task.id # item
      BY <1>1, <2>1, <3>1, <3>3 DEF InfoArrives
    <3> QED
      BY <3>2, <3>3
  <2>2. (\E task: InfoArrives(task)) \/ UNCHANGED <<item, paused, picker, player>>
    BY <1>9 DEF Reply, AdjacentArrives, playback
  <2> QED
    BY <1>1, <2>1, <2>2
<1>10. CASE SignedIn \/ Failure
  BY <1>1, <1>10 DEF SignedIn, Failure, playback
<1>11. CASE PlayerEnds
  <2>1. player' = [item |-> None, paused |-> player.paused, preview |-> player.preview,
                   tracks |-> player.tracks]
    BY <1>11 DEF PlayerEnds, PlayerInv, IsPlayer
  <2> QED
    BY <2>1 DEF PlayerInv, PlayerIsNamed, IsPlayer
<1>12. CASE UNCHANGED vars
  BY <1>1, <1>12 DEF vars, playback
<1> QED
  BY <1>2, <1>3, <1>4, <1>5, <1>6, <1>7, <1>8, <1>9, <1>10, <1>11, <1>12 DEF Next

(* A session that runs plays the item the reports name, as the button and the *)
(* picker show it, whatever ends it or is answered late (main.c:1886).        *)
THEOREM PlayerStaysNamed == Spec => []PlayerIsNamed
<1>1. Init => PlayerInv
  BY Told DEF Init, PlayerInv, PlayerIsNamed, IsPlayer
<1>2. PlayerInv /\ [Next]_vars => PlayerInv'
  BY PlayerStep
<1>3. PlayerInv => PlayerIsNamed
  BY DEF PlayerInv
<1> QED
  BY <1>1, <1>2, <1>3, PTL DEF Spec
-----------------------------------------------------------------------------
(* What each entry of the stack shows is what was on the screen then.         *)
Shows(entry) ==
  IF entry.screen \in {"GRID", "DETAILS", "SEASON"} THEN <<entry.screen, entry.card>>
  ELSE <<entry.screen>>
IsList(list) == \E S: list \in Seq(S)
TrailInv ==
  /\ IsList(stack) /\ IsList(trail) /\ Len(stack) = Len(trail)
  /\ \A k \in 1..Len(stack): trail[k] = Shows(stack[k])

LEMMA HereShows == Shows(Here) = Shown
BY DEF Shows, Here, Shown

(* A longer list, or one whose oldest entry gave way.                         *)
LEMMA Appended ==
  ASSUME NEW list, IsList(list), NEW entry
  PROVE  /\ IsList(Append(list, entry)) /\ Len(Append(list, entry)) = Len(list) + 1
         /\ Len(list) \in Nat
         /\ \A k \in 1..Len(list): Append(list, entry)[k] = list[k]
         /\ Append(list, entry)[Len(list) + 1] = entry
<1>1. PICK S: list \in Seq(S)
  BY DEF IsList
<1>2. PICK T: T = S \cup {entry}
  OBVIOUS
<1>3. list \in Seq(T) /\ entry \in T
  BY <1>1, <1>2
<1> QED
  BY <1>3 DEF IsList

LEMMA Shortened ==
  ASSUME NEW list, IsList(list), Len(list) > 0
  PROVE  /\ IsList(Tail(list)) /\ Len(Tail(list)) = Len(list) - 1
         /\ \A k \in 1..Len(list) - 1: Tail(list)[k] = list[k + 1]
         /\ IsList(Front(list)) /\ Len(Front(list)) = Len(list) - 1
         /\ \A k \in 1..Len(list) - 1: Front(list)[k] = list[k]
         /\ Last(list) = list[Len(list)]
<1>1. PICK S: list \in Seq(S)
  BY DEF IsList
<1>2. list # <<>> /\ Len(list) \in Nat \ {0}
  BY <1>1
<1>3. /\ Tail(list) \in Seq(S) /\ Len(Tail(list)) = Len(list) - 1
      /\ \A k \in 1..Len(list) - 1: Tail(list)[k] = list[k + 1]
  BY <1>1, <1>2
<1>4. PICK n: n = Len(list) - 1 /\ Front(list) = SubSeq(list, 1, n)
  BY DEF Front
<1>5. /\ Front(list) \in Seq(S) /\ Len(Front(list)) = Len(list) - 1
      /\ \A k \in 1..Len(list) - 1: Front(list)[k] = list[k]
  <2>1. n \in Nat /\ Len(list) = n + 1
    BY <1>2, <1>4
  <2>2. \A k \in 1..n: list[k] \in S
    BY <1>1, <2>1
  <2>3. /\ SubSeq(list, 1, n) \in Seq(S) /\ Len(SubSeq(list, 1, n)) = n
        /\ \A k \in 1..n: SubSeq(list, 1, n)[k] = list[k]
    BY <2>1, <2>2, SubSeqProperties
  <2> QED
    BY <1>4, <2>3
<1> QED
  BY <1>3, <1>5 DEF IsList, Last

LEMMA PushKeeps == ASSUME TrailInv, Push PROVE TrailInv'
<1>1. PICK was: was = IF Len(stack) = StackSize THEN Tail(stack) ELSE stack
  OBVIOUS
<1>2. PICK showed: showed = IF Len(trail) = StackSize THEN Tail(trail) ELSE trail
  OBVIOUS
<1>3. stack' = Append(was, Here) /\ trail' = Append(showed, Shown)
  BY <1>1, <1>2 DEF Push, Pushed
<1>4. /\ IsList(was) /\ IsList(showed) /\ Len(was) = Len(showed)
      /\ \A k \in 1..Len(was): showed[k] = Shows(was[k])
  <2>1. CASE Len(stack) # StackSize
    BY <1>1, <1>2, <2>1 DEF TrailInv
  <2>2. CASE Len(stack) = StackSize
    <3>1. Len(stack) > 0
      BY <2>2, StackSizeAssumption DEF StackSizeAssumption
    <3>2. was = Tail(stack) /\ showed = Tail(trail)
      BY <1>1, <1>2, <2>2 DEF TrailInv
    <3>3. Len(stack) \in Nat
      BY Appended DEF TrailInv
    <3> QED
      BY <3>1, <3>2, <3>3, Shortened DEF TrailInv
  <2> QED
    BY <2>1, <2>2
<1>5. PICK entry, shown: entry = Here /\ shown = Shown
  OBVIOUS
<1>6. Len(was) \in Nat
  BY <1>4, Appended
<1>7. Shows(entry) = shown
  BY <1>5, HereShows
<1> QED
  BY <1>3, <1>4, <1>5, <1>6, <1>7, Appended DEF TrailInv

LEMMA EmptyKeeps == ASSUME stack' = <<>>, trail' = <<>> PROVE TrailInv'
BY DEF TrailInv, IsList

(* Re-entering an entry shows what it showed.                                 *)
LEMMA ReturnsThere == ASSUME NEW entry, PopTo(entry) PROVE Shown' = Shows(entry)
<1>1. CASE entry.screen = "GRID"
  <2>1. screen' = "GRID" /\ grid'.of = entry.card
    BY <1>1 DEF PopTo, OpenGrid, SameGrid
  <2> QED
    BY <1>1, <2>1 DEF Shown, Shows
<1>2. CASE entry.screen = "DETAILS"
  <2>1. screen' = "DETAILS" /\ detail' = entry.card
    BY <1>2 DEF PopTo, OpenDetails
  <2> QED
    BY <1>2, <2>1 DEF Shown, Shows
<1>3. CASE entry.screen = "SEASON"
  <2>1. screen' = "SEASON" /\ season' = entry.card
    BY <1>3 DEF PopTo, OpenSeason
  <2> QED
    BY <1>3, <2>1 DEF Shown, Shows
<1>4. CASE entry.screen \notin {"GRID", "DETAILS", "SEASON"}
  <2>1. screen' = entry.screen
    BY <1>4 DEF PopTo
  <2> QED
    BY <1>4, <2>1 DEF Shown, Shows
<1> QED
  BY <1>1, <1>2, <1>3, <1>4

LEMMA PopReturns ==
  ASSUME TrailInv, Pop, stack # <<>>
  PROVE  TrailInv' /\ Shown' = Last(trail)
<1>1. /\ PopTo(Last(stack)) /\ stack' = Front(stack) /\ trail' = Front(trail)
  BY DEF Pop
<1>2. Len(stack) \in Nat \ {0} /\ Len(trail) = Len(stack)
  BY DEF TrailInv, IsList
<1>3. Len(stack) > 0 /\ Len(trail) > 0 /\ Len(stack) \in 1..Len(stack)
  BY <1>2
<1>4. TrailInv'
  <2>1. /\ IsList(stack') /\ IsList(trail')
        /\ Len(stack') = Len(stack) - 1 /\ Len(trail') = Len(stack) - 1
        /\ \A k \in 1..Len(stack) - 1: stack'[k] = stack[k] /\ trail'[k] = trail[k]
    BY <1>1, <1>2, <1>3, Shortened DEF TrailInv
  <2>2. \A k \in 1..Len(stack) - 1: k \in 1..Len(stack)
    BY <1>2
  <2> QED
    BY <1>2, <2>1, <2>2 DEF TrailInv
<1>5. Last(trail) = Shows(Last(stack))
  BY <1>2, <1>3, Shortened DEF TrailInv
<1> QED
  BY <1>1, <1>4, <1>5, ReturnsThere

LEMMA TrailStep == ASSUME TrailInv, [Next]_vars PROVE TrailInv'
<1>1. CASE UNCHANGED <<stack, trail>>
  BY <1>1 DEF TrailInv
<1>2. CASE OpenCard \/ ActivateSidebar
  BY <1>1, <1>2, PushKeeps DEF OpenCard, ActivateSidebar, GoTo
<1>3. CASE Settings \/ BlueButton
  BY <1>1, <1>3, EmptyKeeps DEF Settings, BlueButton, SignOut, GoTo, place
<1>4. CASE OpenSidebar \/ CloseSidebar \/ SidebarSettles
  BY <1>1, <1>4 DEF OpenSidebar, CloseSidebar, SidebarSettles, place
<1>5. CASE Play \/ PlayAdjacent
  BY <1>1, <1>5 DEF Play, PlayAdjacent, GoTo, place
<1>6. CASE Toggle \/ OpenPicker \/ PlayerEnds
  BY <1>1, <1>6 DEF Toggle, OpenPicker, PlayerEnds, place
<1>7. CASE PressBar \/ RepeatBar \/ ReleaseBar
  BY <1>1, <1>7 DEF PressBar, RepeatBar, ReleaseBar, place
<1>8. CASE Back
  <2>1. UNCHANGED <<stack, trail>> \/ (Pop /\ stack # <<>>)
    BY <1>8 DEF Back, ClosePicker, BackFrom, GoTo, Pop, place
  <2> QED
    BY <1>1, <2>1, PopReturns
<1>9. CASE Reply
  BY <1>1, <1>9 DEF Reply, SeasonsArrive, EpisodesArrive, ChildrenArrive, place
<1>10. CASE SignedIn \/ Failure
  BY <1>1, <1>10, EmptyKeeps DEF SignedIn, Failure, GoTo, place
<1>11. CASE UNCHANGED vars
  BY <1>1, <1>11 DEF vars, place
<1> QED
  BY <1>2, <1>3, <1>4, <1>5, <1>6, <1>7, <1>8, <1>9, <1>10, <1>11 DEF Next

(* Back pops to what was on the screen when its entry was pushed, also when   *)
(* the oldest entry gave way, the grid was another's since or the season's    *)
(* series was (here, push and pop, main.c:1055).                              *)
THEOREM BackComesBack == Spec => BackReturns
<1>1. Init => TrailInv
  BY EmptyKeeps DEF Init, TrailInv, IsList
<1>2. TrailInv /\ [Next]_vars => TrailInv'
  BY TrailStep
<1>3. TrailInv /\ [Next]_vars
        => [Back /\ Len(trail') < Len(trail) => Shown' = Last(trail)]_vars
  <2> SUFFICES ASSUME TrailInv, Back, Len(trail') < Len(trail)
               PROVE  Shown' = Last(trail)
    OBVIOUS
  <2>1. trail' = trail \/ (Pop /\ stack # <<>>)
    BY DEF Back, ClosePicker, BackFrom, GoTo, Pop, place
  <2>2. CASE trail' = trail
    <3>1. Len(trail) \in Nat
      BY DEF TrailInv, IsList
    <3> QED
      BY <2>2, <3>1
  <2> QED
    BY <2>1, <2>2, PopReturns
<1> QED
  BY <1>1, <1>2, <1>3, PTL DEF Spec, BackReturns
=============================================================================
