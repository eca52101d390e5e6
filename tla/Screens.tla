------------------------------ MODULE Screens ------------------------------
(***************************************************************************)
(* app/main.c: the screens, the stack Back pops, the sidebar, and playback *)
(* as the remote control drives it, against the replies the fetcher brings *)
(* in any order and the player underneath.  Everything here runs on the UI *)
(* thread, one key, reply or frame at a time.  How the focus moves about   *)
(* within a screen is left out: a key that activates picks any card that   *)
(* is there.  Signing in is SignIn.tla's; the grid's pages are Library's.  *)
(***************************************************************************)
EXTENDS Integers, Sequences, SequencesExt, BagsExt

CONSTANTS None,
          Libraries, Series, Movies,
          Seasons,        \* the seasons of each series: a function to sets
          Episodes,       \* the episodes of each season: to sequences
          StackSize,      \* 12 in main.c
          Slots,          \* tasks of the fetcher at once (32 in api.h)
          MaxPresses      \* bound: keys pressed, Back apart

ASSUME StackSizeAssumption == StackSize \in Nat \ {0}

VARIABLES screen,
          stack,          \* stack[0..depth): entries to re-enter
          grid,           \* grid_parent, and whether grid_total # 0
          detail,         \* the card of the details screen
          seasons,        \* whose seasons seasons_row lists, None for no rows
          season,         \* season_detail
          episodes,       \* which season's episodes episodes_row lists
          listed,         \* the home rows and categories_row are filled
          sidebar,        \* sidebar_open and sidebar_closing
          sidebar_return, \* sidebar_return_screen
          item,           \* playback_item_id
          previous, next, \* the neighbours that are present
          playback_return,
          paused, picker, \* playback_paused, subtitle_picker
          scrub,          \* scrubbing: the item scrub_ms was read in
          held,           \* Left or Right is down on the remote
          player,         \* what the player was told
          inflight,       \* the fetcher's tasks: a bag of requests
          window,         \* jf_window_running
          presses,
          trail,          \* history: what was on the screen at each push
          recalled        \* history: detail came back with a season

place == <<screen, stack, grid, detail, recalled, seasons, season, episodes, trail>>
playback == <<item, previous, next, playback_return, paused, picker, player>>
vars == <<place, playback, listed, sidebar, sidebar_return, scrub, held, inflight, window, presses>>

Rows(s) == IF s = None THEN {} ELSE Seasons[s]
Listed(s) == IF s = None THEN {} ELSE Range(Episodes[s])
AllEpisodes == UNION {Range(Episodes[s]) : s \in DOMAIN Episodes}
Playable == Movies \cup AllEpisodes
SeasonOf(e) == CHOOSE s \in DOMAIN Episodes: e \in Range(Episodes[s])
(* The one before, or after, in the list the server answers with.          *)
Neighbour(e, by) ==
  IF e \notin AllEpisodes THEN None
  ELSE LET list == Episodes[SeasonOf(e)]
           at == CHOOSE i \in DOMAIN list: list[i] = e
       IN  IF at + by \in DOMAIN list THEN list[at + by] ELSE None

Stopped == [item |-> None, paused |-> FALSE, preview |-> FALSE, tracks |-> None]

(* What the user sees, as far as Back must bring it back.                  *)
Shown == CASE screen = "GRID" -> <<screen, grid.of>>
           [] screen = "DETAILS" -> <<screen, detail>>
           [] screen = "SEASON" -> <<screen, season>>
           [] OTHER -> <<screen>>

Init ==
  /\ screen = "HOME" /\ stack = <<>> /\ trail = <<>>
  /\ grid = [of |-> None, loaded |-> FALSE]
  /\ detail = None /\ recalled = FALSE /\ seasons = None /\ season = None /\ episodes = None
  /\ listed = FALSE
  /\ sidebar = "closed" /\ sidebar_return = "SERVER"
  /\ item = None /\ previous = None /\ next = None /\ playback_return = "HOME"
  /\ paused = FALSE /\ picker = FALSE
  /\ scrub = None /\ held = FALSE
  /\ player = Stopped
  /\ inflight = SetToBag({[job |-> "rows", id |-> None]})
  /\ window = TRUE /\ presses = 0

-----------------------------------------------------------------------------
(* jf_fetcher_submit: nothing is asked when no slot is free.               *)
Room(tasks) == BagCardinality(tasks) < Slots
Asked(tasks, job, id) ==
  IF Room(tasks) THEN tasks (+) SetToBag({[job |-> job, id |-> id]}) ELSE tasks
(* auth_generation++: the pending sign-ins mean nothing any more.          *)
Unlistened(tasks) == BagOfAll(LAMBDA t: IF t.job = "login" THEN [t EXCEPT !.job = "ignored"] ELSE t, tasks)

(* open_grid, open_details and open_season, with the tasks as they were.   *)
OpenGrid(library) ==
  /\ screen' = "GRID"
  /\ grid' = [of |-> library, loaded |-> FALSE]
  /\ inflight' = Asked(inflight, "children", library)
  /\ UNCHANGED <<detail, recalled, seasons, season, episodes>>

OpenDetails(card) ==
  /\ screen' = "DETAILS"
  /\ detail' = card /\ recalled' = FALSE /\ seasons' = None
  /\ inflight' = LET one == Asked(inflight, "item", card)
                 IN  IF card \in Series /\ Room(inflight) THEN Asked(one, "seasons", card) ELSE one
  /\ UNCHANGED <<grid, season, episodes>>

OpenSeason(card) ==
  /\ screen' = "SEASON"
  /\ season' = card /\ episodes' = None
  /\ inflight' = Asked(inflight, "episodes", card)
  /\ UNCHANGED <<grid, seasons>>

Here == [screen |-> screen,
         card |-> IF screen = "GRID" THEN grid.of ELSE IF screen = "SEASON" THEN season ELSE detail,
         series |-> detail]
(* The oldest entry gives way when the stack is full.                      *)
Pushed(list, entry) == Append(IF Len(list) = StackSize THEN Tail(list) ELSE list, entry)
Push == stack' = Pushed(stack, Here) /\ trail' = Pushed(trail, Shown)

(* Mutant: the rule this stack replaced, a grid that is loaded is the grid. *)
AnyGrid(library) == grid.loaded
SameGrid(library) == grid.of = library /\ grid.loaded

PopTo(entry) ==
  \/ /\ entry.screen = "GRID"
     /\ \/ /\ SameGrid(entry.card)
           /\ screen' = "GRID"
           /\ UNCHANGED <<grid, detail, recalled, seasons, season, episodes, inflight>>
        \/ ~SameGrid(entry.card) /\ OpenGrid(entry.card)
  \/ /\ entry.screen = "DETAILS"
     /\ OpenDetails(entry.card)
  \/ /\ entry.screen = "SEASON"
     /\ OpenSeason(entry.card)
     /\ detail' = entry.series /\ recalled' = TRUE
  \/ /\ entry.screen \notin {"GRID", "DETAILS", "SEASON"}
     /\ screen' = entry.screen
     /\ UNCHANGED <<grid, detail, recalled, seasons, season, episodes, inflight>>

(* Mutant: the entry is re-entered and left on the stack.                  *)
PopKeeping ==
  \/ stack = <<>> /\ window' = FALSE /\ UNCHANGED <<place, inflight>>
  \/ stack # <<>> /\ PopTo(Last(stack)) /\ UNCHANGED <<stack, trail, window>>

Pop ==
  \/ /\ stack = <<>>
     /\ window' = FALSE
     /\ UNCHANGED <<place, inflight>>
  \/ /\ stack # <<>>
     /\ PopTo(Last(stack))
     /\ stack' = Front(stack) /\ trail' = Front(trail)
     /\ UNCHANGED window

GoTo(to) ==
  /\ screen' = to
  /\ UNCHANGED <<stack, grid, detail, recalled, seasons, season, episodes, trail>>

(* sign_out *)
SignOut ==
  /\ screen' = "AUTH" /\ stack' = <<>> /\ trail' = <<>>
  /\ listed' = FALSE
  /\ inflight' = Unlistened(inflight)
  /\ UNCHANGED <<grid, detail, recalled, seasons, season, episodes, window>>

-----------------------------------------------------------------------------
(* Keys.  A press is one action; Back does not count against the bound.    *)
Press == window /\ presses < MaxPresses /\ presses' = presses + 1
Browsing == sidebar = "closed" /\ screen # "PLAYBACK"

(* activate, on home, in a grid and in a list of seasons.                  *)
OpenCard ==
  /\ Press /\ Browsing
  /\ \/ /\ screen = "HOME" /\ listed
        /\ \/ \E library \in Libraries: OpenGrid(library)
           \/ \E card \in Series \cup Movies: OpenDetails(card)
     \/ /\ screen = "GRID" /\ grid.loaded
        /\ \E card \in Series \cup Movies: OpenDetails(card)
     \/ /\ screen = "DETAILS" /\ detail \in Series
        /\ \E card \in Rows(seasons): OpenSeason(card)
        /\ UNCHANGED <<detail, recalled>>
  /\ Push
  /\ UNCHANGED <<playback, listed, sidebar, sidebar_return, scrub, held, window>>

(* activate, on the screens of settings, licences and signing in.          *)
Settings ==
  /\ Press /\ Browsing
  /\ \/ screen = "SETTINGS" /\ SignOut
     \/ /\ \/ screen = "SETTINGS" /\ GoTo("LICENSES")
           \/ screen = "LICENSES" /\ GoTo("LICENSE")
           \/ screen = "SERVER" /\ GoTo("AUTH")
        /\ UNCHANGED <<listed, inflight, window>>
     \/ /\ screen = "AUTH"
        /\ inflight' = Asked(inflight, "login", None)
        /\ UNCHANGED <<place, listed, window>>
  /\ UNCHANGED <<playback, sidebar, sidebar_return, scrub, held>>

(* The blue button.                                                        *)
BlueButton ==
  /\ Press /\ screen \notin {"SERVER", "AUTH", "PLAYBACK"}
  /\ SignOut
  /\ UNCHANGED <<playback, sidebar, sidebar_return, scrub, held>>

(* Left at the left edge of a screen.                                      *)
OpenSidebar ==
  /\ Press /\ Browsing /\ screen \notin {"LICENSES", "LICENSE"}
  /\ sidebar' = "open"
  /\ sidebar_return' = screen
  /\ UNCHANGED <<place, playback, listed, scrub, held, inflight, window>>

(* Right, while the sidebar is open.                                       *)
CloseSidebar ==
  /\ Press /\ screen # "PLAYBACK"
  /\ sidebar = "open" /\ sidebar' = "closing"
  /\ UNCHANGED <<place, playback, listed, sidebar_return, scrub, held, inflight, window>>

(* OK in the sidebar, which still takes it while it slides shut.           *)
ActivateSidebar ==
  /\ Press /\ screen # "PLAYBACK"
  /\ sidebar # "closed" /\ sidebar' = "closing"
  /\ \/ listed /\ (\E library \in Libraries: OpenGrid(library)) /\ Push
     \/ GoTo("SETTINGS") /\ UNCHANGED inflight
  /\ UNCHANGED <<playback, listed, sidebar_return, scrub, held, window>>

(* advance_animations, once the sidebar has slid shut.                     *)
SidebarSettles ==
  /\ window /\ sidebar = "closing" /\ sidebar' = "closed"
  /\ UNCHANGED <<place, playback, listed, sidebar_return, scrub, held, inflight, window, presses>>

-----------------------------------------------------------------------------
(* start_playback, once the URL is built and jf_player_play has agreed.    *)
(* Mutant: the neighbours of the last item stay.                           *)
NowPlaysBeside(id) ==
  /\ item' = id
  /\ paused' = FALSE /\ picker' = FALSE
  /\ player' = [Stopped EXCEPT !.item = id]
  /\ inflight' = Asked(Asked(inflight, "info", id), "adjacent", id)
  /\ UNCHANGED <<previous, next>>

NowPlays(id) ==
  /\ item' = id
  /\ previous' = None /\ next' = None
  /\ paused' = FALSE /\ picker' = FALSE
  /\ player' = [Stopped EXCEPT !.item = id]
  /\ inflight' = Asked(Asked(inflight, "info", id), "adjacent", id)

(* OK on a film's Play, or on an episode.  The player refuses while its    *)
(* session runs; a start that fails changes nothing here.                  *)
Play ==
  /\ Press /\ Browsing
  /\ player.item = None
  /\ \E id \in Playable:
       /\ \/ screen = "DETAILS" /\ detail = id
          \/ screen = "SEASON" /\ id \in Listed(episodes)
       /\ NowPlays(id)
  /\ playback_return' = screen
  /\ GoTo("PLAYBACK")
  /\ UNCHANGED <<listed, sidebar, sidebar_return, scrub, held, window>>

(* The previous and next buttons: the session is stopped, and another is   *)
(* started, or is not.                                                     *)
PlayAdjacent ==
  /\ Press /\ screen = "PLAYBACK" /\ ~picker
  /\ \E id \in {previous, next} \ {None}:
       \/ NowPlays(id)
       \/ player' = Stopped /\ UNCHANGED <<item, previous, next, paused, picker, inflight>>
  /\ UNCHANGED <<place, playback_return, listed, sidebar, sidebar_return, scrub, held, window>>

(* toggle_playback; the player is told only while it plays.                *)
Toggle ==
  /\ Press /\ screen = "PLAYBACK" /\ ~picker
  /\ paused' = ~paused
  /\ player' = IF player.item = None THEN player ELSE [player EXCEPT !.paused = ~paused]
  /\ UNCHANGED <<place, item, previous, next, playback_return, picker, listed, sidebar,
                 sidebar_return, scrub, held, inflight, window>>

(* open_subtitle_picker, when there are tracks, and picker_key's way out.  *)
OpenPicker ==
  /\ Press /\ screen = "PLAYBACK" /\ ~picker
  /\ player.tracks # None
  /\ picker' = TRUE
  /\ player' = [player EXCEPT !.preview = TRUE]
  /\ UNCHANGED <<place, item, previous, next, playback_return, paused, listed, sidebar,
                 sidebar_return, scrub, held, inflight, window>>

ClosePicker ==
  /\ picker' = FALSE
  /\ player' = [player EXCEPT !.preview = FALSE]
  /\ UNCHANGED <<place, item, previous, next, playback_return, paused, listed, sidebar,
                 sidebar_return, scrub, held, inflight, window>>

(* scrub: a first press seeks by ten seconds, after what was being scrubbed *)
(* to; the repeats of a held key move the bar, and its release seeks.      *)
PressBar ==
  /\ Press /\ screen = "PLAYBACK" /\ ~picker
  /\ ~held /\ held' = TRUE
  /\ scrub' = None
  /\ UNCHANGED <<place, playback, listed, sidebar, sidebar_return, inflight, window>>

RepeatBar ==
  /\ window /\ held /\ screen = "PLAYBACK" /\ ~picker
  /\ scrub = None /\ scrub' = item
  /\ UNCHANGED <<place, playback, listed, sidebar, sidebar_return, held, inflight, window, presses>>

ReleaseBar ==
  /\ window /\ held /\ held' = FALSE
  /\ scrub' = IF screen = "PLAYBACK" THEN None ELSE scrub
  /\ UNCHANGED <<place, playback, listed, sidebar, sidebar_return, inflight, window, presses>>

-----------------------------------------------------------------------------
(* go_back, in the order of its tests.                                     *)
Leave ==
  /\ item' = None
  /\ paused' = FALSE
  /\ player' = Stopped
  /\ UNCHANGED <<previous, next, playback_return, picker>>

BackFrom ==
  \/ /\ screen = "SERVER" /\ window' = FALSE
     /\ UNCHANGED <<place, inflight>>
  \/ /\ screen = "AUTH" /\ GoTo("SERVER")
     /\ inflight' = Unlistened(inflight) /\ UNCHANGED window
  \/ /\ \/ screen = "SETTINGS" /\ GoTo(sidebar_return)
        \/ screen = "LICENSES" /\ GoTo("SETTINGS")
        \/ screen = "LICENSE" /\ GoTo("LICENSES")
     /\ UNCHANGED <<inflight, window>>
  \/ screen \in {"HOME", "GRID", "DETAILS", "SEASON"} /\ Pop

Back ==
  /\ window
  /\ \/ /\ screen = "PLAYBACK" /\ picker /\ ClosePicker
     \/ /\ ~(screen = "PLAYBACK" /\ picker)
        /\ \/ /\ sidebar # "closed" /\ sidebar' = "closing"
              /\ UNCHANGED <<place, playback, inflight, window>>
           \/ /\ sidebar = "closed" /\ screen = "PLAYBACK"
              /\ Leave
              /\ GoTo(playback_return)
              /\ UNCHANGED <<sidebar, inflight, window>>
           \/ /\ sidebar = "closed" /\ screen # "PLAYBACK"
              /\ BackFrom
              /\ UNCHANGED <<playback, sidebar>>
        /\ UNCHANGED <<listed, sidebar_return, scrub, held>>
  /\ UNCHANGED presses

-----------------------------------------------------------------------------
(* consume: the replies.  The slot of the one consumed counts as free.     *)
Tasks == BagToSet(inflight)
Without(task) == inflight (-) SetToBag({task})

(* Mutant: the rows of any series, whichever was asked for.                *)
SeasonsForAny(task) == /\ seasons' = task.id
                       /\ UNCHANGED <<screen, stack, grid, detail, recalled, season, episodes, trail>>
SeasonsArrive(task) ==
  /\ seasons' = IF task.id = detail THEN task.id ELSE seasons
  /\ UNCHANGED <<screen, stack, grid, detail, recalled, season, episodes, trail>>
EpisodesArrive(task) ==
  /\ episodes' = IF task.id = season THEN task.id ELSE episodes
  /\ UNCHANGED <<screen, stack, grid, detail, recalled, seasons, season, trail>>

(* A page of the grid, whichever library it is of.                         *)
ChildrenArrive ==
  /\ grid' = [grid EXCEPT !.loaded = TRUE]
  /\ UNCHANGED <<screen, stack, detail, recalled, seasons, season, episodes, trail>>

(* use_playback_info and the neighbours, for the item that plays.          *)
(* Mutant: the tracks of whatever was asked about.                         *)
InfoOfAny(task) ==
  /\ player' = [player EXCEPT !.tracks = task.id]
  /\ UNCHANGED <<item, previous, next, playback_return, paused, picker>>
InfoArrives(task) ==
  /\ player' = IF task.id = item THEN [player EXCEPT !.tracks = item] ELSE player
  /\ UNCHANGED <<item, previous, next, playback_return, paused, picker>>
AdjacentArrives(task) ==
  /\ LET found(by, old) == IF task.id = item /\ Neighbour(item, by) # None
                           THEN Neighbour(item, by) ELSE old
     IN  previous' = found(-1, previous) /\ next' = found(1, next)
  /\ UNCHANGED <<item, playback_return, paused, picker, player>>

Reply ==
  /\ window
  /\ \E task \in Tasks:
       /\ inflight' = Without(task)
       /\ \/ /\ \/ task.job = "seasons" /\ SeasonsArrive(task)
                \/ task.job = "episodes" /\ EpisodesArrive(task)
                \/ task.job = "children" /\ ChildrenArrive
             /\ UNCHANGED <<playback, listed>>
          \/ /\ \/ task.job = "info" /\ InfoArrives(task)
                \/ task.job = "adjacent" /\ AdjacentArrives(task)
             /\ UNCHANGED <<place, listed>>
          \/ /\ task.job = "rows" /\ listed' = TRUE
             /\ UNCHANGED <<place, playback>>
          \/ /\ task.job \in {"item", "ignored"}
             /\ UNCHANGED <<place, playback, listed>>
  /\ UNCHANGED <<sidebar, sidebar_return, scrub, held, window, presses>>

(* signed_in, for an answer still listened for: silently on the home       *)
(* screen, and to the top of it from anywhere else.                        *)
SignedIn ==
  /\ window
  /\ \E task \in Tasks:
       /\ task.job = "login"
       /\ inflight' = Asked(Unlistened(Without(task)), "rows", None)
  /\ screen' = "HOME"
  /\ IF screen = "HOME" THEN UNCHANGED <<stack, trail>> ELSE stack' = <<>> /\ trail' = <<>>
  /\ UNCHANGED <<grid, detail, recalled, seasons, season, episodes, playback, listed, sidebar,
                 sidebar_return, scrub, held, window, presses>>

(* on_failure.  A failure that says nothing of the sign-in is a line of    *)
(* status; a rejected item, list or row shows the sign-in screen, wherever *)
(* the user is; a rejected token is signed in again, or signed out.        *)
Failure ==
  /\ window
  /\ \E task \in Tasks:
       \/ /\ inflight' = Without(task)
          /\ UNCHANGED <<place, listed>>
       \/ /\ task.job \in {"item", "seasons", "episodes", "children", "rows"}
          /\ inflight' = Without(task)
          /\ GoTo("AUTH") /\ UNCHANGED listed
       \/ /\ task.job = "rows"
          /\ inflight' = Asked(Without(task), "login", None)
          /\ UNCHANGED <<place, listed>>
       \/ /\ task.job \in {"rows", "login"}
          /\ inflight' = Unlistened(Without(task))
          /\ screen' = "AUTH" /\ stack' = <<>> /\ trail' = <<>>
          /\ listed' = FALSE
          /\ UNCHANGED <<grid, detail, recalled, seasons, season, episodes>>
  /\ UNCHANGED <<playback, sidebar, sidebar_return, scrub, held, window, presses>>

(* The session comes to the end of its stream, or fails, by itself.        *)
PlayerEnds ==
  /\ window /\ player.item # None
  /\ player' = [player EXCEPT !.item = None]
  /\ UNCHANGED <<place, item, previous, next, playback_return, paused, picker, listed, sidebar,
                 sidebar_return, scrub, held, inflight, window, presses>>

Next ==
  \/ OpenCard \/ Settings \/ BlueButton
  \/ OpenSidebar \/ CloseSidebar \/ ActivateSidebar \/ SidebarSettles
  \/ Play \/ PlayAdjacent \/ Toggle \/ OpenPicker
  \/ PressBar \/ RepeatBar \/ ReleaseBar
  \/ Back \/ Reply \/ SignedIn \/ Failure \/ PlayerEnds

Spec == Init /\ [][Next]_vars
(* The user keeps pressing Back, and frames are drawn.                     *)
FairSpec == Spec /\ WF_vars(Back) /\ WF_vars(SidebarSettles)

-----------------------------------------------------------------------------
TypeOK ==
  /\ screen \in {"SERVER", "AUTH", "HOME", "GRID", "DETAILS", "SEASON", "PLAYBACK",
                 "SETTINGS", "LICENSES", "LICENSE"}
  /\ Len(stack) <= StackSize /\ Len(trail) = Len(stack)
  /\ grid.of \in Libraries \cup {None}
  /\ detail \in Series \cup Movies \cup {None}
  /\ seasons \in Series \cup {None}
  /\ season \in DOMAIN Episodes \cup {None} /\ episodes \in DOMAIN Episodes \cup {None}
  /\ sidebar \in {"open", "closing", "closed"}
  /\ {item, scrub, previous, next, player.item, player.tracks} \subseteq Playable \cup {None}
  /\ BagCardinality(inflight) <= Slots

(* Whatever replies are late and in whatever order they come, what they    *)
(* bring belongs to what is shown now: the seasons listed are the series'  *)
(* and the episodes the season's (main.c:1443, 1453), and the buttons skip *)
(* to the neighbours of the item that plays (main.c:1483).  The seasons    *)
(* are, if the details were opened: pop brings a season's series back but  *)
(* not the rows, and Back from the settings may end on its details.        *)
RepliesBelong ==
  /\ screen = "DETAILS" /\ ~recalled => seasons \in {None, detail}
  /\ screen = "SEASON" => episodes \in {None, season}
  /\ item # None => /\ previous \in {None, Neighbour(item, -1)}
                    /\ next \in {None, Neighbour(item, 1)}

(* What the screen says of playback is so: a session that runs plays the   *)
(* item reports name, is paused or not as the button shows, lists that     *)
(* item's tracks, and previews them only under the picker (main.c:1886).   *)
PlayerIsNamed ==
  player.item # None =>
    /\ player.item = item
    /\ player.paused = paused /\ player.preview = picker
    /\ player.tracks \in {None, item}

(* Back pops to what was on the screen when its entry was pushed.          *)
BackReturns == [][Back /\ Len(trail') < Len(trail) => Shown' = Last(trail)]_vars

(* Pressing Back alone leads out of the program, or to the settings opened *)
(* from the settings, which are their own way back.                        *)
BackLeadsOut ==
  presses = MaxPresses ~> (~window \/ (screen = "SETTINGS" /\ sidebar_return = "SETTINGS"))

(* "The seek happens once, on release" (main.c:2056): what is being        *)
(* scrubbed is being held.                                                 *)
SeekOnRelease == scrub # None => held
=============================================================================
