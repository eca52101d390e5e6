------------------------------- MODULE Tracks -------------------------------
(***************************************************************************)
(* Which subtitle track is on: jf/player.c's selection as the UI changes   *)
(* it, and the two threads that act on it -- the reader, which opens a     *)
(* text track of the container between two packets, and the loader, which  *)
(* fetches the server's copy of one -- against jf/subs.c's serial, which   *)
(* is there so that they may do so in any order.  Each call into           *)
(* jf/subs.c is one action: its `control` mutex serialises them, and what  *)
(* goes on inside one is module Subs.                                      *)
(***************************************************************************)
EXTENDS Integers

CONSTANTS Tracks,         \* [text, inContainer, onServer] records
          MayFail,        \* what may fail: "fetch", "start"
          MaxSelections   \* bound: selections in one behaviour

ASSUME TracksAssumption ==
  \A t \in Tracks: {t.text, t.inContainer, t.onServer} \subseteq BOOLEAN
ASSUME MayFailAssumption == MayFail \subseteq {"fetch", "start"}
ASSUME MaxSelectionsAssumption == MaxSelections \in Nat

VARIABLES
  running,                     \* the session is wanted
  selection, selected,         \* selection, and the track selected
  pictures,                    \* the track jf_picsubs_select chose
  reader, readSelection, readText,  \* apply_subtitle_track, read_selection, read_text
  loader, done,                \* subtitle_loader, and its `done`
  serial, source, whose,       \* subs.c: serial, what the workers render, and
                               \* history: of which track
  missed                       \* history: a fetch or a start failed for this selection

selectVars == <<selection, selected, pictures>>
readerVars == <<reader, readSelection, readText>>
loaderVars == <<loader, done>>
subsVars == <<serial, source, whose>>
vars == <<running, selectVars, readerVars, loaderVars, subsVars, missed>>

Off == [text |-> FALSE, inContainer |-> FALSE, onServer |-> FALSE]
Choices == Tracks \cup {Off}
At(phase, id, track) == [at |-> phase, id |-> id, track |-> track]
ReadingOn == At("reading", 0, Off)
Waiting == At("waiting", 0, Off)
Ended == At("ended", 0, Off)

Fetched(t) == t.text /\ t.onServer        \* the loader's url test
OpenedAny(t) == t.inContainer             \* mutant: pictures too
Opened(t) == t.text /\ t.inContainer      \* the reader's tests

Init ==
  /\ running = TRUE /\ selection = 1 /\ selected = Off /\ pictures = Off
  /\ reader = ReadingOn /\ readSelection = 0 /\ readText = Off
  /\ loader = Waiting /\ done = 0
  /\ serial = 0 /\ source = "none" /\ whose = Off /\ missed = FALSE

-----------------------------------------------------------------------------

(* The UI: jf_player_subtitle_select, and the first choice, which          *)
(* jf_player_subtitle_tracks makes.  select_pictures goes with it.         *)
Select(t) ==
  /\ running /\ selection < MaxSelections
  /\ t # selected
  /\ selected' = t /\ selection' = selection + 1
  /\ pictures' = IF ~t.text /\ t.inContainer THEN t ELSE Off
  /\ missed' = FALSE
  /\ UNCHANGED <<running, readerVars, loaderVars, subsVars>>

Stop ==
  /\ running /\ running' = FALSE
  /\ UNCHANGED <<selectVars, readerVars, loaderVars, subsVars, missed>>

-----------------------------------------------------------------------------
(* apply_subtitle_track, before each packet the reader looks at.           *)

ReaderTakes ==
  /\ reader.at = "reading" /\ selection # readSelection
  /\ readSelection' = selection /\ readText' = Off
  /\ reader' = IF Opened(selected) THEN At("opening", selection, selected) ELSE ReadingOn
  /\ UNCHANGED <<running, selectVars, loaderVars, subsVars, missed>>

Held(id) == id = serial /\ source # "none"

(* jf_subs_open, which says whether that selection is rendering.           *)
ReaderOpens ==
  /\ reader.at = "opening"
  /\ reader' = ReadingOn
  /\ \/ /\ Held(reader.id)
        /\ readText' = reader.track
        /\ UNCHANGED <<subsVars, missed>>
     \/ /\ reader.id < serial
        /\ UNCHANGED <<readText, subsVars, missed>>
     \/ /\ ~Held(reader.id) /\ reader.id >= serial
        /\ serial' = reader.id /\ source' = "container" /\ whose' = reader.track
        /\ readText' = reader.track
        /\ UNCHANGED missed
     \/ /\ ~Held(reader.id) /\ reader.id >= serial /\ "start" \in MayFail
        /\ source' = "none" /\ whose' = Off
        /\ missed' = (missed \/ reader.id = selection)
        /\ serial' \in {serial, reader.id}    \* only a thread that is missing is
        /\ UNCHANGED readText                 \* noticed after it was written
  /\ UNCHANGED <<running, selectVars, readSelection, loaderVars>>

ReaderEnds ==
  /\ ~running /\ reader.at = "reading"
  /\ reader' = Ended
  /\ UNCHANGED <<running, selectVars, readSelection, readText, loaderVars, subsVars, missed>>

-----------------------------------------------------------------------------
(* subtitle_loader.                                                        *)

(* Mutant: nothing is closed for a track it does not fetch.                *)
LoaderSkipsOff ==
  /\ loader.at = "waiting" /\ running /\ selection # done
  /\ done' = selection
  /\ loader' = IF Fetched(selected) THEN At("fetching", selection, selected) ELSE Waiting
  /\ UNCHANGED <<running, selectVars, readerVars, subsVars, missed>>

LoaderTakes ==
  /\ loader.at = "waiting" /\ running /\ selection # done
  /\ done' = selection
  /\ loader' = At(IF Fetched(selected) THEN "fetching" ELSE "closing", selection, selected)
  /\ UNCHANGED <<running, selectVars, readerVars, subsVars, missed>>

(* jf_subs_close.                                                          *)
LoaderCloses ==
  /\ loader.at = "closing"
  /\ loader' = Waiting
  /\ IF loader.id >= serial
     THEN serial' = loader.id /\ source' = "none" /\ whose' = Off
     ELSE UNCHANGED subsVars
  /\ UNCHANGED <<running, selectVars, readerVars, done, missed>>

(* jf_demux_fetch: the script, or none that parses, or cancelled.          *)
LoaderFetches ==
  /\ loader.at = "fetching"
  /\ \/ loader' = [loader EXCEPT !.at = "installing"] /\ UNCHANGED missed
     \/ /\ loader.id # selection \/ ~running
        /\ loader' = Waiting /\ UNCHANGED missed
     \/ /\ "fetch" \in MayFail
        /\ loader' = Waiting /\ missed' = (missed \/ loader.id = selection)
  /\ UNCHANGED <<running, selectVars, readerVars, done, subsVars>>

(* jf_subs_open_file, which keeps workers that already render this.        *)
LoaderInstalls ==
  /\ loader.at = "installing"
  /\ loader' = Waiting
  /\ \/ /\ loader.id < serial
        /\ UNCHANGED <<subsVars, missed>>
     \/ /\ loader.id >= serial
        /\ serial' = loader.id /\ source' = "script" /\ whose' = loader.track
        /\ UNCHANGED missed
     \/ /\ loader.id >= serial /\ ~Held(loader.id) /\ "start" \in MayFail
        /\ source' = "none" /\ whose' = Off
        /\ missed' = (missed \/ loader.id = selection)
        /\ serial' \in {serial, loader.id}
  /\ UNCHANGED <<running, selectVars, readerVars, done>>

LoaderEnds ==
  /\ ~running /\ loader.at = "waiting"
  /\ loader' = Ended
  /\ UNCHANGED <<running, selectVars, readerVars, done, subsVars, missed>>

-----------------------------------------------------------------------------
(* The session's end, once both threads are joined: jf_subs_release and    *)
(* jf_picsubs_close.                                                       *)
Release ==
  /\ reader = Ended /\ loader = Ended
  /\ serial' = 0 /\ source' = "none" /\ whose' = Off /\ pictures' = Off
  /\ UNCHANGED <<running, selection, selected, readerVars, loaderVars, missed>>

(* jf_player_play: the next session, which numbers on.                     *)
Play ==
  /\ ~running /\ reader = Ended /\ loader = Ended
  /\ serial = 0 /\ source = "none" /\ pictures = Off
  /\ selection < MaxSelections
  /\ running' = TRUE /\ selection' = selection + 1 /\ selected' = Off
  /\ reader' = ReadingOn /\ readSelection' = 0 /\ readText' = Off
  /\ loader' = Waiting /\ done' = 0 /\ missed' = FALSE
  /\ UNCHANGED <<pictures, subsVars>>

(* Nobody has to play again.                                               *)
Over == ~running /\ reader = Ended /\ loader = Ended /\ serial = 0 /\ UNCHANGED vars

LoaderStep == LoaderTakes \/ LoaderCloses \/ LoaderFetches \/ LoaderInstalls \/ LoaderEnds
ReaderStep == ReaderTakes \/ ReaderOpens \/ ReaderEnds

Next ==
  \/ \E t \in Choices: Select(t)
  \/ Stop \/ ReaderStep \/ LoaderStep \/ Release \/ Play \/ Over

Spec == Init /\ [][Next]_vars

(* The loader runs.  The reader need not: it blocks on a full queue for as *)
(* long as playback is paused.                                             *)
FairSpec == Spec /\ WF_vars(LoaderStep)

-----------------------------------------------------------------------------
(* Every variable has its type.                                            *)
TypeOK ==
  /\ running \in BOOLEAN /\ selection \in Nat /\ selected \in Choices
  /\ pictures \in Choices
  /\ reader \in [at: {"reading", "opening", "ended"}, id: Nat, track: Choices]
  /\ loader \in [at: {"waiting", "closing", "fetching", "installing", "ended"},
                 id: Nat, track: Choices]
  /\ readSelection \in 0..selection /\ readText \in Choices /\ done \in 0..selection
  /\ serial \in Nat /\ source \in {"none", "container", "script"} /\ whose \in Choices
  /\ missed \in BOOLEAN

(* What is rendered is the track its serial was given for: whoever acts,   *)
(* and however late, the current serial never shows another track's lines. *)
SerialNamesTrack ==
  source # "none" /\ serial = selection => whose = selected

(* The serial never goes back, nor ahead of the selection, while a session *)
(* runs: an older call is ignored (subs.h:18-20).                          *)
SerialOnlyGrows ==
  [][serial' <= selection' /\ (serial' < serial => Release)]_vars

(* Both threads have acted on the selection.                               *)
Settled ==
  /\ running /\ loader = Waiting /\ done = selection
  /\ reader = ReadingOn /\ readSelection = selection

(* "the demuxer and the loader of the server's copy can both act on one    *)
(* selection without racing each other" (subs.h:18-20): once both have, a  *)
(* text track that both the container and the server have is rendered, and *)
(* no text lingers for a choice that has none.  A text track that only the *)
(* container has is left out: the loader, with nothing to fetch, closes it.*)
SettledIsShown ==
  Settled /\ ~missed =>
    /\ Opened(selected) /\ Fetched(selected) => source # "none"
    /\ ~selected.text => source = "none"

(* A choice takes effect without the reader, which may be blocked for as   *)
(* long as playback is paused: no subtitles, and a track of the server's   *)
(* (player.c:588-590, 637-639).                                            *)
Showing(t) == IF Fetched(t) THEN source = "script" /\ whose = t ELSE source = "none"
ChoiceTakesEffect ==
  \A t \in {u \in Choices: Fetched(u)} \cup {Off}:
    (selected = t ~> Showing(t) \/ missed \/ selected # t \/ ~running)
=============================================================================
