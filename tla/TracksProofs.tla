---------------------------- MODULE TracksProofs ----------------------------
(***************************************************************************)
(* That a serial names one track, for any set of tracks, whatever may fail *)
(* and however many selections: an id in a thread's hand is never ahead of *)
(* the selection, and the current one was taken together with its track.   *)
(***************************************************************************)
EXTENDS Tracks, TLAPS

(* An id taken with its track, as long as that selection is the current.   *)
Taken(hand) ==
  hand.id <= selection /\ (hand.id = selection => hand.track = selected)

SerialInv ==
  /\ TypeOK
  /\ serial <= selection
  /\ reader.at = "opening" => Taken(reader)
  /\ loader.at \in {"closing", "fetching", "installing"} => Taken(loader)
  /\ SerialNamesTrack

LEMMA ChoicesType == Off \in Choices
BY DEF Choices

LEMMA InitInv == Init => SerialInv
<1> SUFFICES ASSUME Init PROVE SerialInv
  OBVIOUS
<1>1. TypeOK
  <2>1. /\ running \in BOOLEAN /\ selection \in Nat /\ selected \in Choices
        /\ pictures \in Choices /\ readText \in Choices /\ whose \in Choices
    BY ChoicesType DEF Init
  <2>2. /\ reader \in [at: {"reading", "opening", "ended"}, id: Nat, track: Choices]
        /\ loader \in [at: {"waiting", "closing", "fetching", "installing", "ended"},
                       id: Nat, track: Choices]
    BY ChoicesType DEF Init, ReadingOn, Waiting, At
  <2>3. readSelection \in 0..selection /\ done \in 0..selection /\ serial \in Nat
    BY DEF Init
  <2>4. source \in {"none", "container", "script"} /\ missed \in BOOLEAN
    BY DEF Init
  <2> QED
    BY <2>1, <2>2, <2>3, <2>4 DEF TypeOK
<1>2. /\ serial <= selection
      /\ reader.at # "opening"
      /\ loader.at \notin {"closing", "fetching", "installing"}
      /\ SerialNamesTrack
  BY DEF Init, SerialNamesTrack, ReadingOn, Waiting, At
<1> QED
  BY <1>1, <1>2 DEF SerialInv

(* Every step but the UI's leaves the selection and its track alone.       *)
LEMMA NextInv == SerialInv /\ [Next]_vars => SerialInv'
<1> SUFFICES ASSUME SerialInv, [Next]_vars PROVE SerialInv'
  OBVIOUS
<1> USE ChoicesType DEF SerialInv, TypeOK, SerialNamesTrack, Taken, At, ReadingOn, Waiting,
        Ended
<1>1. ASSUME NEW t \in Choices, Select(t) PROVE SerialInv'
  <2>1. TypeOK'
    <3>1. /\ running' \in BOOLEAN /\ selection' \in Nat /\ selected' \in Choices
          /\ pictures' \in Choices
      BY <1>1 DEF Select, readerVars, loaderVars, subsVars
    <3>2. /\ (reader \in [at: {"reading", "opening", "ended"}, id: Nat, track: Choices])'
          /\ (loader \in [at: {"waiting", "closing", "fetching", "installing", "ended"},
                          id: Nat, track: Choices])'
      BY <1>1 DEF Select, readerVars, loaderVars, subsVars
    <3>3. (readSelection \in 0..selection)' /\ (done \in 0..selection)'
      BY <1>1 DEF Select, readerVars, loaderVars, subsVars
    <3>4. /\ readText' \in Choices /\ whose' \in Choices /\ missed' \in BOOLEAN
          /\ serial' \in Nat /\ source' \in {"none", "container", "script"}
      BY <1>1 DEF Select, readerVars, loaderVars, subsVars
    <3> QED
      BY <3>1, <3>2, <3>3, <3>4, Zenon
  <2>2. /\ (serial <= selection)'
        /\ (reader.at = "opening" => Taken(reader))'
        /\ (loader.at \in {"closing", "fetching", "installing"} => Taken(loader))'
        /\ SerialNamesTrack'
    BY <1>1 DEF Select, readerVars, loaderVars, subsVars
  <2> QED
    BY <2>1, <2>2
<1>2. CASE Stop
  BY <1>2 DEF Stop, selectVars, readerVars, loaderVars, subsVars
<1>3. CASE ReaderTakes
  BY <1>3 DEF ReaderTakes, selectVars, loaderVars, subsVars
<1>4. CASE ReaderOpens
  BY <1>4 DEF ReaderOpens, Held, selectVars, loaderVars, subsVars
<1>5. CASE ReaderEnds
  BY <1>5 DEF ReaderEnds, selectVars, loaderVars, subsVars
<1>6. CASE LoaderTakes
  BY <1>6 DEF LoaderTakes, selectVars, readerVars, subsVars
<1>7. CASE LoaderCloses
  BY <1>7 DEF LoaderCloses, selectVars, readerVars, subsVars
<1>8. CASE LoaderFetches
  <2>1. TypeOK'
    <3>1. /\ running' \in BOOLEAN /\ selection' \in Nat /\ selected' \in Choices
          /\ pictures' \in Choices
      BY <1>8 DEF LoaderFetches, selectVars, readerVars, subsVars
    <3>2. /\ (reader \in [at: {"reading", "opening", "ended"}, id: Nat, track: Choices])'
          /\ (loader \in [at: {"waiting", "closing", "fetching", "installing", "ended"},
                          id: Nat, track: Choices])'
      BY <1>8 DEF LoaderFetches, selectVars, readerVars, subsVars
    <3>3. (readSelection \in 0..selection)' /\ (done \in 0..selection)'
      BY <1>8 DEF LoaderFetches, selectVars, readerVars, subsVars
    <3>4. /\ readText' \in Choices /\ whose' \in Choices /\ missed' \in BOOLEAN
          /\ serial' \in Nat /\ source' \in {"none", "container", "script"}
      BY <1>8 DEF LoaderFetches, selectVars, readerVars, subsVars
    <3> QED
      BY <3>1, <3>2, <3>3, <3>4, Zenon
  <2>2. /\ (serial <= selection)'
        /\ (reader.at = "opening" => Taken(reader))'
        /\ (loader.at \in {"closing", "fetching", "installing"} => Taken(loader))'
        /\ SerialNamesTrack'
    BY <1>8 DEF LoaderFetches, selectVars, readerVars, subsVars
  <2> QED
    BY <2>1, <2>2
<1>9. CASE LoaderInstalls
  BY <1>9 DEF LoaderInstalls, Held, selectVars, readerVars, subsVars
<1>10. CASE LoaderEnds
  BY <1>10 DEF LoaderEnds, selectVars, readerVars, subsVars
<1>11. CASE Release
  BY <1>11 DEF Release, readerVars, loaderVars
<1>12. CASE Play
  <2>1. TypeOK'
    <3>1. /\ running' \in BOOLEAN /\ selection' \in Nat /\ selected' \in Choices
          /\ pictures' \in Choices
      BY <1>12 DEF Play, subsVars
    <3>2. /\ (reader \in [at: {"reading", "opening", "ended"}, id: Nat, track: Choices])'
          /\ (loader \in [at: {"waiting", "closing", "fetching", "installing", "ended"},
                          id: Nat, track: Choices])'
      BY <1>12 DEF Play, subsVars
    <3>3. (readSelection \in 0..selection)' /\ (done \in 0..selection)'
      BY <1>12 DEF Play, subsVars
    <3>4. /\ readText' \in Choices /\ whose' \in Choices /\ missed' \in BOOLEAN
          /\ serial' \in Nat /\ source' \in {"none", "container", "script"}
      BY <1>12 DEF Play, subsVars
    <3> QED
      BY <3>1, <3>2, <3>3, <3>4, Zenon
  <2>2. /\ (serial <= selection)'
        /\ (reader.at = "opening" => Taken(reader))'
        /\ (loader.at \in {"closing", "fetching", "installing"} => Taken(loader))'
        /\ SerialNamesTrack'
    BY <1>12 DEF Play, subsVars
  <2> QED
    BY <2>1, <2>2
<1>13. CASE UNCHANGED vars
  BY <1>13 DEF vars, selectVars, readerVars, loaderVars, subsVars
<1>14. CASE Over
  BY <1>13, <1>14 DEF Over
<1> QED
  BY <1>1, <1>2, <1>3, <1>4, <1>5, <1>6, <1>7, <1>8, <1>9, <1>10, <1>11, <1>12, <1>13,
     <1>14 DEF Next, ReaderStep, LoaderStep

THEOREM SerialInvariant == Spec => []SerialInv
BY InitInv, NextInv, PTL DEF Spec

(* The state of jf/player.c and jf/subs.c stays well typed.                *)
THEOREM TracksTypeCorrect == Spec => []TypeOK
BY SerialInvariant, PTL DEF SerialInv

(* The serial that jf/subs.c holds, while it is the current one, is        *)
(* rendered with the lines of the track it was given out for.              *)
THEOREM SerialNames == Spec => []SerialNamesTrack
BY SerialInvariant, PTL DEF SerialInv

(* Within a session the serial held by jf/subs.c never goes back to an     *)
(* older selection, and never runs ahead of the player's.                  *)
THEOREM SerialGrows == Spec => SerialOnlyGrows
<1>1. SerialInv /\ SerialInv' /\ [Next]_vars
        => [serial' <= selection' /\ (serial' < serial => Release)]_vars
  BY DEF SerialInv, TypeOK, Next, ReaderStep, LoaderStep, Select, Stop, ReaderTakes, ReaderOpens,
         ReaderEnds, LoaderTakes, LoaderCloses, LoaderFetches, LoaderInstalls, LoaderEnds,
         Play, Over, Held, vars, selectVars, readerVars, loaderVars, subsVars
<1> QED
  BY <1>1, SerialInvariant, PTL DEF Spec, SerialOnlyGrows

-----------------------------------------------------------------------------
(* What the threads leave behind once the loader is done with a selection.    *)
(* From then on its serial is the current one, so that only the reader, and   *)
(* only with the same selection, can still change what is rendered.           *)
LoaderIsDone == loader.at = "waiting" /\ done = selection
ClosedForNone == LoaderIsDone /\ ~selected.text => serial = selection /\ source = "none"
ShownForBoth ==
  running /\ LoaderIsDone /\ ~missed /\ Fetched(selected)
    => serial = selection /\ source # "none"
HandsInv ==
  /\ reader.at = "opening" => Opened(reader.track)
  /\ loader.at \in {"closing", "fetching", "installing"} => loader.id = done
  /\ loader.at = "closing" => ~Fetched(loader.track)
  /\ loader.at \in {"fetching", "installing"} => Fetched(loader.track)
ShownInv == HandsInv /\ ClosedForNone /\ ShownForBoth

LEMMA InitShown == Init => ShownInv
BY DEF Init, ShownInv, HandsInv, ClosedForNone, ShownForBoth, LoaderIsDone, ReadingOn, Waiting, At

LEMMA NextShown == SerialInv /\ ShownInv /\ [Next]_vars => ShownInv'
<1> SUFFICES ASSUME SerialInv, ShownInv, [Next]_vars PROVE ShownInv'
  OBVIOUS
<1>0. /\ selection \in Nat /\ done \in Nat /\ done <= selection /\ serial \in Nat
      /\ serial <= selection
      /\ reader.at = "opening" => Taken(reader) /\ reader.id \in Nat
      /\ loader.at \in {"closing", "fetching", "installing"} => Taken(loader) /\ loader.id \in Nat
  BY DEF SerialInv, TypeOK
<1> USE <1>0 DEF ShownInv, HandsInv, ClosedForNone, ShownForBoth, LoaderIsDone, Taken,
        At, ReadingOn, Waiting, Ended, selectVars, readerVars, loaderVars, subsVars
<1>1. ASSUME NEW t \in Choices, Select(t) PROVE ShownInv'
  BY <1>1 DEF Select
<1>2. CASE Stop
  BY <1>2 DEF Stop
<1>3. CASE ReaderTakes
  BY <1>3 DEF ReaderTakes
<1>4. CASE ReaderOpens
  <2>1. UNCHANGED <<running, selection, selected, loader, done>> /\ reader' = ReadingOn
    BY <1>4 DEF ReaderOpens
  <2>2. HandsInv'
    BY <2>1
  <2>3. CASE serial = selection
    <3>1. CASE Held(reader.id) \/ reader.id < serial
      <4>1. UNCHANGED <<serial, source, missed>>
        BY <1>4, <3>1 DEF ReaderOpens
      <4> QED
        BY <2>1, <2>2, <4>1
    <3>2. CASE ~Held(reader.id) /\ reader.id >= serial
      <4>1. reader.id = selection /\ Opened(selected) /\ selected.text
        BY <1>4, <2>3, <3>2 DEF ReaderOpens, Opened
      <4>2. source = "none"
        BY <2>3, <3>2, <4>1 DEF Held
      <4>3. serial' = selection
        BY <1>4, <2>3, <3>2, <4>1 DEF ReaderOpens
      <4>4. source' = "container" \/ missed'
        <5>1. ~(reader.id < serial)
          BY <2>3, <4>1
        <5> HIDE <1>0 DEF ShownInv, HandsInv, ClosedForNone, ShownForBoth
        <5> QED
          BY <1>4, <3>2, <4>1, <5>1, Zenon DEF ReaderOpens
      <4> QED
        BY <2>1, <2>2, <4>1, <4>3, <4>4
    <3>3. reader.id \in Nat
      BY <1>0, <1>4 DEF ReaderOpens
    <3> QED
      BY <3>1, <3>2, <3>3
  <2>4. CASE serial # selection
    <3>1. LoaderIsDone /\ running /\ Fetched(selected) => missed /\ selected.text
      BY <2>4 DEF Fetched
    <3>2. LoaderIsDone => selected.text
      BY <2>4
    <3>3. missed => missed'
      BY <1>4 DEF ReaderOpens
    <3> QED
      BY <2>1, <2>2, <3>1, <3>2, <3>3
  <2> QED
    BY <2>3, <2>4
<1>5. CASE ReaderEnds
  BY <1>5 DEF ReaderEnds
<1>6. CASE LoaderTakes
  BY <1>6 DEF LoaderTakes
<1>7. CASE LoaderCloses
  BY <1>7 DEF LoaderCloses
<1>8. CASE LoaderFetches
  <2>1. /\ UNCHANGED <<running, selection, selected, reader, done, serial, source>>
        /\ loader.id = done /\ Fetched(loader.track)
    BY <1>8 DEF LoaderFetches
  <2>2. CASE loader' = [loader EXCEPT !.at = "installing"]
    <3>1. loader'.at = "installing" /\ loader'.id = done /\ loader'.track = loader.track
      BY <1>8, <2>1, <2>2 DEF LoaderFetches, SerialInv, TypeOK
    <3> QED
      BY <2>1, <3>1
  <2>3. CASE loader' = Waiting
    <3>1. loader.id # selection \/ ~running \/ (loader.id = selection /\ missed' = TRUE)
      BY <1>8, <2>3 DEF LoaderFetches
    <3>2. loader.id = selection => selected.text
      BY <1>8, <2>1 DEF LoaderFetches, Fetched
    <3> QED
      BY <2>1, <2>3, <3>1, <3>2
  <2> QED
    BY <1>8, <2>2, <2>3 DEF LoaderFetches
<1>9. CASE LoaderInstalls
  <2>1. /\ UNCHANGED <<running, selection, selected, reader, done>>
        /\ loader' = Waiting /\ loader.id = done /\ Fetched(loader.track)
    BY <1>9 DEF LoaderInstalls
  <2>2. loader.id = selection => selected.text
    BY <1>9, <2>1 DEF LoaderInstalls, Fetched
  <2>3. loader.id = selection => (serial' = selection /\ source' = "script") \/ missed'
    <3> SUFFICES ASSUME loader.id = selection
                 PROVE  (serial' = selection /\ source' = "script") \/ missed'
      OBVIOUS
    <3>1. ~(loader.id < serial)
      BY <1>0
    <3> HIDE <1>0 DEF ShownInv, HandsInv, ClosedForNone, ShownForBoth
    <3> QED
      BY <1>9, <3>1, Zenon DEF LoaderInstalls
  <2> QED
    BY <2>1, <2>2, <2>3
<1>10. CASE LoaderEnds
  BY <1>10 DEF LoaderEnds
<1>11. CASE Release
  BY <1>11 DEF Release
<1>12. CASE Play
  BY <1>12 DEF Play
<1>13. CASE UNCHANGED vars
  BY <1>13 DEF vars
<1>14. CASE Over
  BY <1>13, <1>14 DEF Over
<1> QED
  BY <1>1, <1>2, <1>3, <1>4, <1>5, <1>6, <1>7, <1>8, <1>9, <1>10, <1>11, <1>12, <1>13,
     <1>14 DEF Next, ReaderStep, LoaderStep

(* Whoever of the reader and the loader acts first on the last choice, and    *)
(* however late: once both have, a text track both can have is rendered, and  *)
(* no text lingers for a choice without (subs.h:18-20).                       *)
THEOREM SettledShows == Spec => []SettledIsShown
<1>1. Spec => []ShownInv
  BY InitInv, NextInv, InitShown, NextShown, PTL DEF Spec
<1>2. ShownInv => SettledIsShown
  BY DEF ShownInv, ClosedForNone, ShownForBoth, LoaderIsDone, SettledIsShown, Settled, Waiting, At
<1> QED
  BY <1>1, <1>2, PTL
=============================================================================
