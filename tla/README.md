# Verification of the native Jellyfin client

TLA+ modules of the client in `src/`, the TLC configurations that check them on
small instances, and proofs, checked by TLAPS, of what matters most about them
for every value of their constants.  Paths below are relative to `src/` inside
the repository (`jf/player.c` is `src/src/jf/player.c`, `docs/jellyfin.md` is
`src/docs/jellyfin.md`).

The client is one process of a handful of threads in C.  Its core is a player
that feeds a closed hardware pipeline (Starfish) from libavformat, and an
application that asks a Jellyfin server for things and shows them on a TV.
What is hard about it is what no unit test reaches: five threads hand packets,
seeks, pauses and errors to each other through atomics and three mutexes; the
pipeline reports from a thread of its own; subtitles are drawn ahead by workers
while the UI uploads; and the server's answers come in any order, on screens
that have moved on.

## 1. The system

| Part | State it keeps | Operations | Talks to | What is hard |
|---|---|---|---|---|
| packet queue, `jf/packet_queue.c` | ring of packets, byte count, `closed` | push, pop, close, reset | one producer, one consumer, anybody closes | waits, wakeups, a budget in bytes and in slots, who frees a refused packet |
| session, `jf/player.c` | state, running, the pending seek, the held position, the clock's origin | play, stop, seek, seek_to, audio_select, position, pipeline events | UI, session, pipeline threads | a stop or a seek between two steps of the session; a look at the bar between two stores |
| segment, `jf/player.c` run_segment and lanes | the two queues, the clock, the one Play, paused | reader, video lane, audio lane, pause, resume, interrupt | pipeline, ALSA, UI | pacing against each other, backpressure, one Play claimed by two threads |
| audio, `jf/audio_alsa.c`, `jf/audio_sync.h` | the device, `interrupted` | open, write, pause, interrupt, close | audio lane, UI | a device that cannot pause, a wait for a clock |
| clock, `jf/clock.c`, the clock thread of `jf/player.c` | the last anchor | sample, pts, host_for, reset; asking the pipeline | pipeline events, lanes, UI | going stale; slow queries; late reports of an old segment |
| subtitle selection, `jf/player.c`, `jf/subs.c` | selection, serial | select; the reader's open, the loader's fetch, close | UI, reader, loader | two threads act on one choice arbitrarily late |
| subtitle rendering, `jf/subs.c` | slots, line list, backlog, playhead | open, open_file, close, release, feed, frame, keep_above, the workers' loop | UI, demuxer, workers | a canvas uploaded without the lock; lists replaced under pointers |
| bitmap subtitles, `jf/picsubs.c` | up to 256 pictures, the one drawn | open, close, select, feed, frame | demuxer, UI, session | limit, trimming, who frees a picture that is being drawn |
| demuxer, `jf/demux.c`, as the session uses it | source, decoders, resampler, bitstream filter | open, seek, reopen, read, choose a track | session, reader | what is kept back over a seek; a call that fails half way |
| host pipeline, `jf/smp_host.c` | queue of pictures, clock, texture | load, segment, play, pause, feed, render | session, lanes, UI | a UI that draws on demand |
| fetcher, `jf/api.c` | 32 task slots, queue, copy of the session | submit, start, finished, release, set_session, worker | UI, 4 workers, server | a full pool, sessions that change under requests, replies in any order |
| sign-in, `app/main.c` | screen, session, auth_generation, relogin_attempts, quick_secret | connect, log in, Quick Connect, Back, sign out, replies | fetcher, the stored credentials | replies nobody waits for any more; a token that goes stale |
| library and artwork, `app/main.c` | window of pages, poster slots | open, move, draw, replies | fetcher, renderer | pages of another library; slots recycled while on screen; frames on demand |
| screens and playback UI, `app/main.c` | stack of screens, details, season, picker, scrub | activate, back, keys, replies | fetcher, player | replies for a screen that was left; keys against a player that failed |
| settings and artwork cache, `jf/cfg.c`, `jf/store.c` | files | load, save; write, read and prune images | file system, 4 workers | a power cut or a second writer between write and rename |
| images, arena, Starfish pipeline `jf/smp_*.c*`, UI toolkit `ui/`, platform | | | | adapters over libraries, or pure data |

What makes each correct, in one sentence: the *queue* loses, duplicates and
reorders nothing and wakes whoever can go on; the *session* plays from where it
was last asked to and not after it was stopped; a *segment* plays to its end,
ends when interrupted, and does not move while paused; the *clock* is near what
is presented; the *demuxer* hands on nothing from before a seek; the *selection*
shows the track chosen last; the *rendering* shows exactly the lines that run
now and never draws into a picture in use; *bitmap subtitles* free every
picture once and none that is drawn; the *fetcher* has every task in one hand;
*sign-in* uses a token only at its server, signs in who asked and nobody else,
and forgets a password only when it is wrong; a *library* shows its own items,
each with its poster; the *screens* show replies about what is on them, and
Back leads to where one came from and out in the end; *settings* survive any
crash whole, and an *image* in the cache is whole.

## 2. The modules

Every action is one stretch of code between two points where another thread can
get in: a section under a mutex, or a single atomic access where the code takes
no mutex.  The functions of the code keep their names as far as they are
actions; history variables, which the code does not have, are marked `history`
where they are declared, and mutated forms of an operator, used only to see
that a property can fail, are marked `mutant`.

**`PacketQueue`** (`jf/packet_queue.c`).  `Push` and `Pop` are a call that did
not have to wait, or its going to sleep; `PushAgain` (and `Pop`, which looks the
same before and after) the return from `pthread_cond_wait`, `SpuriousWake` a
return for no reason.  `Woken` is the signal, `NoRoom` the wait's condition with
its exception for a packet larger than the budget.  `ReaderEnds` and
`FeederGivesUp` are the callers' ways out (`player.c` 739, 525-542), `Reset` the
next segment.  **`Channel`** is what the queue promises: a set of packets inside,
accepted in order while open, taken in order, each given up at most once.
`PacketQueue` implements it under the refinement mapping `ImplementsChannel`.

**`Player`** (`jf/player.c` 58-193, 335-434, 840-1348).  The session thread is a
program counter over the steps of `session()` -- open, load, anchor, announce,
decide, acquire `segment_mutex`, take the seek, drop the origin, land, run,
park, close, exit -- because `jf_player_stop`, `request_seek`, `on_event` and a
look at the position bar may run between any two of them.  A look
(`jf_player_position` with `jf_player_subtitle_ms`) takes no lock and is four
steps of its own, any other thread's between them: `LookBegins` (the seek flag and
what is held), `LookReadsClock`, `LookReadsReady` (whether there is an origin) and
`LookReadsOrigin`, which compares and, if what is held is still what it saw, lets
go of it.  `Displayed` is what a look shows that nothing gets into.  A segment is here a
stretch that is interrupted, fails or ends.  `Landing` is where a seek comes out
(at a keyframe, or anywhere in a transcode).

**`Segment`** (`jf/player.c` 300-331, 388-542, 691-797, 1272-1288 with
`jf/audio_alsa.c`).  Reader, video lane, audio lane, the pipeline and the UI's
pause and resume, over a container given as the order of its packets.  Queues are
counts, as first-in-first-out makes the n-th packet popped the n-th pushed.  The
clock goes stale (`GoesStale`) a quarter of a second after the last frame; that
is longer than any thread needs that can go on (audio polls every 2 ms, pacing
every 20, the device holds 200), so it happens once all shown is all that was
fed and every thread waits (`ReaderWaits`, `VideoWaits`, `AudioWaits`), or the
pipeline has failed.

**`MediaClock`** (`jf/clock.c`, the clock thread of `jf/player.c`).  The wall clock,
what the pipeline presents, and the anchor between them.  A question to the
pipeline has a beginning, an answer somewhere in it and an end, and the anchor
is placed halfway; slow ones are thrown away.

**`Demux`** (`jf/demux.c` as `reopen_media`, `switch_audio` and `session` of
`jf/player.c` call it).  Data is told apart only by the stretch of the source --
between two seeks or reopens -- that it came from; every FFmpeg call may fail
where the code looks, and what has been done before it stays done.

**`Tracks`** (`jf/player.c` 588-688, 1350-1401, with the serial of `jf/subs.c`).
The UI's selection, the reader, the loader; each call into `subs.c` is one step,
because `control` serialises them.

**`Subs`** (`jf/subs.c`).  The slots, the workers' loop in its three steps (claim,
feed, draw), opening, closing and releasing with their joins, lines fed by the
demuxer, the UI's frame, whose upload goes on after the lock is gone
(`FrameClosed`).  A slot's generation and a worker's epoch are only compared
with the current one, so they are sets of what is current.

**`PicSubs`** (`jf/picsubs.c`).  Each operation holds the lock from end to end and is
one action; `heap` is what has been allocated and not freed, so that a leak and
a double free both show as a buffer in the wrong set.  A loop that closes up what
it keeps is `Kept`: the k-th of the places kept, for each k.

**`Host`** (`jf/smp_host.c`).  The desktop pipeline: decoder, queue, clock, and the
UI's render in two steps, reading the clock and drawing under the lock.

**`Fetcher`** (`jf/api.c` 944-1092) is the pool as a record and operators that take
and return it; the modules of the application extend it.  **`SignIn`**
(`app/main.c` 936-944, 1135-1520, 1613-1624, 1715-1775, 2135-2206, 2528-2533,
4240-4326): each reply consumed is one step, made of the operators `UseServer`,
`SignedIn`, `SignOut`, `Reauthenticate`; a task is released after what its
consumption submits, as in `pump`.  The server issues one valid token per device
and user.  `auth_generation` is a flag of each task, since it is only compared.
**`Library`** (`app/main.c` 275-377, 954-987, 1098-1107, 1417-1477, 2303-2328,
3146-3217): a frame is drawn only when something asked for one, and drawing it
requests pages and posters.  A page stands for its one item.

**`Screens`** (`app/main.c`: activate, back, the sidebar, `consume` for details,
seasons, episodes, playback info and neighbours, playback's keys, picker and
scrubbing).  Everything is the UI thread's, one key, reply or frame at a time;
requests in flight are a bag, so that replies come in any order.  `trail` and
`recalled` are history: what was on the screen when an entry of the stack was
made, and whether the details' series is one that Back from a season's screen
brought back, without its rows (`pop`, 1111-1117).

**`Settings`** (`jf/cfg.c` `cfg_flush`, `jf/store.c`, the preferences).  The five
calls of a save, each of which may fail; a kill, which keeps what the kernel
has; a power cut, which goes back to what was forced to the disk, or to anything
between for what was not.  **`Cache`** (`jf/store.c` 150-260 under `artwork()` of
`jf/api.c`).  A directory two workers write to and a start prunes.

**`Requests`** (`SignIn`, `Library`) and **`Parts`** (`Settings`, `Cache`, `PicSubs`,
`Demux`, `MediaClock`) extend one part and instantiate the others, which share no
state with it: one place for their constants and assumptions, for TLC and for
the proofs.

Composed for TLC: **`MCPlayback`** (`Tracks`, `Host`, `Subs`), **`MCRequests`**
and **`MCParts`** check such parts each by itself:
`part`, chosen at the start, says whose behaviour this is.  The other parts stay
as they began, so the states add up and do not multiply, and each part's
fairness is stated for the behaviours that are its own.

How the modules rest on each other: the queue's refinement of `Channel`
justifies the counts in `Segment`; the segment's liveness justifies the fairness of
`SegmentEnds` in `Player`; `ReadingIsNear` justifies that `Segment` has a clock that
is either fresh or absent; `Tracks` takes a call into `Subs` as one step, which
`control` (modelled in `Subs`) justifies; `SignIn` and `Library` extend the one
`Fetcher`; `Screens` leaves to them signing in and the pages of a grid.

**`...Proofs`** hold the theorems.

## 3. What the runs check

| Run | Question | Instance, and why it is enough |
|---|---|---|
| `MCPacketQueue` | `ImplementsChannel` (nothing lost, repeated or reordered; a refused or left-over packet is freed once), `BudgetIsKept`, `NoLostWakeup`, `CloseEndsBoth` | 2 slots, 4 bytes, packets of 0, 1, 3 and 5: one fits beside another or not, one is larger than the budget, one is empty; 4 packets over 2 slots wrap the ring twice |
| `MCPlayer` | `StopSticks`, `SegmentIsWhereAsked`, `BarHoldsTarget`, `PressesAddUp`, `ErrorStays`, `SeekIsTaken`, `SessionEnds` | keyframes at 0 and 2 of 0..3, so that a seek lands before, on or after where playback is; 3 requests: one landing, one pending, one that replaces it; a look may stop between any two of its reads for as long as it likes |
| `MCSegment` | `PlayIsNotLost`, `InterruptEnds`, `StreamPlays`, with every fault | queues and pipeline of one frame; a container with as much sound in a row as that takes, twice, one with more, one with more picture than that; a device that pauses or, failing to, is dropped; one pause |
| `MCSegmentPauseRace` | `PausedConsumesNothing`: **violated** | two pauses, no fault |
| `MCSubs` | `CanvasSafe`, `PictureIsInPlace`, `BatchIsAlive`, `ScreenIsShown`, `TrackIsExact` | two workers, who compete; two opens, closes or releases; the controls come up once |
| `MCPlayback` | *Tracks*: `SettledIsShown`, `ChoiceTakesEffect`. *Subs*: `FrameIsShown`. *Host*: `FramesAreDrawn` | a track of each kind the code tells apart, 5 selections: enough for both threads to be two behind; one worker (the list of lines is the shared state), a line over both of two frames, playback jumping both ways; four frames through a queue of three that counts as full at two |
| `MCSignIn` | `PoolIsSound`, `TokenBelongsToServer`, `NoUnaskedSignIn` | 3 slots, so that the home screen's requests fill the pool and polls can, 2 workers to reorder replies, 2 servers, 4 presses or failures: log in, go back, choose another server, log in there |
| `MCSignInStale` | `PasswordIsKept`: **violated** | a start with a stale token, without a press or a failure |
| `MCRequests` | *SignIn*: `ApprovalSignsIn`. *Library*: `SlotAwaitsItsItem`, `PostersSettle` | a code shown and, of two events, another that replaces it or a request that fails; polls at any time, so that 3 slots may be full of them; a library longer than the window and one of a page, a cache that just holds the screen, one poster a frame |
| `MCLibraryLate` | `RequestedIsComing`: **violated** | the same library |
| `MCScreens` | `RepliesBelong`, `PlayerIsNamed`, `BackReturns`, `BackLeadsOut` | two libraries, a film, a series of two seasons, one of two episodes so that there is a next one; a stack of 2, so that it overflows; 2 tasks, so that replies cross; 5 presses besides Back: library, series, season, episode and its next |
| `MCParts` | *Settings*: `SettingsAreKept`. *Cache*: `ImagesAreWhole`. *PicSubs*: `BuffersAreKept`, `OneIsDue`. *Demux*: `OutputIsCurrent`, `SoundIsThePlayed`. *MediaClock*: `ReadingIsNear` | 3 saves of a file of two blocks; one poster and one backdrop, two workers, 3 writes and room for one; 2 bitmap tracks, 3 pictures at most, times 0..2, pictures that last and that do not; 2 audio tracks, a subtitle decoder, 3 stretches; time to 9 with frames of 2, freshness 3, queries believed up to 2 |

Bounds are constants named `Max...` in the modules, and appear only in the guards
of what the user, the network or the demuxer starts, so nothing the program owes
is cut off; `End`, `Targets` and the like are the times an instance tells apart.
Deadlock detection is off where the system may come to rest: once the presses,
failures, saves or stretches an instance allows are used up, the application
waits for its user.  `MCSubs` and `MCParts` use symmetry of the workers, and check
safety only.  Each module also has its `TypeOK`, which says more than types where
the code's ranges matter; those of `PacketQueue`, `Player`, `Segment` and `Tracks` are
theorems (4), and that of `Settings` is part of its inductive invariant.

**Fairness.**  The threads of the process are scheduled (weak fairness of each
thread's step).  Nothing is assumed of the user, but in `Screens` that he
goes on pressing Back once he has nothing else to press (`FairSpec`).  Of the pipeline only that, playing, it shows what it has until it fails;
a load need never complete.  Of ALSA, that a device that is not paused drains.
Of the server, that a request ends in a reply or a failure, since `send_request`
sets a timeout; failures are bounded, not excluded.  That time
counts from when a worker takes the request, and nothing holds the UI's polls
back meanwhile: a pool full of them is a behaviour of `SignIn`.  `Segment`'s
liveness is stated up to a lost sound and for containers that are interleaved:
see 5.  In `Library`, the fairness of drawing is
written out with its guard, "a frame was asked for", which is the condition on
which the main loop draws (4371-4394); in `Host` likewise drawing is owed only
when a frame is due.

## 4. What is proved

Every invariant and every action property that a passing run checks is also a
theorem, for every value of the constants.  What is assumed of them is named in
the modules, evaluated by TLC, and no more than the code has: slots, capacities
and bounds are naturals, packet sizes are naturals, keyframes lie in the item
and include its start, the lines of a script are finitely many and each ends
after it starts, FFmpeg numbers the streams of a file from 0 (1 here), a picture's
duration is an integer, a stack has room for one entry, and there are no more
posters loading at once than slots.  Model values that the modules only compare
are assumed apart in the theorems that need it (`FreeIsNoTask`,
`SessionsAreSessions`), as are stored credentials that belong together
(`StoredBelong`).

Each theorem follows one way: an inductive invariant that names the state the
property depends on, that holds at the start, is kept by every action, and has
the property as a consequence.  What that state is, is what a reader may want
to know:

- `PacketQueueProofs`: `TypeOK`, `BudgetIsKept`, `NoLostWakeup`.  The byte count
  alone is not inductive: a pop subtracts the size in the slot at the head, and
  nothing relates that to the count.  `IInv` gives every packet the offset at
  which it entered the stream of bytes, and says that the queued ones lie end to
  end from what was received to what was sent (`OffsetInv`) in `count` slots from
  `head` to `tail` (`RingInv`).  `ImplementsChannel` goes step by step: each action of
  `PacketQueue` is one of `Channel` or leaves it alone.  It rests on the order of
  the packets in the ring (`OrderInv`) and on each being in one place (`Kept`),
  proved of its own as `EveryPacketHasOneOwner`.
- `PlayerProofs`: `StopSticks` from `StopInv` (a stop that is past its interrupt
  has found the session outside the stretch that starts a segment, or has
  `segment_mutex` and will be seen), `SegmentIsWhereAsked` from `SeekInv` (where
  the last target is kept at each step from request to segment), and `TypeOK`,
  in parts.  `BarHoldsTarget` needs to know at which steps there is no origin or
  no clock to place a frame by (`OriginInv`), that what is held is what was
  asked for last while anything is on its way there (`HoldInv`), and of a look
  under way that its reading is of this clock, or of one before the reset, which
  is the excepted case (`LookInv`); `PressesAddUp` is an
  action property over the same invariants.  `ErrorStays` says which steps may take
  an error off the screen: the user's stop (1347) and play, and `Announce` (1150).
- `SegmentProofs`: `PlayIsNotLost` and `TypeOK`.  Whenever Play is owed, somebody is
  still about to look (`LookInv`) or to play (`PlayInv`): the two threads that may
  claim it each look again after the other could have passed it by.
- `TracksProofs`: `TypeOK`, `SerialNamesTrack` and `SerialOnlyGrows` from
  `SerialInv`: an id in a thread's hand is not ahead of the selection, and if it
  is the current one it was taken with its track.  `SettledIsShown` from `ShownInv`:
  once the loader is done with a selection its serial is the current one, so that
  of all calls still in flight only the reader's for the same selection counts.
- `SubsProofs`: `CanvasSafe` for any number of workers and slots.  What the UI
  uploads is the slot shown, or else nobody is drawing and nobody may claim
  (`UploadInv`); a worker that feeds or draws has a slot of its own that is BUSY
  (`BusyInv`, `ApartInv`); and the frames of the current generation differ and are
  all before the next to be drawn (`FramesApart`).  `BatchIsAlive` and
  `TrackIsExact`: a worker at the current list holds of it every line that was
  listed when it last fed and still runs at that frame, and nothing else (`FedInv`,
  over lines numbered once each, `ListInv`).  `ScreenIsShown` and
  `PictureIsInPlace` from `ScreenInv` and `PlaceInv`: a slot of this generation is
  drawn with the dialogue where the controls have it now.
- `PartsProofs`, each of the five parts of its own:
  `SettingsAreKept` from `PathInv` (the temporary is whole and forced to the disk
  when it is renamed) and `PlaceInv`.
  `ImagesAreWhole` from `PartialInv`: a worker's partial file carries its name, is
  there while it writes, and is whole when it renames.
  `BuffersAreKept` and `OneIsDue` from `PicInv`: the list is in order, the buffers
  in it differ, and what is allocated is exactly these and the one drawn.  The
  lemmas before it say what the code's loops do to a list of any length: what is
  kept rises through the old places (`Ranks`, `KeptIs`), what is inserted parts it
  in two (`InsertIs`) and shortens only ends (`CutIs`).  That an allocation finds a
  name that is free (`OneIsFree`) is a count: a full list and the screen use one
  fewer than there are.
  `OutputIsCurrent` from `HeldInv` (what each stage of the demuxer keeps back is of
  this stretch) and `SoundIsThePlayed` from `TrackInv` (between segments too, the
  track read is the one decoded and, of a file, the one that counts as played).
  `ReadingIsNear` from `AnchorInv` and `PollInv`: from the question an anchor is
  made of, the wall clock runs at least as fast as the picture, so what it lags by
  is settled when it is made.
- `RequestsProofs`: `PoolIsSound`, `TokenBelongsToServer` and `NoUnaskedSignIn`, for any
  servers, pool, workers and stored credentials that belong together.  Each
  operation of the fetcher keeps `Fit`: its shape, the queue in step with the
  states (`Hands`), the task being consumed is over (`Over`), and a sign-in that is
  still current was asked with, and is answered by, the session's server, and is
  wanted (`Mine`).  The last is what makes the token safe: changing the server, or
  giving up, outdates every attempt first.  `SlotAwaitsItsItem` from `GridInv`: a
  slot is loading exactly while one task, of its item, is to come back to it;
  each operation of drawing a frame keeps that (`CanvasFit`).
- `ScreensProofs`: `RepliesBelong` from `RowsInv` (rows are emptied when their card
  is opened and filled for no other) and `NeighboursInv`; `PlayerIsNamed` from
  `PlayerInv`; `BackReturns` from `TrailInv`: for a stack of any size, each entry
  shows what was on the screen when it was pushed, also after the oldest gave way.

Only model-checked, because TLAPS does not prove temporal properties under
fairness, are the liveness properties: `CloseEndsBoth`, `SeekIsTaken`,
`SessionEnds`, `InterruptEnds`, `StreamPlays`, `ChoiceTakesEffect`, `FrameIsShown`,
`FramesAreDrawn`, `ApprovalSignsIn`, `PostersSettle`, `BackLeadsOut`.  `Host` has no
theorem: what it is checked for is liveness.

## 5. Where the code does not keep what it says

Shown by a run:

- `MCSegmentPauseRace`: `maybe_start_pipeline` looks at `paused` (421), then plays
  (429).  A pause in between pauses a pipeline that is then played; "while paused
  the pipeline consumes nothing" (321).
- `MCSignInStale`: `load_home` sends three requests with one token.  If it is
  stale, each of the three 401s counts as a failed silent sign-in, and the third
  one signs out and forgets the password while the first sign-in is still under
  way; `docs/jellyfin.md:187-197` promises the contrary.
- `MCLibraryLate`: a page of the library that was left, arriving after the first
  page of the one opened since, takes its place and is never asked for again.

Found while modelling, and the reason for an exception in a property:

- `BarHoldsTarget` excepts a look that read the clock between the session's taking
  a seek (1161) and `seek_to`'s resetting the clock (956).  Undisturbed, before the
  old origin is dropped (1166), it compares the old position with the new target:
  on a jump back it lets go of the target, and the bar shows the old position
  until the new segment has a clock.  Begun before the reset and
  finished late, it may add its old pts to the origin the new segment set (733),
  and let go for good.  179-181 says the bar does neither.
- `ErrorStays` excepts `Announce`, besides the user's stop and play: PLAYING (1150)
  may overwrite a FAILED (376) that came just before.
- `SeekIsTaken` holds up to the end of the session: a seek accepted after the last
  look at `seek_pending` (1178) is dropped with it.
- `InterruptEnds` (of a pipeline error, not of an interrupt) and `StreamPlays`
  except a lost sound: an audio lane that ends early leaves its queue open, which
  fills and blocks the reader (534, 737).  On a device that did not pause, a chunk
  written while paused is enough (`audio_alsa.c` 104-108).  `StreamPlays` also
  excepts a resume whose Play was refused, which nobody looks at (1285).
- `StreamPlays` holds of containers that are `Interleaved`: of any 514 packets in a
  row (or 8 MB of sound and one more) one is video.  One more chunk of sound in a
  row, before the first picture, in the middle or after the last, and the code
  stops for good once the clock is absent or stale: the lane waits for a frame
  (`audio_alsa.c` 171), the reader for the lane, and the frame is behind the
  reader.  Only the user's stop or seek ends it.  For the model the hypothesis is
  exact: of all containers of up to six packets, with a queue of one and of two,
  those hang that are not `Interleaved`, and no others.
- `StreamPlays` assumes that a pause pauses (`PausedConsumesNothing`, which the run
  `MCSegmentPauseRace` shows to fail): a pipeline that plays on through a pause shows
  all it has, and the sound then waits in the same way.
- `InterruptEnds` excepts, of a pipeline error, sound that waits so (`SoundWaits`):
  `on_event` clears `running` and wakes nobody, `wait_for_clock` and `write_frames`
  look only at `interrupted`, and the thread that would interrupt is waiting too.
- `ApprovalSignsIn` excepts a pool that is full, again and again, when an approved
  poll's reply is consumed: `request` (1387) then returns NULL, the approval is
  dropped, and the next poll takes the slot.  `pump` polls every 2 s whatever polls
  are out (1512-1519), and curl's 60 s begin only when one of the four workers
  takes the task, so a server whose replies take more than 8 s fills the 32 slots
  and may keep them full; TLC finds the endless behaviour when the exception is
  left out.
- `SettledIsShown` and `ChoiceTakesEffect` leave out a text track that only the
  container has: the loader, with nothing to fetch, closes it with its own serial
  (663), although the reader opened it.
- No property says that a picture shown while paused is complete: a frame drawn
  between `start()` letting the workers go (640-643) and the script's lines
  arriving (884) is kept, because the slots' generation is not renewed.

Further, by module:

- `SignIn`: `NoUnaskedSignIn` counts a silent sign-in (`Reauthenticate`) as asked
  for, as the code does; one that fails by the network forgets the password like
  one that is refused (`main.c` 1305-1308 against the comment at 1272-1275);
  choosing a discovered server leaves `connecting` set.
- `Segment`: the end of the stream cuts off the sound that
  is not written yet; an error of the pipeline clears `running` without an
  interrupt (`player.c` 370-378); `jf_demux_open` and a blocking read cannot be
  interrupted; `jf_audio_pause` uses the device without a lock while the session
  may close it.
- `MediaClock`: after a pause shorter than an anchor's freshness the clock is ahead
  by the pause until the next sample, which `ReadingIsNear` allows; without
  the freshness gate, `jf_clock_host_for` is off by any pause.  A late frame
  report after `jf_clock_reset` (`clock.c` 42) makes the new segment's own
  reports look like strays; the model has reports arrive at once.
- `Demux`: when switching audio in place fails, the old decoder is closed and
  `read_audio` and `played` stay (`player.c` 946-947): silence, although the UI
  shows the old track (`SeekKeepsDecoder`, stated and not kept).  When opening a
  decoder fails in a reopen, the sound does not come back by itself.
- `PicSubs`: the empty pictures that end others pile up while subtitles are off,
  because they have no end to be long past (`LongOverLetGo`, stated and not kept:
  `picsubs.c` 108-109 against `picsubs.h` 10-12); after 256, later pictures are
  refused.  `jf_picsubs_close` on the session's thread frees a buffer the UI may
  still be uploading.
- `Host`: "two seconds ahead" (`smp_host.c` 303) is measured from `base_ns`, which
  does not move while playing; the clock is read before the lock, so that a
  frame may be drawn early after a new anchor; the last texture of one title
  stays until the next one draws.
- `Screens`: `pop` brings back a season's series as the item of the details, but
  not the rows of it, which may be another series' by then (1111-1117).  Only a
  stack that goes on from there leads to details that are drawn with them -- a
  walk of some twenty presses through two series and the settings -- and
  `RepliesBelong` excepts what was `recalled` so.  "nothing above the sign-in screens is ever pushed" (`main.c` 1123) does
  not hold: the settings opened from the sidebar over the settings return to
  themselves for ever, which `BackLeadsOut` excepts.  Scrubbing survives Back
  (`SeekOnRelease`, stated and not kept: 2056).  A failure reply, or a sign-in
  that is not silent, leaves playback for another screen while the player goes
  on, and later starts fail (`player.c` 1208).  Two starts of one item: the late
  reply of the first resets the subtitle chosen since.  A neighbour that cannot
  be played leaves the old item's name over a stopped player.
- `Settings`: values with blanks around them lose them on reload (`cfg.c` `trim`
  against `docs/jellyfin.md` 186), which is text and not in the model.  No call
  forces the directory, so that a power cut may undo the rename itself;
  `SettingsAreKept` says "one whole save", not "the last".
- `Cache`: `jf_store_prune` passes over names of 96 characters or more, which the
  partial files of backdrops have: they are never counted or removed.  An image
  torn by a power cut does not decode and is fetched again.

## 6. What is not modelled

The image decoders, the Starfish payloads and shim, and the platform layer are
adapters over libraries: what they can do to the rest is an input of the modules
(a packet of any size, an open that fails, a refused Play, an error at any time).
The user interface toolkit draws from one thread and keeps nothing that outlives
a frame but caches of glyphs.  Within the modelled components, left out are:
formatting and parsing of requests, replies and files; probing of streams and
codec parameters; geometry, animation, focus within a screen, text entry and LAN
discovery; fonts and blending.  A frame of `Library` draws the selected row and
the next; scrolling by pointer only changes which two.  Sample placement inside a
chunk (`audio_sync.h`) is below the granularity of `Segment`.  Not modelled although
the code could be exposed to them: two processes at once (the platform starts
one), and data races on plain variables (section 5 names those that were seen).

## 7. What is left

1. Pure parts against reference definitions: the skyline packer, `audio_sync.h`,
   the grid's moves and virtual list, the arena.
2. The home rows' and the details screen's use of the poster cache, and blurred
   previews, in `Library`.
3. Abstract specifications to refine: "what is on screen is what was chosen last"
   for `Tracks`; "each submitted task is answered once" for `Fetcher`.
4. Theorems: the safety of `Host` that its liveness rests on, `TypeOK` of the
   parts that have none yet, and the steps of the refinements in 3.
