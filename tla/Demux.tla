------------------------------- MODULE Demux -------------------------------
(* src/src/jf/demux.c as the session of src/src/jf/player.c uses it: a source *)
(* is opened, read, sought in and opened anew elsewhere, with decoders, a     *)
(* resampler and a bitstream filter that keep back part of what they are      *)
(* given.  What they hold is told apart only by the stretch of the source it  *)
(* came from.  FFmpeg's calls may fail, each where the code looks.            *)
EXTENDS Integers, FiniteSets, FiniteSetsExt

CONSTANTS
  Audio,       \* the container's audio streams, by number
  Subtitles,   \* its subtitle streams, which all have decoders
  MaxStretch   \* bounds the seeks: one stretch each

VARIABLES
  session,           \* "opening", "between" segments, "reading", "ended"
  source,            \* "closed", "file" or "recut", a transcode
  stretch,
  wanted, played,    \* audio_track, played_audio_track: streams of the file
  readAudio,         \* read_audio
  decoder,           \* d->audio: the stream it decodes
  audioHas, swrHas,  \* the stretches that d->audio and d->swr hold data of
  nextPts,           \* the stretch audio_next_pts counts on in
  filter,            \* d->bsf: whether there is one, and what it holds
  subs,              \* d->subs: the open ones, and what they hold
  missed,            \* history: a decoder could not be opened
  out                \* history: the stretches of what was last handed on

vars == <<session, source, stretch, wanted, played, readAudio, decoder,
          audioHas, swrHas, nextPts, filter, subs, missed, out>>

None == -1
NoFilter == [on |-> FALSE, has |-> {}]
RecutAudio == 0     \* a transcode has one audio stream, whatever the file's

Streams(src) == IF src = "file" THEN Audio ELSE {RecutAudio}

Init ==
  /\ session = "opening" /\ source = "closed" /\ stretch = 1
  /\ wanted = None /\ played = None /\ readAudio = None
  /\ decoder = None /\ audioHas = {} /\ swrHas = {} /\ nextPts = 0
  /\ filter = NoFilter /\ subs = <<>> /\ missed = FALSE /\ out = {}

----------------------------------------------------------------------------
(* The decoders: audio_close and jf_demux_audio_open, jf_demux_video_open,    *)
(* jf_demux_subtitle_open.                                                    *)

AudioEmptied == audioHas' = {} /\ swrHas' = {} /\ nextPts' = 0

\* `decoder'` is the stream's, or none at all.
AudioOpened(stream) == AudioEmptied /\ decoder' \in {stream, None}

\* The filter is there for a container that stores its video length-prefixed.
VideoOpened == filter' \in [on : BOOLEAN, has : {{}}]

SubtitlesOpened(src) ==
  \E opened \in SUBSET (IF src = "file" THEN Subtitles ELSE {}) :
    subs' = [s \in opened |-> {}]

SwitchesAudio == wanted # played /\ readAudio # None
PlayedNext == IF SwitchesAudio THEN wanted ELSE played

\* open_audio_stream, of the decoder and the sound card: the session does
\* without sound when it fails, but for a switch, which tries the decoder again.
Sounds(stream) ==
  IF stream = None
  THEN AudioEmptied /\ decoder' = None /\ readAudio' = None /\ UNCHANGED missed
  ELSE /\ AudioOpened(stream)
       /\ readAudio' \in IF SwitchesAudio /\ source = "file" THEN {decoder'} ELSE {decoder', None}
       /\ missed' = (missed \/ readAudio' = None)

----------------------------------------------------------------------------
(* The session's start: the file, or a transcode when the television's        *)
(* decoder would not take it.                                                 *)

Over ==
  /\ session' = "ended" /\ source' = "closed"     \* jf_demux_close
  /\ AudioEmptied /\ decoder' = None /\ filter' = NoFilter /\ subs' = <<>>

OpenFails ==
  /\ session = "opening" /\ Over
  /\ UNCHANGED <<stretch, wanted, played, readAudio, missed, out>>

Open ==
  /\ session = "opening" /\ session' = "between"
  /\ source' \in {"file", "recut"}
  /\ LET first == IF Audio = {} THEN None ELSE Min(Audio)
     IN  /\ wanted' = first /\ played' = first
         /\ Sounds(IF first = None \/ source' = "file" THEN first ELSE RecutAudio)
  /\ SubtitlesOpened(source') /\ VideoOpened
  /\ UNCHANGED <<stretch, out>>

\* The UI; it seeks in place to have the track.
ChooseAudio ==
  /\ session \in {"between", "reading"}
  /\ wanted' \in Audio \ {wanted}
  /\ UNCHANGED <<session, source, stretch, played, readAudio, decoder,
                 audioHas, swrHas, nextPts, filter, subs, missed, out>>

\* A segment starts, ends for a seek, or ends the session.
Segment ==
  /\ \/ session = "between" /\ session' = "reading"
     \/ session = "reading" /\ session' = "between"
  /\ UNCHANGED <<source, stretch, wanted, played, readAudio, decoder,
                 audioHas, swrHas, nextPts, filter, subs, missed, out>>

End ==
  /\ session \in {"between", "reading"} /\ Over
  /\ UNCHANGED <<stretch, wanted, played, readAudio, missed, out>>

----------------------------------------------------------------------------
(* seek_to                                                                    *)

\* jf_demux_seek; then the decoder of another track, if one was chosen.
FilterKeeps == UNCHANGED filter   \* mutant
FilterFlushed == filter' = [filter EXCEPT !.has = {}]
SeekInPlace ==
  /\ source = "file" /\ UNCHANGED source
  /\ subs' = [s \in DOMAIN subs |-> {}]
  /\ FilterFlushed /\ AudioEmptied
  /\ IF SwitchesAudio /\ readAudio # wanted
     THEN /\ decoder' \in {wanted, None}
          /\ readAudio' = IF decoder' = wanted THEN wanted ELSE readAudio
          /\ missed' = (missed \/ decoder' # wanted)
     ELSE UNCHANGED <<decoder, readAudio, missed>>

\* reopen_at: streams are chosen anew; the played one if the source has it.
ChosenFirst(src) == Min(Streams(src))   \* mutant: whichever is played
Chosen(src) ==
  IF src = "file" /\ PlayedNext \in Streams(src) THEN PlayedNext ELSE Min(Streams(src))
Reopen ==
  /\ UNCHANGED source
  /\ Sounds(IF readAudio = None THEN None ELSE Chosen(source))
  /\ SubtitlesOpened(source) /\ VideoOpened

Seek ==
  /\ session = "between" /\ stretch < MaxStretch
  /\ stretch' = stretch + 1
  /\ played' = PlayedNext
  /\ out' = {}
  /\ SeekInPlace \/ Reopen
  /\ UNCHANGED <<session, wanted>>

\* Neither: the source may be closed already, and the session ends.
SeekIgnored ==   \* mutant: the failure does not end the session
  /\ session = "between" /\ stretch < MaxStretch
  /\ source' = "closed"
  /\ UNCHANGED <<session, stretch, wanted, played, readAudio, decoder,
                 audioHas, swrHas, nextPts, filter, subs, missed, out>>
SeekFails ==
  /\ session = "between" /\ stretch < MaxStretch
  /\ Over
  /\ UNCHANGED <<stretch, wanted, played, readAudio, missed, out>>

----------------------------------------------------------------------------
(* jf_demux_next and what the reader does with a packet.  A stage given some  *)
(* of this stretch keeps any of what it then has and hands on the rest.       *)

Reads == session = "reading" /\ UNCHANGED <<session, source, stretch, wanted, played,
                                            readAudio, decoder, missed>>

\* Through the filter, which can want another packet first.
ReadVideo ==
  /\ Reads
  /\ LET has == IF filter.on THEN filter.has \cup {stretch} ELSE {stretch}
     IN  \E kept \in SUBSET (IF filter.on THEN has ELSE {}) :
           filter' = [filter EXCEPT !.has = kept] /\ out' = has \ kept
  /\ UNCHANGED <<audioHas, swrHas, nextPts, subs>>

\* jf_demux_audio_decode: an error hands on nothing, and what the resampler
\* was given stays in it.  A frame without a time goes where the last ended.
ReadAudio ==
  /\ Reads /\ readAudio # None /\ decoder # None
  /\ LET has == audioHas \cup {stretch}
     IN  \E kept \in SUBSET has :
           LET frames == has \ kept
               samples == swrHas \cup frames
           IN  /\ audioHas' = kept
               /\ \E left \in SUBSET samples, timed, failed \in BOOLEAN :
                    /\ swrHas' = left
                    /\ nextPts' = IF samples \ left = {} THEN nextPts ELSE stretch
                    /\ out' = IF failed THEN {} ELSE
                              (samples \ left) \cup
                                IF timed \/ samples \ left = {} \/ nextPts = 0 THEN {} ELSE {nextPts}
  /\ UNCHANGED <<filter, subs>>

ReadSubtitle ==
  /\ Reads
  /\ \E s \in DOMAIN subs :
       \E kept \in SUBSET (subs[s] \cup {stretch}) :
         subs' = [subs EXCEPT ![s] = kept] /\ out' = (subs[s] \cup {stretch}) \ kept
  /\ UNCHANGED <<audioHas, swrHas, nextPts, filter>>

\* apply_subtitle_track opens a text track's decoder anew.
RestartSubtitle ==
  /\ Reads
  /\ \E s \in DOMAIN subs :
       \/ subs' = [subs EXCEPT ![s] = {}]
       \/ subs' = [t \in DOMAIN subs \ {s} |-> subs[t]]
  /\ UNCHANGED <<audioHas, swrHas, nextPts, filter, out>>

----------------------------------------------------------------------------
Next ==
  \/ Open \/ OpenFails \/ ChooseAudio \/ Segment \/ End \/ Seek \/ SeekFails
  \/ ReadVideo \/ ReadAudio \/ ReadSubtitle \/ RestartSubtitle

Spec == Init /\ [][Next]_vars

----------------------------------------------------------------------------
TypeOK ==
  /\ session \in {"opening", "between", "reading", "ended"}
  /\ source \in {"closed", "file", "recut"} /\ stretch \in 1..MaxStretch
  /\ {wanted, played} \subseteq Audio \cup {None}
  /\ {readAudio, decoder} \subseteq Audio \cup {RecutAudio, None}
  /\ missed \in BOOLEAN
  /\ nextPts \in 0..MaxStretch
  /\ \A has \in {audioHas, swrHas, filter.has, out} : has \subseteq 1..MaxStretch
  /\ DOMAIN subs \subseteq Subtitles

(* Nothing a decoder, the resampler or the filter kept back from before a     *)
(* seek or a reopen is handed on after it (jf_demux_seek: "Discard any        *)
(* buffered conversion samples along with the decoder state").                *)
OutputIsCurrent == out \subseteq {stretch}

(* Through seeks, reopens and choices of track, what is read is open, and     *)
(* what is read for sound and decoded is the track that counts as played,     *)
(* unless a decoder could not be opened (jf_demux_reopen leaves a closed      *)
(* source when it fails).                                                     *)
SoundIsThePlayed ==
  /\ session \in {"between", "reading"} => source # "closed"
  /\ session = "reading" /\ ~missed =>
       /\ decoder = readAudio
       /\ source = "file" => readAudio = played

(* "a seek in place keeps the decoder" (player.c:947): the stream read for    *)
(* sound has one.                                                             *)
SeekKeepsDecoder == session = "reading" /\ readAudio # None => decoder = readAudio
=============================================================================
