------------------------------ MODULE MCParts ------------------------------
(* The five parts checked side by side: a behaviour is one part's throughout *)
(* and the others stay as they began.                                        *)
EXTENDS Parts, TLC

UntilNextOrOne == {-1, 1}
Alike == Permutations(Workers)

VARIABLE part

cacheVars == <<files, worker, cacheClock, cacheUp>>
picsubsVars == <<open, chosen, images, shown, valid, heap>>
demuxVars == <<session, source, stretch, wanted, played, readAudio, decoder, audioHas,
               swrHas, nextPts, filter, subs, missed, out>>
clockVars == <<now, position, playing, anchored, samplePts, sampleHost, poll>>

MCInit ==
  /\ part \in {"settings", "cache", "picsubs", "demux", "clock"}
  /\ Init /\ Cache!Init /\ PicSubs!Init /\ Demux!Init /\ Clock!Init

MCNext ==
  \/ /\ part = "settings" /\ Next
     /\ UNCHANGED <<part, cacheVars, picsubsVars, demuxVars, clockVars>>
  \/ /\ part = "cache" /\ Cache!Next
     /\ UNCHANGED <<part, vars, picsubsVars, demuxVars, clockVars>>
  \/ /\ part = "picsubs" /\ PicSubs!Next
     /\ UNCHANGED <<part, vars, cacheVars, demuxVars, clockVars>>
  \/ /\ part = "demux" /\ Demux!Next
     /\ UNCHANGED <<part, vars, cacheVars, picsubsVars, clockVars>>
  \/ /\ part = "clock" /\ Clock!Next
     /\ UNCHANGED <<part, vars, cacheVars, picsubsVars, demuxVars>>

MCSpec ==
  MCInit /\ [][MCNext]_<<part, vars, cacheVars, picsubsVars, demuxVars, clockVars>>
=============================================================================
