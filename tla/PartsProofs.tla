---------------------------- MODULE PartsProofs ----------------------------
(* Theorems about the five parts, each of its own specification and from an   *)
(* inductive invariant of its own.                                            *)
EXTENDS Parts, SequenceTheorems, FiniteSetTheorems, WellFoundedInduction, TLAPS

LEMMA LeastOne ==
  ASSUME NEW S \in SUBSET Nat, S # {} PROVE \E i \in S : \A j \in S : i <= j
<1>1. PICK i \in S : \A j \in S : <<j, i>> \notin OpToRel(<, Nat)
  BY WFMin, NatLessThanWellFounded, Zenon
<1>2. ASSUME NEW j \in S PROVE i <= j
  <2>1. i \in Nat /\ j \in Nat
    OBVIOUS
  <2>2. CASE j < i
    <3>1. <<j, i>> \in OpToRel(<, Nat)
      BY <2>1, <2>2 DEF OpToRel
    <3> QED
      BY <1>1, <3>1
  <2> QED
    BY <2>1, <2>2
<1> QED
  BY <1>2

----------------------------------------------------------------------------
(* The settings.  That a file in place is whole is not inductive by itself:   *)
(* it is so because the temporary is whole and forced to the disk when it is  *)
(* renamed, which PathInv follows through the steps of cfg_flush.             *)

(* What each step of cfg_flush leaves the next.                               *)
PathInv ==
  /\ flush # "idle" => up
  /\ flush \in {"write", "sync", "rename"} => temporary.of = version
  /\ flush \in {"sync", "rename"} => temporary.size = Whole
  /\ flush = "rename" => temporary.synced = TRUE

(* What is in place has been forced to the disk, and memory is never behind it. *)
PlaceInv ==
  /\ file.synced = TRUE /\ disk.synced = TRUE
  /\ up => file.of <= version

SettingsInv == TypeOK /\ PathInv /\ PlaceInv /\ SettingsAreKept

LEMMA Made ==
  \A of \in 0..MaxSaves, size \in 0..Whole, synced \in BOOLEAN :
    [of |-> of, size |-> size, synced |-> synced] \in Files
BY DEF Files

LEMMA NoFileIsWhole ==
  NoFile \in Files /\ NoFile.of = 0 /\ NoFile.size = Whole /\ NoFile.synced = TRUE
BY SettingsAssumption DEF SettingsAssumption, NoFile, Files

LEMMA SettingsInit == Init => SettingsInv
<1> SUFFICES ASSUME Init
             PROVE  SettingsInv
  OBVIOUS
<1>1. TypeOK
  <2>1. 0 \in 0..MaxSaves
    BY SettingsAssumption DEF SettingsAssumption
  <2> QED
    BY <2>1, NoFileIsWhole, Zenon DEF Init, TypeOK
<1>2. PathInv
  BY DEF Init, PathInv
<1>3. PlaceInv /\ SettingsAreKept
  BY NoFileIsWhole DEF Init, PlaceInv, SettingsAreKept, IsWhole
<1> QED
  BY <1>1, <1>2, <1>3 DEF SettingsInv

LEMMA SettingsTypeStep == TypeOK /\ [Next]_vars => TypeOK'
<1> SUFFICES ASSUME TypeOK, [Next]_vars
             PROVE  TypeOK'
  OBVIOUS
<1> USE SettingsAssumption DEF SettingsAssumption, TypeOK, FlushGoes, FlushFails
<1>1. CASE Start
  BY <1>1 DEF Start, Files
<1>2. CASE Save
  BY <1>2 DEF Save
<1>3. CASE FlushOpens
  <2>1. 0 \in 0..Whole
    OBVIOUS
  <2> QED
    BY <1>3, <2>1, Made DEF FlushOpens
<1>4. CASE FlushWrites
  BY <1>4 DEF FlushWrites, Files
<1>5. CASE FlushSyncs
  BY <1>5 DEF FlushSyncs, Files
<1>6. CASE FlushRenames
  BY <1>6, NoFileIsWhole DEF FlushRenames
<1>7. CASE FlushRemoves
  BY <1>7, NoFileIsWhole DEF FlushRemoves
<1>8. CASE WriteBack
  BY <1>8 DEF WriteBack, Files
<1>9. CASE Killed
  BY <1>9 DEF Killed, Ended
<1>10. CASE PowerCut
  <2>1. CASE file' = disk \/ file' = file
    BY <1>10, <2>1 DEF PowerCut, Ended
  <2>2. ASSUME NEW size \in 0..file.size,
               file' = [file EXCEPT !.size = size, !.synced = TRUE]
        PROVE  TypeOK'
    <3>1. size \in 0..Whole
      BY DEF Files
    <3> QED
      BY <1>10, <2>2, <3>1 DEF PowerCut, Ended, Files
  <2> QED
    BY <1>10, <2>1, <2>2 DEF PowerCut
<1>11. CASE UNCHANGED vars
  BY <1>11 DEF vars
<1> QED
  BY <1>1, <1>2, <1>3, <1>4, <1>5, <1>6, <1>7, <1>8, <1>9, <1>10, <1>11 DEF Next

LEMMA SettingsStep == SettingsInv /\ [Next]_vars => SettingsInv'
<1> SUFFICES ASSUME SettingsInv, [Next]_vars
             PROVE  (PathInv /\ PlaceInv /\ SettingsAreKept)'
  BY SettingsTypeStep DEF SettingsInv
<1> USE SettingsAssumption
    DEF SettingsAssumption, SettingsInv, TypeOK, Files, PathInv, PlaceInv, SettingsAreKept, IsWhole, NoFile,
        FlushGoes, FlushFails
<1>1. CASE Start
  BY <1>1 DEF Start
<1>2. CASE Save
  BY <1>2 DEF Save
<1>3. CASE FlushOpens
  BY <1>3 DEF FlushOpens
<1>4. CASE FlushWrites
  BY <1>4 DEF FlushWrites
<1>5. CASE FlushSyncs
  BY <1>5 DEF FlushSyncs
<1>6. CASE FlushRenames
  BY <1>6 DEF FlushRenames
<1>7. CASE FlushRemoves
  BY <1>7 DEF FlushRemoves
<1>8. CASE WriteBack
  BY <1>8 DEF WriteBack
<1>9. CASE Killed
  BY <1>9 DEF Killed, Ended
<1>10. CASE PowerCut                  \* what is in place was forced to the disk
  <2>1. /\ file' = disk \/ file' = file
        /\ disk' = file'
        /\ ~up' /\ flush' = "idle"
    BY <1>10 DEF PowerCut, Ended
  <2> QED
    BY <2>1
<1>11. CASE UNCHANGED vars
  BY <1>11 DEF vars
<1> QED
  BY <1>1, <1>2, <1>3, <1>4, <1>5, <1>6, <1>7, <1>8, <1>9, <1>10, <1>11 DEF Next

(* Through failed calls, kills and power cuts, at any point of cfg_flush, a   *)
(* start reads one whole save, and never one older than the disk has had.     *)
THEOREM SettingsHold == Spec => []SettingsAreKept
<1>1. Spec => []SettingsInv
  BY SettingsInit, SettingsStep, PTL DEF Spec
<1> QED
  BY <1>1, PTL DEF SettingsInv

----------------------------------------------------------------------------
(* The artwork cache.  A worker's partial file is its own while it works, so  *)
(* that what it renames is what it wrote; nobody works while the program is   *)
(* down, when a start prunes and a power cut tears.                           *)

FileInv ==
  /\ \A n \in DOMAIN files : files[n] \in [size : Nat, synced : BOOLEAN, at : Int]
  /\ cacheClock \in Int

WorkInv ==
  /\ worker \in [Workers -> [at : {"idle", "open", "write", "rename", "unlink"},
                             image : Cache!Images \cup {Cache!Idle.image}]]
  /\ ~cacheUp => \A w \in Workers : worker[w] = Cache!Idle

PartialInv ==
  \A w \in Workers :
    LET name == Cache!Partial(worker[w].image, w)
    IN  /\ worker[w].at \in {"write", "rename"} => name \in DOMAIN files
        /\ worker[w].at = "rename" => files[name].size = Whole

CacheInv == FileInv /\ WorkInv /\ PartialInv /\ ImagesAreWhole

LEMMA NamesDiffer ==
  /\ \A i, j, w : Cache!Final(i) # Cache!Partial(j, w)
  /\ \A i, j : Cache!Final(i) = Cache!Final(j) => i = j
  /\ \A i, j, v, w : Cache!Partial(i, v) = Cache!Partial(j, w) => v = w /\ i = j
<1>1. \A i, j, w : <<i>> # <<j, w>>
  <2> SUFFICES ASSUME NEW i, NEW j, NEW w, <<i>> = <<j, w>>
               PROVE  FALSE
    BY Zenon
  <2>1. Len(<<i>>) = 1 /\ Len(<<j, w>>) = 2
    OBVIOUS
  <2> QED
    BY <2>1
<1> QED
  BY <1>1 DEF Cache!Final, Cache!Partial

LEMMA CacheInitHolds == Cache!Init => CacheInv
<1> SUFFICES ASSUME Cache!Init
             PROVE  CacheInv
  OBVIOUS
<1>1. Cache!Idle.at = "idle" /\ worker = [w \in Workers |-> Cache!Idle] /\ DOMAIN files = {}
  BY DEF Cache!Init, Cache!Idle
<1>2. Cache!Idle \in [at : {"idle", "open", "write", "rename", "unlink"},
                      image : Cache!Images \cup {Cache!Idle.image}]
  BY DEF Cache!Idle
<1> QED
  BY <1>1, <1>2 DEF CacheInv, FileInv, WorkInv, PartialInv, ImagesAreWhole, Cache!ImagesAreWhole,
                       Cache!Init

(* One worker goes on, up, and the rest stay where they are.                  *)
LEMMA WorkerGoes ==
  ASSUME WorkInv, NEW w \in Workers, NEW from \in {"open", "write", "rename", "unlink"},
         NEW to \in {"idle", "write", "rename", "unlink"},
         Cache!WorkerGoes(w, from, to)
  PROVE  /\ WorkInv'
         /\ \A v \in Workers \ {w} : worker'[v] = worker[v]
         /\ worker'[w].at = to
         /\ to # "idle" => worker'[w].image = worker[w].image
         /\ worker[w].at = from
<1>1. Cache!Idle \in [at : {"idle", "open", "write", "rename", "unlink"},
                      image : Cache!Images \cup {Cache!Idle.image}]
       /\ Cache!Idle.at = "idle"
  BY DEF Cache!Idle
<1>2. /\ cacheUp /\ cacheUp' = cacheUp /\ worker[w].at = from
      /\ worker' = [worker EXCEPT ![w] = IF to = "idle" THEN Cache!Idle
                                         ELSE [worker[w] EXCEPT !.at = to]]
  BY DEF Cache!WorkerGoes
<1> QED
  BY <1>1, <1>2 DEF WorkInv

LEMMA CacheStep == CacheInv /\ [Cache!Next]_(Cache!vars) => CacheInv'
<1> SUFFICES ASSUME CacheInv, [Cache!Next]_(Cache!vars)
             PROVE  CacheInv'
  OBVIOUS
<1> USE DEF CacheInv
<1>1. CASE Cache!Start
  BY <1>1 DEF Cache!Start, WorkInv, FileInv, PartialInv, ImagesAreWhole, Cache!ImagesAreWhole, Cache!Idle
<1>2. ASSUME NEW w \in Workers, NEW image \in Cache!Images, Cache!Fetch(w, image)
      PROVE  CacheInv'
  BY <1>2 DEF Cache!Fetch, WorkInv, FileInv, PartialInv, ImagesAreWhole, Cache!ImagesAreWhole
<1>3. ASSUME NEW w \in Workers, Cache!Open(w)
      PROVE  CacheInv'
  <2> DEFINE name == Cache!Partial(worker[w].image, w)
             made == [size |-> 0, synced |-> FALSE, at |-> cacheClock]
  <2>1. CASE Cache!WorkerGoes(w, "open", "write") /\ files' = Cache!With(files, name, made)
    BY <1>3, <2>1, WorkerGoes, NamesDiffer
    DEF Cache!Open, FileInv, PartialInv, ImagesAreWhole, Cache!ImagesAreWhole, Cache!With
  <2>2. CASE Cache!WorkerGoes(w, "open", "idle") /\ files' = files
    BY <1>3, <2>2, WorkerGoes DEF Cache!Open, FileInv, PartialInv, ImagesAreWhole, Cache!ImagesAreWhole
  <2> QED
    BY <1>3, <2>1, <2>2 DEF Cache!Open
<1>4. ASSUME NEW w \in Workers, Cache!Write(w)
      PROVE  CacheInv'
  <2> DEFINE name == Cache!Partial(worker[w].image, w)
             size == files[name].size + 1
             next == IF size = Whole THEN "rename" ELSE "write"
  <2>1. CASE /\ Cache!WorkerGoes(w, "write", next)
             /\ files' = [files EXCEPT ![name] = [files[name] EXCEPT !.size = size, !.at = cacheClock']]
             /\ cacheClock' = cacheClock + 1
    <3>1. name \in DOMAIN files
      BY <2>1, WorkerGoes DEF PartialInv
    <3>2. /\ files[name] \in [size : Nat, synced : BOOLEAN, at : Int]
          /\ cacheClock' \in Int /\ size \in Nat
      BY <2>1, <3>1 DEF FileInv
    <3>3. [files[name] EXCEPT !.size = size, !.at = cacheClock']
            \in [size : Nat, synced : BOOLEAN, at : Int]
      BY <3>2
    <3>4. /\ DOMAIN files' = DOMAIN files
          /\ files'[name].size = size /\ files'[name] \in [size : Nat, synced : BOOLEAN, at : Int]
          /\ \A n \in DOMAIN files \ {name} : files'[n] = files[n]
      <4>1. files'[name] = [files[name] EXCEPT !.size = size, !.at = cacheClock']
        BY <2>1, <3>1
      <4>2. files'[name].size = size
        BY <3>2, <4>1
      <4>3. /\ DOMAIN files' = DOMAIN files
            /\ \A n \in DOMAIN files \ {name} : files'[n] = files[n]
        BY <2>1
      <4> QED
        BY <3>3, <4>1, <4>2, <4>3
    <3>5. next \in {"write", "rename"} /\ size \in Nat /\ (next = "rename" => size = Whole)
      BY <3>1 DEF FileInv
    <3>6. /\ WorkInv' /\ worker'[w].at = next /\ worker'[w].image = worker[w].image
          /\ \A v \in Workers \ {w} : worker'[v] = worker[v]
      BY <2>1, <3>5, WorkerGoes
    <3> HIDE DEF next, size, name
    <3>7. FileInv'
      BY <3>2, <3>4 DEF FileInv
    <3>8. PartialInv'
      <4>1. Cache!Partial(worker'[w].image, w) = name
        BY <3>6 DEF name
      <4>2. \A v \in Workers \ {w} : Cache!Partial(worker'[v].image, v) # name
        BY NamesDiffer DEF name
      <4>3. ASSUME NEW v \in Workers \ {w}
            PROVE  LET n == Cache!Partial(worker'[v].image, v)
                   IN  /\ worker'[v].at \in {"write", "rename"} => n \in DOMAIN files'
                       /\ worker'[v].at = "rename" => files'[n].size = Whole
        BY <3>4, <3>6, <4>2 DEF PartialInv
      <4> QED
        BY <3>1, <3>4, <3>5, <3>6, <4>1, <4>3 DEF PartialInv
    <3> QED
      BY <3>4, <3>6, <3>7, <3>8, NamesDiffer DEF ImagesAreWhole, Cache!ImagesAreWhole, name
  <2>2. CASE Cache!WorkerGoes(w, "write", "unlink") /\ files' = files /\ cacheClock' = cacheClock
    BY <2>2, WorkerGoes DEF FileInv, PartialInv, ImagesAreWhole, Cache!ImagesAreWhole
  <2> QED
    BY <1>4, <2>1, <2>2 DEF Cache!Write
<1>5. ASSUME NEW w \in Workers, Cache!Rename(w)
      PROVE  CacheInv'
  <2> DEFINE name == Cache!Partial(worker[w].image, w)
             final == Cache!Final(worker[w].image)
  <2>1. CASE /\ Cache!WorkerGoes(w, "rename", "idle")
             /\ files' = Cache!With(Cache!Without(name), final, files[name])
             /\ cacheClock' = cacheClock
    <3>1. name \in DOMAIN files /\ files[name].size = Whole
      BY <2>1, WorkerGoes DEF PartialInv
    <3>2. /\ DOMAIN files' = (DOMAIN files \ {name}) \cup {final}
          /\ files'[final] = files[name]
          /\ \A n \in DOMAIN files \ {name, final} : files'[n] = files[n]
      BY <2>1 DEF Cache!With, Cache!Without
    <3>3. WorkInv' /\ worker'[w].at = "idle" /\ \A v \in Workers \ {w} : worker'[v] = worker[v]
      BY <2>1, WorkerGoes
    <3>4. PartialInv'
      BY <3>2, <3>3, NamesDiffer DEF PartialInv
    <3>5. FileInv'
      BY <1>5, <3>1, <3>2 DEF FileInv, Cache!Rename
    <3> QED
      BY <3>1, <3>2, <3>3, <3>4, <3>5, NamesDiffer DEF ImagesAreWhole, Cache!ImagesAreWhole
  <2>2. CASE Cache!WorkerGoes(w, "rename", "unlink") /\ files' = files /\ cacheClock' = cacheClock
    BY <2>2, WorkerGoes DEF FileInv, PartialInv, ImagesAreWhole, Cache!ImagesAreWhole
  <2> QED
    BY <1>5, <2>1, <2>2 DEF Cache!Rename
<1>6. ASSUME NEW w \in Workers, Cache!Unlink(w)
      PROVE  CacheInv'
  <2> DEFINE name == Cache!Partial(worker[w].image, w)
  <2>1. Cache!WorkerGoes(w, "unlink", "idle") /\ files' = Cache!Without(name)
       /\ cacheClock' = cacheClock
    BY <1>6 DEF Cache!Unlink
  <2> QED
    BY <2>1, WorkerGoes, NamesDiffer
    DEF FileInv, PartialInv, ImagesAreWhole, Cache!ImagesAreWhole, Cache!Without
<1>7. CASE Cache!Killed
  BY <1>7 DEF Cache!Killed, Cache!Ended, WorkInv, FileInv, PartialInv, ImagesAreWhole,
              Cache!ImagesAreWhole, Cache!Idle
<1>8. CASE Cache!PowerCut
  <2>1. WorkInv' /\ PartialInv' /\ cacheClock' = cacheClock
    BY <1>8 DEF Cache!PowerCut, Cache!Ended, WorkInv, PartialInv, Cache!Idle
  <2>2. PICK n \in DOMAIN files :
          \/ files' = Cache!Without(n)
          \/ \E size \in 0..files[n].size :
               files' = [files EXCEPT ![n] = [files[n] EXCEPT !.size = size, !.synced = TRUE]]
    BY <1>8 DEF Cache!PowerCut
  <2>3. CASE files' = Cache!Without(n)
    BY <2>1, <2>3 DEF Cache!Without, FileInv, ImagesAreWhole, Cache!ImagesAreWhole
  <2>4. ASSUME NEW size \in 0..files[n].size,
               files' = [files EXCEPT ![n] = [files[n] EXCEPT !.size = size, !.synced = TRUE]]
        PROVE  CacheInv'
    <3>1. files[n] \in [size : Nat, synced : BOOLEAN, at : Int] /\ size \in Nat
      BY DEF FileInv
    <3>2. /\ files'[n] = [files[n] EXCEPT !.size = size, !.synced = TRUE]
          /\ DOMAIN files' = DOMAIN files
          /\ \A m \in DOMAIN files \ {n} : files'[m] = files[m]
      BY <2>4
    <3>3. files'[n] \in [size : Nat, synced : BOOLEAN, at : Int] /\ files'[n].synced = TRUE
      BY <3>1, <3>2
    <3>4. FileInv' /\ ImagesAreWhole'
      BY <2>1, <3>2, <3>3 DEF FileInv, ImagesAreWhole, Cache!ImagesAreWhole
    <3> QED
      BY <2>1, <3>4
  <2> QED
    BY <2>2, <2>3, <2>4
<1>9. CASE UNCHANGED Cache!vars
  BY <1>9 DEF Cache!vars, WorkInv, FileInv, PartialInv, ImagesAreWhole, Cache!ImagesAreWhole
<1> QED
  BY <1>1, <1>2, <1>3, <1>4, <1>5, <1>6, <1>7, <1>8, <1>9 DEF Cache!Next

(* "a half-written file must never be readable as a whole one" (store.c:216): *)
(* however many workers fetch whichever images, and wherever they are killed. *)
THEOREM ImagesStayWhole == Cache!Spec => []ImagesAreWhole
<1>1. Cache!Spec => []CacheInv
  BY CacheInitHolds, CacheStep, PTL DEF Cache!Spec
<1> QED
  BY <1>1, PTL DEF CacheInv

----------------------------------------------------------------------------
(* The bitmap subtitles.                                                      *)

Pics == [start : Int, end : Int, stream : BitmapTracks, rgba : Nat]

LEMMA SameCount == ASSUME NEW S PROVE PicSubs!Cardinality(S) = Cardinality(S)
BY DEF PicSubs!Cardinality, Cardinality

(* What is kept of a list, and where it was: a rising map onto the positions. *)
Rises(pos, keep, m) ==
  /\ pos \in [1..m -> keep]
  /\ \A j, k \in 1..m : j < k => pos[j] < pos[k]
  /\ \A i \in keep : \E k \in 1..m : pos[k] = i

LEMMA Ranks ==
  ASSUME NEW n \in Nat, NEW keep \in SUBSET (1..n)
  PROVE  /\ Cardinality(keep) \in 0..n
         /\ \E pos : /\ Rises(pos, keep, Cardinality(keep))
                     /\ \A k \in 1..Cardinality(keep) : pos[k] = PicSubs!Place(keep, k)
<1> DEFINE m == Cardinality(keep)
           upto(i) == {j \in keep : j <= i}
           rank == [i \in keep |-> Cardinality(upto(i))]
           pos == [k \in 1..m |-> PicSubs!Place(keep, k)]
<1>1. IsFiniteSet(keep) /\ m \in 0..n
  <2>1. IsFiniteSet(1..n) /\ Cardinality(1..n) = n
    BY FS_Interval
  <2>2. IsFiniteSet(keep) /\ m <= n
    BY <2>1, FS_Subset
  <2> QED
    BY <2>2, FS_CardinalityType
<1>2. ASSUME NEW i \in keep
      PROVE  IsFiniteSet(upto(i)) /\ rank[i] \in 1..m
  <2>1. upto(i) \in SUBSET keep /\ i \in upto(i)
    OBVIOUS
  <2>2. IsFiniteSet(upto(i)) /\ Cardinality(upto(i)) <= m
    BY <1>1, <2>1, FS_Subset
  <2>3. Cardinality(upto(i)) \in Nat /\ Cardinality(upto(i)) # 0
    BY <2>1, <2>2, FS_CardinalityType, FS_EmptySet
  <2> HIDE DEF m, upto
  <2> QED
    BY <1>1, <2>2, <2>3
<1>3. ASSUME NEW i \in keep, NEW j \in keep, i < j
      PROVE  rank[i] < rank[j]
  <2>1. upto(i) \in SUBSET upto(j) /\ j \in upto(j) /\ j \notin upto(i)
    <3>1. i \in Int /\ j \in Int /\ \A x \in keep : x \in Int
      OBVIOUS
    <3>2. \A x \in keep : x <= i => x <= j
      BY <1>3, <3>1
    <3>3. j <= j /\ ~(j <= i)
      BY <1>3, <3>1
    <3> QED
      BY <3>2, <3>3
  <2>2. upto(i) # upto(j)
    BY <2>1
  <2>3. Cardinality(upto(i)) <= Cardinality(upto(j))
        /\ Cardinality(upto(i)) # Cardinality(upto(j))
    BY <1>2, <2>1, <2>2, FS_Subset
  <2>4. rank[i] \in Nat /\ rank[j] \in Nat
    BY <1>2
  <2> HIDE DEF upto
  <2> QED
    BY <2>3, <2>4
<1>4. rank \in Injection(keep, 1..m)
  <2>1. rank \in [keep -> 1..m]
    BY <1>2
  <2>2. ASSUME NEW i \in keep, NEW j \in keep, rank[i] = rank[j] PROVE i = j
    <3>1. i \in Int /\ j \in Int /\ rank[i] \in Int /\ rank[j] \in Int
      BY <1>2
    <3> HIDE DEF rank
    <3> QED
      BY <1>3, <2>2, <3>1
  <2> HIDE DEF rank, m
  <2> QED
    BY <2>1, <2>2 DEF Injection, IsInjective
<1>5. rank \in Surjection(keep, 1..m)
  <2>1. IsFiniteSet(1..m) /\ Cardinality(1..m) = m
    BY <1>1, FS_Interval
  <2> HIDE DEF rank, m
  <2> QED
    BY <1>4, <2>1, FS_Injection DEF m
<1>6. ASSUME NEW k \in 1..m
      PROVE  PicSubs!Place(keep, k) \in keep /\ rank[PicSubs!Place(keep, k)] = k
  <2>1. PICK i \in keep : rank[i] = k
    BY <1>5 DEF Surjection
  <2>2. PicSubs!Cardinality(upto(i)) = k
    BY <2>1, SameCount
  <2>3. PicSubs!Place(keep, k) \in keep
        /\ PicSubs!Cardinality(upto(PicSubs!Place(keep, k))) = k
    BY <2>1, <2>2 DEF PicSubs!Place
  <2> QED
    BY <2>3, SameCount
<1>7. Rises(pos, keep, m)
  <2> HIDE DEF rank
  <2>1. \A k \in 1..m : PicSubs!Place(keep, k) \in keep
    BY <1>6
  <2>2. pos \in [1..m -> keep]
    BY <2>1, Zenon
  <2>3. \A k \in 1..m : pos[k] \in keep /\ rank[pos[k]] = k
    BY <1>6
  <2> HIDE DEF pos
  <2>4. ASSUME NEW j \in 1..m, NEW k \in 1..m, j < k PROVE pos[j] < pos[k]
    <3>1. pos[j] \in keep /\ pos[k] \in keep
      BY <2>3
    <3>2. \A x \in keep : x \in Int
      OBVIOUS
    <3>3. pos[j] \in keep /\ pos[k] \in keep /\ pos[j] \in Int /\ pos[k] \in Int
      BY <3>1, <3>2
    <3>4. CASE pos[k] < pos[j]
      BY <1>1, <1>3, <2>3, <2>4, <3>3, <3>4
    <3>5. CASE pos[k] = pos[j]
      BY <1>1, <2>3, <2>4, <3>5
    <3> QED
      BY <3>3, <3>4, <3>5
  <2>5. ASSUME NEW i \in keep PROVE \E k \in 1..m : pos[k] = i
    <3>1. rank[i] \in 1..m /\ rank[pos[rank[i]]] = rank[i] /\ pos[rank[i]] \in keep
      BY <1>2, <2>3
    <3>2. pos[rank[i]] = i
      BY <1>4, <3>1 DEF Injection, IsInjective
    <3> QED
      BY <3>1, <3>2
  <2> QED
    BY <2>2, <2>4, <2>5 DEF Rises
<1> HIDE DEF rank
<1> QED
  BY <1>1, <1>7

LEMMA FirstIs ==
  ASSUME NEW S \in SUBSET Nat, S # {}
  PROVE  PicSubs!Min(S) \in S /\ \A j \in S : PicSubs!Min(S) <= j
BY LeastOne DEF PicSubs!Min

LEMMA LastIs ==
  ASSUME NEW n \in Nat, NEW S \in SUBSET (0..n), S # {}
  PROVE  PicSubs!Max(S) \in S /\ \A j \in S : j <= PicSubs!Max(S)
<1> DEFINE T == {n - i : i \in S}
<1>1. T \in SUBSET Nat /\ T # {}
  <2>1. \A i \in S : n - i \in Nat
    OBVIOUS
  <2> QED
    BY <2>1
<1>2. PICK t \in T : \A u \in T : t <= u
  BY <1>1, LeastOne
<1>3. PICK i \in S : t = n - i
  BY <1>2
<1>4. \A j \in S : i >= j
  BY <1>2, <1>3
<1>5. \E x \in S : \A y \in S : x >= y
  BY <1>4
<1>6. PicSubs!Max(S) \in S /\ \A y \in S : PicSubs!Max(S) >= y
  BY <1>5, Zenon DEF PicSubs!Max
<1> QED
  BY <1>6

LEMMA InsertIs ==
  ASSUME NEW S, NEW list \in Seq(S), NEW x \in S, NEW at \in 0..Len(list), NEW new,
         new = PicSubs!InsertAt(list, at + 1, x)
  PROVE  /\ new \in Seq(S) /\ Len(new) = Len(list) + 1
         /\ \A k \in 1..at : new[k] = list[k]
         /\ new[at + 1] = x
         /\ \A k \in (at + 2)..(Len(list) + 1) : new[k] = list[k - 1]
<1>1. PICK n : n = Len(list)
  OBVIOUS
<1>2. n \in Nat /\ at \in 0..n /\ at \in Int /\ \A k \in 1..n : list[k] \in S
  BY <1>1
<1>3. PICK a, b : a = SubSeq(list, 1, at) /\ b = SubSeq(list, at + 1, n)
  OBVIOUS
<1>4. a \in Seq(S) /\ Len(a) = at /\ \A k \in 1..at : a[k] = list[k]
  BY <1>2, <1>3, SubSeqProperties
<1>5. /\ b \in Seq(S) /\ Len(b) = n - at
      /\ \A k \in 1..(n - at) : b[k] = list[at + k]
  <2>1. \A k \in (at + 1)..n : list[k] \in S
    BY <1>2
  <2> QED
    BY <1>2, <1>3, <2>1, SubSeqProperties
<1>6. new = a \o <<x>> \o b
  <2>1. (at + 1) - 1 = at
    BY <1>2
  <2> QED
    BY <1>1, <1>3, <2>1 DEF PicSubs!InsertAt
<1>7. PICK c : c = a \o <<x>>
  OBVIOUS
<1>8. /\ c \in Seq(S) /\ Len(c) = at + 1 /\ c[at + 1] = x
      /\ \A k \in 1..at : c[k] = list[k]
  BY <1>2, <1>4, <1>7
<1>9. /\ new \in Seq(S) /\ Len(new) = n + 1
      /\ \A k \in 1..(at + 1) : new[k] = c[k]
      /\ \A k \in (at + 2)..(n + 1) : new[k] = b[k - (at + 1)]
  <2>1. new = c \o b
    BY <1>6, <1>7
  <2>2. c \in Seq(S) /\ b \in Seq(S)
    BY <1>5, <1>8
  <2>3. /\ c \o b \in Seq(S) /\ Len(c \o b) = Len(c) + Len(b)
        /\ \A k \in 1..Len(c) + Len(b) :
             (c \o b)[k] = IF k <= Len(c) THEN c[k] ELSE b[k - Len(c)]
    BY <2>2, ConcatProperties, Zenon
  <2>4. new \in Seq(S) /\ Len(new) = Len(c) + Len(b)
    BY <2>1, <2>3
  <2>5. \A k \in 1..Len(c) + Len(b) :
          new[k] = IF k <= Len(c) THEN c[k] ELSE b[k - Len(c)]
    BY <2>1, <2>3, Zenon
  <2>6. Len(new) = n + 1 /\ Len(c) = at + 1 /\ Len(c) + Len(b) = n + 1
    BY <1>2, <1>5, <1>8, <2>4
  <2>7. \A k \in 1..(at + 1) : k \in 1..(n + 1) /\ k <= at + 1
    BY <1>2
  <2>8. \A k \in (at + 2)..(n + 1) : k \in 1..(n + 1) /\ ~(k <= at + 1)
    BY <1>2
  <2> QED
    BY <2>4, <2>5, <2>6, <2>7, <2>8
<1>10. ASSUME NEW k \in (at + 2)..(n + 1) PROVE new[k] = list[k - 1]
  <2>1. k - (at + 1) \in 1..(n - at)
    BY <1>2
  <2>2. at + (k - (at + 1)) = k - 1
    BY <1>2
  <2> QED
    BY <1>5, <1>9, <2>1, <2>2
<1> QED
  BY <1>1, <1>2, <1>8, <1>9, <1>10

----------------------------------------------------------------------------
(* In order, with one picture of a track due at a time.                       *)
OneDue(list) ==
  \A i, j \in 1..Len(list) : i < j =>
    /\ list[i].start <= list[j].start
    /\ list[i].stream = list[j].stream => list[i].end <= list[j].start

LEMMA BeforeIs ==
  ASSUME NEW list \in Seq(Pics), OneDue(list), NEW start \in Int
  PROVE  /\ PicSubs!Before(list, start) \in 0..Len(list)
         /\ \A k \in 1..Len(list) :
              list[k].start <= start <=> k <= PicSubs!Before(list, start)
<1>1. PICK n : n = Len(list)
  OBVIOUS
<1>2. PICK B : B = {i \in 1..n : list[i].start <= start}
  OBVIOUS
<1>3. n \in Nat /\ DOMAIN list = 1..n /\ \A k \in 1..n : list[k].start \in Int
  <2>1. n \in Nat /\ DOMAIN list = 1..n /\ \A k \in 1..n : list[k] \in Pics
    BY <1>1
  <2> QED
    BY <2>1 DEF Pics
<1>4. PICK c : c = PicSubs!Before(list, start)
  OBVIOUS
<1>5. c = Cardinality(B)
  BY <1>2, <1>3, <1>4, SameCount DEF PicSubs!Before
<1>6. CASE B = {}
  <2>1. Cardinality(B) = 0
    BY <1>6, FS_EmptySet
  <2> QED
    <3>1. c = 0
      BY <1>5, <2>1
    <3>2. \A k \in 1..n : ~(list[k].start <= start)
      BY <1>2, <1>6
    <3>3. \A k \in 1..n : ~(k <= 0)
      BY <1>3
    <3> QED
      BY <1>1, <1>3, <1>4, <3>1, <3>2, <3>3
<1>7. CASE B # {}
  <2>1. B \in SUBSET (0..n)
    BY <1>2, <1>3
  <2>2. PICK at : at = PicSubs!Max(B)
    OBVIOUS
  <2>3. at \in B /\ at \in 1..n /\ \A j \in B : j <= at
    BY <1>2, <1>3, <1>7, <2>1, <2>2, LastIs
  <2>4. ASSUME NEW k \in 1..n PROVE k \in B <=> k <= at
    <3>1. CASE k < at
      <4>1. list[k].start <= list[at].start /\ list[at].start <= start
        BY <1>1, <1>2, <2>3, <3>1 DEF OneDue
      <4> QED
        BY <1>2, <1>3, <2>3, <3>1, <4>1
    <3>2. CASE k = at
      BY <1>3, <2>3, <3>2
    <3>3. CASE k > at
      BY <1>3, <2>3, <3>3
    <3> QED
      BY <1>3, <2>3, <3>1, <3>2, <3>3
  <2>5. B = 1..at
    BY <1>2, <1>3, <2>3, <2>4
  <2>6. Cardinality(B) = at
    BY <2>3, <2>5, FS_Interval
  <2> QED
    <3>1. c = at /\ \A k \in 1..n : list[k].start <= start <=> k <= at
      BY <1>2, <1>5, <2>4, <2>6
    <3> QED
      BY <1>1, <1>3, <1>4, <2>3, <3>1
<1> QED
  BY <1>6, <1>7

LEMMA KeptIs ==
  ASSUME NEW list \in Seq(Pics), NEW keep \in SUBSET (1..Len(list)), NEW new,
         new = PicSubs!Kept(list, keep)
  PROVE  /\ new \in Seq(Pics) /\ Len(new) \in 0..Len(list)
         /\ \E pos : /\ Rises(pos, keep, Len(new))
                     /\ \A k \in 1..Len(new) : new[k] = list[pos[k]]
<1>1. PICK m : m = Cardinality(keep)
  OBVIOUS
<1>2. m \in 0..Len(list)
  BY <1>1, Ranks
<1>3. PICK pos : Rises(pos, keep, m) /\ \A k \in 1..m : pos[k] = PicSubs!Place(keep, k)
  BY <1>1, Ranks
<1>4. new = [k \in 1..m |-> list[PicSubs!Place(keep, k)]]
  BY <1>1, SameCount DEF PicSubs!Kept
<1>5. \A k \in 1..m : new[k] = list[pos[k]] /\ new[k] \in Pics
  <2>1. \A k \in 1..m : pos[k] \in 1..Len(list)
    BY <1>3 DEF Rises
  <2> QED
    BY <1>3, <1>4, <2>1
<1>6. new \in [1..m -> Pics]
  BY <1>4, <1>5
<1>7. new \in Seq(Pics) /\ Len(new) = m
  BY <1>2, <1>6
<1> QED
  BY <1>2, <1>3, <1>5, <1>7

(* Buffers of one place of the list each.                                     *)
Apart(list) ==
  \A i, j \in 1..Len(list) : i # j /\ list[i].rgba # 0 => list[i].rgba # list[j].rgba

LEMMA BuffersAre ==
  ASSUME NEW list \in Seq(Pics), NEW b
  PROVE  b \in PicSubs!Buffers(list) <=> b # 0 /\ \E i \in 1..Len(list) : list[i].rgba = b
<1>1. DOMAIN list = 1..Len(list)
  OBVIOUS
<1> QED
  BY <1>1 DEF PicSubs!Buffers, PicSubs!None

LEMMA KeptKeeps ==
  ASSUME NEW list \in Seq(Pics), OneDue(list), Apart(list),
         NEW keep \in SUBSET (1..Len(list)), NEW new, new = PicSubs!Kept(list, keep)
  PROVE  /\ new \in Seq(Pics) /\ Len(new) \in 0..Len(list)
         /\ OneDue(new) /\ Apart(new)
         /\ \A b : b \in PicSubs!Buffers(new)
                     <=> b # 0 /\ \E i \in keep : list[i].rgba = b
<1>1. /\ new \in Seq(Pics) /\ Len(new) \in 0..Len(list) /\ Len(list) \in Nat
      /\ Len(new) \in Nat
  <2>1. new \in Seq(Pics) /\ Len(new) \in 0..Len(list)
    BY KeptIs
  <2>2. Len(list) \in Nat
    OBVIOUS
  <2> QED
    BY <2>1, <2>2
<1>2. PICK pos : Rises(pos, keep, Len(new)) /\ \A k \in 1..Len(new) : new[k] = list[pos[k]]
  BY KeptIs
<1>3. \A k \in 1..Len(new) : pos[k] \in keep /\ pos[k] \in 1..Len(list)
  BY <1>2 DEF Rises
<1>4. OneDue(new)
  <2> SUFFICES ASSUME NEW i \in 1..Len(new), NEW j \in 1..Len(new), i < j
               PROVE  /\ new[i].start <= new[j].start
                      /\ new[i].stream = new[j].stream => new[i].end <= new[j].start
    BY Zenon DEF OneDue
  <2>1. pos[i] < pos[j]
    BY <1>2 DEF Rises
  <2>2. pos[i] \in 1..Len(list) /\ pos[j] \in 1..Len(list)
    BY <1>3
  <2>3. new[i] = list[pos[i]] /\ new[j] = list[pos[j]]
    BY <1>2
  <2>4. /\ list[pos[i]].start <= list[pos[j]].start
        /\ list[pos[i]].stream = list[pos[j]].stream
             => list[pos[i]].end <= list[pos[j]].start
    BY <2>1, <2>2, Zenon DEF OneDue
  <2> QED
    BY <2>3, <2>4
<1>5. Apart(new)
  <2> SUFFICES ASSUME NEW i \in 1..Len(new), NEW j \in 1..Len(new), i # j, new[i].rgba # 0
               PROVE  new[i].rgba # new[j].rgba
    BY DEF Apart
  <2>1. pos[i] # pos[j]
    <3>1. pos[i] \in Int /\ pos[j] \in Int /\ (i < j \/ j < i)
      BY <1>3
    <3>2. CASE i < j
      <4>1. pos[i] < pos[j]
        BY <1>2, <3>2 DEF Rises
      <4> QED
        BY <3>1, <4>1
    <3>3. CASE j < i
      <4>1. pos[j] < pos[i]
        BY <1>2, <3>3 DEF Rises
      <4> QED
        BY <3>1, <4>1
    <3> QED
      BY <3>1, <3>2, <3>3
  <2> QED
    BY <1>2, <1>3, <2>1 DEF Apart
<1>6. ASSUME NEW b
      PROVE  b \in PicSubs!Buffers(new) <=> b # 0 /\ \E i \in keep : list[i].rgba = b
  <2>1. b \in PicSubs!Buffers(new) <=> b # 0 /\ \E k \in 1..Len(new) : new[k].rgba = b
    BY <1>1, BuffersAre
  <2>2. (\E k \in 1..Len(new) : new[k].rgba = b) <=> \E i \in keep : list[i].rgba = b
    BY <1>2, <1>3 DEF Rises
  <2> QED
    BY <2>1, <2>2
<1> QED
  BY <1>1, <1>4, <1>5, <1>6

LEMMA EndsSooner ==
  ASSUME NEW p \in Pics, NEW t \in Int, NEW q, q = [p EXCEPT !.end = PicSubs!Sooner(@, t)]
  PROVE  /\ q \in Pics /\ q.start = p.start /\ q.stream = p.stream /\ q.rgba = p.rgba
         /\ q.end <= p.end /\ q.end <= t
<1>1. PICK e : e = PicSubs!Sooner(p.end, t)
  OBVIOUS
<1>2. e \in Int /\ e <= p.end /\ e <= t
  BY <1>1 DEF Pics, PicSubs!Sooner
<1>3. q = [start |-> p.start, end |-> e, stream |-> p.stream, rgba |-> p.rgba]
  BY <1>1 DEF Pics
<1> QED
  BY <1>2, <1>3 DEF Pics

(* What insertion makes of the list and of the new picture.                   *)
CutOf(list, p, cut, q, at) ==
  /\ PicSubs!Inserted(list, p) = PicSubs!InsertAt(cut, at + 1, q)
  /\ at \in 0..Len(list)
  /\ \A k \in 1..Len(list) : list[k].start <= p.start <=> k <= at
  /\ cut \in Seq(Pics) /\ Len(cut) = Len(list)
  /\ \A k \in 1..Len(list) :
       /\ cut[k].start = list[k].start /\ cut[k].stream = list[k].stream
       /\ cut[k].rgba = list[k].rgba /\ cut[k].end <= list[k].end
       /\ k <= at /\ list[k].stream = p.stream => cut[k].end <= p.start
  /\ q \in Pics /\ q.start = p.start /\ q.stream = p.stream /\ q.rgba = p.rgba
  /\ \A k \in (at + 1)..Len(list) :
       list[k].stream = p.stream => q.end <= list[k].start

LEMMA CutIs ==
  ASSUME NEW list \in Seq(Pics), OneDue(list), NEW p \in Pics
  PROVE  \E cut, q, at : CutOf(list, p, cut, q, at)
<1> DEFINE at == PicSubs!Before(list, p.start)
           ofTrack == {i \in DOMAIN list : list[i].stream = p.stream}
           before == {i \in ofTrack : i <= at}
           after == ofTrack \ before
           last == PicSubs!Max(before)
           first == PicSubs!Min(after)
           cut == [i \in DOMAIN list |->
                    IF before # {} /\ i = last
                    THEN [list[i] EXCEPT !.end = PicSubs!Sooner(@, p.start)] ELSE list[i]]
           q == IF after = {} THEN p
                ELSE [p EXCEPT !.end = PicSubs!Sooner(@, list[first].start)]
<1>1. PICK n : n = Len(list)
  OBVIOUS
<1>2. /\ n \in Nat /\ DOMAIN list = 1..n /\ \A k \in 1..n : list[k] \in Pics
      /\ p.start \in Int
  <2>1. p.start \in Int
    BY DEF Pics
  <2> QED
    BY <1>1, <2>1
<1>3. \A r \in Pics : r.start \in Int /\ r.end \in Int
  BY DEF Pics
<1>4. PicSubs!Inserted(list, p) = PicSubs!InsertAt(cut, at + 1, q)
  BY DEF PicSubs!Inserted
<1>5. at \in 0..n /\ \A k \in 1..n : list[k].start <= p.start <=> k <= at
  BY <1>1, <1>2, BeforeIs
<1> HIDE DEF at
<1>6. ofTrack \in SUBSET (1..n) /\ before \in SUBSET (0..n) /\ after \in SUBSET Nat
  BY <1>2
<1>7. ASSUME before # {}
      PROVE  last \in before /\ \A k \in before : k <= last
  BY <1>2, <1>6, <1>7, LastIs
<1>8. ASSUME after # {}
      PROVE  first \in after /\ \A k \in after : first <= k
  BY <1>6, <1>8, FirstIs
<1>9. ASSUME NEW k \in 1..n
      PROVE  /\ cut[k] \in Pics
             /\ cut[k].start = list[k].start /\ cut[k].stream = list[k].stream
             /\ cut[k].rgba = list[k].rgba /\ cut[k].end <= list[k].end
             /\ k <= at /\ list[k].stream = p.stream => cut[k].end <= p.start
  <2>1. CASE before # {} /\ k = last
    <3>1. cut[k] = [list[k] EXCEPT !.end = PicSubs!Sooner(@, p.start)]
      BY <1>2, <2>1
    <3>2. PICK c, r, t : c = cut[k] /\ r = list[k] /\ t = p.start
      OBVIOUS
    <3>3. r \in Pics /\ t \in Int
      BY <1>2, <3>2
    <3>4. c = [r EXCEPT !.end = PicSubs!Sooner(@, t)]
      BY <3>1, <3>2
    <3>5. /\ c \in Pics /\ c.start = r.start /\ c.stream = r.stream
          /\ c.rgba = r.rgba /\ c.end <= r.end /\ c.end <= t
      BY <3>3, <3>4, EndsSooner
    <3> HIDE DEF cut, before, last
    <3> QED
      BY <3>2, <3>5
  <2>2. CASE ~(before # {} /\ k = last)
    <3>1. cut[k] = list[k]
      BY <1>2, <2>2
    <3>2. ASSUME k <= at, list[k].stream = p.stream PROVE list[k].end <= p.start
      <4>1. k \in before
        BY <1>2, <3>2
      <4>2. last \in 1..n /\ list[last].stream = p.stream /\ last <= at /\ k <= last
        BY <1>2, <1>7, <4>1
      <4> HIDE DEF last, before
      <4>3. k < last
        BY <1>2, <2>2, <4>1, <4>2
      <4>4. list[k].end <= list[last].start /\ list[last].start <= p.start
        BY <1>1, <1>5, <3>2, <4>2, <4>3 DEF OneDue
      <4> QED
        BY <1>2, <1>3, <4>2, <4>4
    <3> HIDE DEF cut, before, last
    <3> QED
      BY <1>2, <1>3, <3>1, <3>2
  <2> QED
    BY <2>1, <2>2
<1>10. cut \in Seq(Pics) /\ Len(cut) = n
  <2>1. cut \in [1..n -> Pics]
    <3>1. cut = [k \in 1..n |-> cut[k]]
      BY <1>2
    <3> HIDE DEF cut
    <3> QED
      BY <1>9, <3>1
  <2> HIDE DEF cut
  <2> QED
    BY <1>2, <2>1
<1>11. /\ q \in Pics /\ q.start = p.start /\ q.stream = p.stream /\ q.rgba = p.rgba
       /\ \A k \in (at + 1)..n : list[k].stream = p.stream => q.end <= list[k].start
  <2>1. CASE after = {}
    <3>1. q = p
      BY <2>1
    <3>2. \A k \in (at + 1)..n : list[k].stream # p.stream
      <4> SUFFICES ASSUME NEW k \in (at + 1)..n, list[k].stream = p.stream PROVE FALSE
        OBVIOUS
      <4>1. k \in 1..n /\ ~(k <= at)
        BY <1>2, <1>5
      <4> QED
        BY <1>2, <2>1, <4>1
    <3> HIDE DEF q
    <3> QED
      BY <3>1, <3>2
  <2>2. CASE after # {}
    <3>1. first \in 1..n /\ first \in after /\ \A k \in after : first <= k
      BY <1>2, <1>8, <2>2
    <3>2. q = [p EXCEPT !.end = PicSubs!Sooner(@, list[first].start)]
      BY <2>2
    <3>3. ~(first <= at)
      BY <3>1
    <3>4. ASSUME NEW k \in (at + 1)..n, list[k].stream = p.stream
          PROVE  list[first].start <= list[k].start
      <4>1. k \in 1..n /\ ~(k <= at)
        BY <1>2, <1>5
      <4>2. k \in after
        BY <1>2, <3>4, <4>1
      <4>3. first <= k
        BY <3>1, <4>2
      <4> HIDE DEF first, after
      <4>4. CASE first = k
        BY <1>2, <1>3, <3>1, <4>4
      <4>5. CASE first < k
        BY <1>1, <3>1, <4>1, <4>5 DEF OneDue
      <4> QED
        BY <1>2, <3>1, <4>1, <4>3, <4>4, <4>5
    <3> HIDE DEF q, first, after
    <3>5. list[first].start \in Int
      BY <1>2, <1>3, <3>1
    <3>6. /\ q \in Pics /\ q.start = p.start /\ q.stream = p.stream /\ q.rgba = p.rgba
          /\ q.end <= list[first].start
      BY <3>2, <3>5, EndsSooner
    <3>7. ASSUME NEW k \in (at + 1)..n, list[k].stream = p.stream
          PROVE  q.end <= list[k].start
      <4>1. list[k].start \in Int /\ q.end \in Int
        BY <1>2, <1>3, <1>5, <3>6
      <4> QED
        BY <3>4, <3>5, <3>6, <3>7, <4>1
    <3> QED
      BY <3>6, <3>7
  <2> QED
    BY <2>1, <2>2
<1> HIDE DEF cut, q
<1>12. PICK c, r, a : c = cut /\ r = q /\ a = at
  OBVIOUS
<1>13. /\ PicSubs!Inserted(list, p) = PicSubs!InsertAt(c, a + 1, r)
       /\ a \in 0..Len(list)
       /\ \A k \in 1..Len(list) : list[k].start <= p.start <=> k <= a
       /\ c \in Seq(Pics) /\ Len(c) = Len(list)
  BY <1>1, <1>4, <1>5, <1>10, <1>12
<1>14. \A k \in 1..Len(list) :
         /\ c[k].start = list[k].start /\ c[k].stream = list[k].stream
         /\ c[k].rgba = list[k].rgba /\ c[k].end <= list[k].end
         /\ k <= a /\ list[k].stream = p.stream => c[k].end <= p.start
  BY <1>1, <1>9, <1>12
<1>15. /\ r \in Pics /\ r.start = p.start /\ r.stream = p.stream /\ r.rgba = p.rgba
       /\ \A k \in (a + 1)..Len(list) : list[k].stream = p.stream => r.end <= list[k].start
  BY <1>1, <1>11, <1>12
<1> QED
  BY <1>13, <1>14, <1>15 DEF CutOf

LEMMA InsertedKeeps ==
  ASSUME NEW list \in Seq(Pics), OneDue(list), Apart(list), NEW p \in Pics,
         p.rgba \notin PicSubs!Buffers(list),
         NEW new, new = PicSubs!Inserted(list, p)
  PROVE  /\ new \in Seq(Pics) /\ Len(new) = Len(list) + 1
         /\ OneDue(new) /\ Apart(new)
         /\ \A b : b \in PicSubs!Buffers(new)
                     <=> b \in PicSubs!Buffers(list) \/ (b # 0 /\ b = p.rgba)
<1>1. PICK cut, q, at : CutOf(list, p, cut, q, at)
  BY CutIs
<1>2. /\ PicSubs!Inserted(list, p) = PicSubs!InsertAt(cut, at + 1, q)
      /\ at \in 0..Len(list)
      /\ \A k \in 1..Len(list) : list[k].start <= p.start <=> k <= at
      /\ cut \in Seq(Pics) /\ Len(cut) = Len(list)
      /\ \A k \in 1..Len(list) :
           /\ cut[k].start = list[k].start /\ cut[k].stream = list[k].stream
           /\ cut[k].rgba = list[k].rgba /\ cut[k].end <= list[k].end
           /\ k <= at /\ list[k].stream = p.stream => cut[k].end <= p.start
      /\ q \in Pics /\ q.start = p.start /\ q.stream = p.stream /\ q.rgba = p.rgba
      /\ \A k \in (at + 1)..Len(list) :
           list[k].stream = p.stream => q.end <= list[k].start
  BY <1>1 DEF CutOf
<1>3. PICK n : n = Len(list)
  OBVIOUS
<1>4. n \in Nat /\ at \in 0..n /\ Len(cut) = n
  BY <1>2, <1>3
<1>5. /\ new \in Seq(Pics) /\ Len(new) = n + 1
      /\ \A k \in 1..at : new[k] = cut[k]
      /\ new[at + 1] = q
      /\ \A k \in (at + 2)..(n + 1) : new[k] = cut[k - 1]
  <2>1. /\ cut \in Seq(Pics) /\ q \in Pics /\ at \in 0..Len(cut)
        /\ new = PicSubs!InsertAt(cut, at + 1, q)
    BY <1>2
  <2>2. /\ new \in Seq(Pics) /\ Len(new) = Len(cut) + 1
        /\ \A k \in 1..at : new[k] = cut[k]
        /\ new[at + 1] = q
        /\ \A k \in (at + 2)..(Len(cut) + 1) : new[k] = cut[k - 1]
    <3>1. new \in Seq(Pics)
      BY <2>1, InsertIs
    <3>2. Len(new) = Len(cut) + 1
      BY <2>1, InsertIs
    <3>3. \A k \in 1..at : new[k] = cut[k]
      BY <2>1, InsertIs
    <3>4. new[at + 1] = q
      BY <2>1, InsertIs
    <3>5. \A k \in (at + 2)..(Len(cut) + 1) : new[k] = cut[k - 1]
      BY <2>1, InsertIs
    <3> QED
      BY <3>1, <3>2, <3>3, <3>4, <3>5
  <2> QED
    BY <1>4, <2>2
\* where the picture at a position of the new list was in the old one
<1>6. ASSUME NEW k \in 1..(n + 1), k # at + 1
      PROVE  \E o \in 1..n :
               /\ (k <= at /\ o = k) \/ (k > at + 1 /\ o = k - 1)
               /\ new[k] = cut[o]
  <2>1. CASE k <= at
    <3>1. k \in 1..at /\ k \in 1..n
      BY <1>4, <2>1
    <3> QED
      BY <1>5, <2>1, <3>1
  <2>2. CASE k > at + 1
    <3>1. k \in (at + 2)..(n + 1) /\ k - 1 \in 1..n
      BY <1>4, <2>2
    <3>2. new[k] = cut[k - 1]
      BY <1>5, <3>1
    <3> QED
      BY <2>2, <3>1, <3>2
  <2> QED
    BY <1>4, <1>6, <2>1, <2>2
<1>7. /\ \A k \in 1..n : /\ list[k].start \in Int /\ list[k].end \in Int
                          /\ cut[k].start \in Int /\ cut[k].end \in Int
      /\ p.start \in Int /\ q.end \in Int
  <2>1. \A r \in Pics : r.start \in Int /\ r.end \in Int
    BY DEF Pics
  <2>2. \A k \in 1..n : list[k] \in Pics /\ cut[k] \in Pics
    BY <1>2, <1>3, <1>4
  <2> QED
    BY <1>2, <2>1, <2>2
<1>8. ASSUME NEW i \in 1..(n + 1), NEW j \in 1..(n + 1), i < j
      PROVE  /\ new[i].start <= new[j].start
             /\ new[i].stream = new[j].stream => new[i].end <= new[j].start
  <2>1. CASE i = at + 1
    <3>1. PICK o \in 1..n : o = j - 1 /\ new[j] = cut[o]
      BY <1>4, <1>6, <1>8, <2>1
    <3>2. o \in (at + 1)..n /\ ~(o <= at)
      BY <1>4, <1>8, <2>1, <3>1
    <3>3. p.start <= list[o].start /\ (list[o].stream = p.stream => q.end <= list[o].start)
      BY <1>2, <1>3, <1>7, <3>2
    <3>4. new[i] = q /\ q.start = p.start /\ q.stream = p.stream
      BY <1>2, <1>5, <2>1
    <3>5. cut[o].start = list[o].start /\ cut[o].stream = list[o].stream
      BY <1>2, <1>3
    <3> QED
      BY <3>1, <3>3, <3>4, <3>5
  <2>2. CASE j = at + 1
    <3>1. PICK o \in 1..n : o = i /\ o <= at /\ new[i] = cut[o]
      BY <1>4, <1>6, <1>8, <2>2
    <3>2. /\ cut[o].start = list[o].start /\ cut[o].stream = list[o].stream
          /\ list[o].start <= p.start
          /\ list[o].stream = p.stream => cut[o].end <= p.start
      BY <1>2, <1>3, <3>1
    <3>3. new[j] = q /\ q.start = p.start /\ q.stream = p.stream
      BY <1>2, <1>5, <2>2
    <3> QED
      BY <3>1, <3>2, <3>3
  <2>3. CASE i # at + 1 /\ j # at + 1
    <3>1. PICK a \in 1..n : /\ (i <= at /\ a = i) \/ (i > at + 1 /\ a = i - 1)
                           /\ new[i] = cut[a]
      BY <1>6, <2>3
    <3>2. PICK b \in 1..n : /\ (j <= at /\ b = j) \/ (j > at + 1 /\ b = j - 1)
                           /\ new[j] = cut[b]
      BY <1>6, <2>3
    <3>3. a < b
      BY <1>4, <1>8, <3>1, <3>2
    <3>4. /\ list[a].start <= list[b].start
          /\ list[a].stream = list[b].stream => list[a].end <= list[b].start
      BY <1>3, <3>3 DEF OneDue
    <3>5. /\ cut[a].start = list[a].start /\ cut[b].start = list[b].start
          /\ cut[a].stream = list[a].stream /\ cut[b].stream = list[b].stream
          /\ cut[a].end <= list[a].end
      BY <1>2, <1>3
    <3>6. /\ list[a].start \in Int /\ list[a].end \in Int /\ cut[a].end \in Int
          /\ list[b].start \in Int
      BY <1>7
    <3> QED
      BY <3>1, <3>2, <3>4, <3>5, <3>6
  <2> QED
    BY <2>1, <2>2, <2>3
<1>9. OneDue(new)
  <2>1. Len(new) = n + 1
    BY <1>5
  <2> QED
    BY <1>8, <2>1, Zenon DEF OneDue
<1>10. \A o \in 1..n : cut[o].rgba = list[o].rgba
  BY <1>2, <1>3
<1>11. \A o \in 1..n : list[o].rgba # 0 => list[o].rgba # p.rgba
  <2>1. \A o \in 1..n : list[o].rgba # 0 => list[o].rgba \in PicSubs!Buffers(list)
    BY <1>3, BuffersAre
  <2> QED
    BY <2>1
<1>12. Apart(new)
  <2> SUFFICES ASSUME NEW i \in 1..(n + 1), NEW j \in 1..(n + 1), i # j, new[i].rgba # 0
               PROVE  new[i].rgba # new[j].rgba
    BY <1>5, Zenon DEF Apart
  <2>1. CASE i = at + 1
    <3>1. PICK o \in 1..n : new[j] = cut[o]
      BY <1>6, <2>1
    <3>2. new[i].rgba = p.rgba
      BY <1>2, <1>5, <2>1
    <3> QED
      BY <1>10, <1>11, <3>1, <3>2
  <2>2. CASE j = at + 1
    <3>1. PICK o \in 1..n : new[i] = cut[o]
      BY <1>6, <2>2
    <3>2. new[j].rgba = p.rgba
      BY <1>2, <1>5, <2>2
    <3> QED
      BY <1>10, <1>11, <3>1, <3>2
  <2>3. CASE i # at + 1 /\ j # at + 1
    <3>1. PICK a \in 1..n : /\ (i <= at /\ a = i) \/ (i > at + 1 /\ a = i - 1)
                           /\ new[i] = cut[a]
      BY <1>6, <2>3
    <3>2. PICK b \in 1..n : /\ (j <= at /\ b = j) \/ (j > at + 1 /\ b = j - 1)
                           /\ new[j] = cut[b]
      BY <1>6, <2>3
    <3>3. a # b
      BY <1>4, <3>1, <3>2
    <3>4. list[a].rgba # 0 => list[a].rgba # list[b].rgba
      BY <1>3, <3>3, Zenon DEF Apart
    <3> QED
      BY <1>10, <3>1, <3>2, <3>4
  <2> QED
    BY <2>1, <2>2, <2>3
<1>13. ASSUME NEW b
       PROVE  b \in PicSubs!Buffers(new)
                <=> b \in PicSubs!Buffers(list) \/ (b # 0 /\ b = p.rgba)
  <2>1. b \in PicSubs!Buffers(new) <=> b # 0 /\ \E k \in 1..(n + 1) : new[k].rgba = b
    BY <1>5, BuffersAre
  <2>2. b \in PicSubs!Buffers(list) <=> b # 0 /\ \E o \in 1..n : list[o].rgba = b
    BY <1>3, BuffersAre
  <2>3. at + 1 \in 1..(n + 1) /\ new[at + 1].rgba = p.rgba
    BY <1>2, <1>4, <1>5
  <2>4. \A k \in 1..(n + 1) : k # at + 1 => \E o \in 1..n : new[k].rgba = list[o].rgba
    BY <1>6, <1>10
  <2>5. ASSUME NEW o \in 1..n PROVE \E k \in 1..(n + 1) : new[k].rgba = list[o].rgba
    <3>1. CASE o <= at
      BY <1>4, <1>5, <1>10, <3>1
    <3>2. CASE o > at
      <4>1. /\ o + 1 \in (at + 2)..(n + 1) /\ o + 1 \in 1..(n + 1)
            /\ (o + 1) - 1 = o
        BY <1>4, <3>2
      <4> QED
        BY <1>5, <1>10, <4>1
    <3> QED
      BY <1>4, <3>1, <3>2
  <2> QED
    BY <2>1, <2>2, <2>3, <2>4, <2>5
<1> QED
  BY <1>3, <1>5, <1>9, <1>12, <1>13

(* What the session and the UI rely on: the list is in order and whole, and a *)
(* buffer is allocated exactly while the list or the screen has it.           *)
PicInv ==
  /\ images \in Seq(Pics) /\ Len(images) <= MaxPictures
  /\ OneDue(images) /\ Apart(images)
  /\ shown \in Nat
  /\ \A b : b \in heap <=> b # 0 /\ (b \in PicSubs!Buffers(images) \/ b = shown)

\* One buffer is free, for the list and the screen have too few to name all.
LEMMA OneIsFree ==
  ASSUME PicInv
  PROVE  \E b \in (1..(MaxPictures + 2)) : b \notin heap
<1>1. PICK n : n = Len(images)
  OBVIOUS
<1>2. n \in Nat /\ MaxPictures \in Nat /\ n <= MaxPictures /\ images \in Seq(Pics)
  BY <1>1, PicturesAssumption DEF PicInv, PicturesAssumption
<1>3. PICK has : has = [i \in 1..n |-> images[i].rgba]
  OBVIOUS
<1>4. PICK used : used = {has[i] : i \in 1..n}
  OBVIOUS
<1>5. has \in Surjection(1..n, used)
  BY <1>3, <1>4 DEF Surjection
<1>6. IsFiniteSet(1..n) /\ Cardinality(1..n) = n
  BY <1>2, FS_Interval
<1>7. IsFiniteSet(used) /\ Cardinality(used) <= n
  BY <1>5, <1>6, FS_Surjection
<1>8. Cardinality(used) \in Nat
  BY <1>7, FS_CardinalityType
<1>9. /\ IsFiniteSet(used \cup {shown})
      /\ Cardinality(used \cup {shown}) \in Nat
      /\ Cardinality(used \cup {shown}) <= n + 1
  <2>1. /\ IsFiniteSet(used \cup {shown})
        /\ \/ Cardinality(used \cup {shown}) = Cardinality(used)
           \/ Cardinality(used \cup {shown}) = Cardinality(used) + 1
    BY <1>7, FS_AddElement
  <2> QED
    BY <1>2, <1>7, <1>8, <2>1
<1>10. heap \subseteq used \cup {shown}
  <2>1. \A b \in PicSubs!Buffers(images) : \E i \in 1..n : has[i] = b
    BY <1>1, <1>2, <1>3, BuffersAre
  <2> QED
    BY <1>4, <2>1 DEF PicInv
<1>11. CASE (1..(MaxPictures + 2)) \subseteq heap
  <2>1. Cardinality(1..(MaxPictures + 2)) = MaxPictures + 2
    BY <1>2, FS_Interval
  <2>2. Cardinality(1..(MaxPictures + 2)) <= Cardinality(used \cup {shown})
    BY <1>9, <1>10, <1>11, FS_Subset
  <2> QED
    BY <1>2, <1>9, <2>1, <2>2
<1> QED
  BY <1>11

LEMMA BufferIs ==
  ASSUME PicInv, NEW b, b = PicSubs!Min((1..(MaxPictures + 2)) \ heap)
  PROVE  b \in Nat /\ b # 0 /\ b \notin heap
<1>1. PICK free : free = (1..(MaxPictures + 2)) \ heap
  OBVIOUS
<1>2. MaxPictures \in Nat
  BY PicturesAssumption DEF PicturesAssumption
<1>3. free \in SUBSET Nat /\ free # {} /\ 0 \notin free
  BY <1>1, <1>2, OneIsFree
<1>4. b \in free
  BY <1>1, <1>3, FirstIs
<1> QED
  BY <1>1, <1>3, <1>4

LEMMA PicInit == PicSubs!Init => PicInv
<1> SUFFICES ASSUME PicSubs!Init PROVE PicInv
  OBVIOUS
<1>1. images = <<>> /\ shown = 0 /\ heap = {}
  BY DEF PicSubs!Init, PicSubs!None
<1>2. images \in Seq(Pics) /\ Len(images) = 0 /\ 1..Len(images) = {}
  BY <1>1
<1>3. \A b : b \notin PicSubs!Buffers(images)
  BY <1>2, BuffersAre
<1> QED
  BY <1>1, <1>2, <1>3, PicturesAssumption
     DEF PicInv, OneDue, Apart, PicturesAssumption

LEMMA CloseKeeps == PicInv /\ PicSubs!Close => PicInv'
<1> SUFFICES ASSUME PicInv, PicSubs!Close PROVE PicInv'
  OBVIOUS
<1>1. images' = <<>> /\ shown' = 0
  BY DEF PicSubs!Close, PicSubs!None
<1>2. heap' = PicSubs!Freed(PicSubs!Buffers(images) \ {shown}, {shown})
  BY DEF PicSubs!Close
<1>3. \A b : b \notin heap'
  <2>1. \A b : b \in heap => b \in PicSubs!Buffers(images) \/ b = shown
    BY DEF PicInv
  <2> QED
    BY <1>2, <2>1 DEF PicSubs!Freed
<1>4. images' \in Seq(Pics) /\ Len(images') = 0 /\ 1..Len(images') = {}
  BY <1>1
<1>5. \A b : b \notin PicSubs!Buffers(images')
  BY <1>4, BuffersAre
<1>6. PicSubs!Buffers(images') = PicSubs!Buffers(images)'
  BY DEF PicSubs!Buffers
<1>7. OneDue(images') /\ Apart(images') /\ Len(images') <= MaxPictures
  BY <1>4, PicturesAssumption DEF OneDue, Apart, PicturesAssumption
<1>8. \A b : b \in heap' <=> b # 0 /\ (b \in PicSubs!Buffers(images') \/ b = shown')
  BY <1>1, <1>3, <1>5
<1>9. shown' \in Nat
  BY <1>1
<1> QED
  BY <1>4, <1>7, <1>8, <1>9 DEF PicInv

LEMMA FeedKeeps ==
  ASSUME PicInv, NEW start \in 0..LastStart, PicSubs!FeedAt(start)
  PROVE  PicInv'
<1> DEFINE keep == {i \in DOMAIN images : ~PicSubs!TooOld(images[i], start)}
           kept == PicSubs!Kept(images, keep)
           gone == PicSubs!Buffers(images) \ PicSubs!Buffers(kept)
           room == Len(kept) < MaxPictures
           buffer(empty) ==
             IF empty THEN PicSubs!None ELSE PicSubs!Min((1..(MaxPictures + 2)) \ heap)
           ends(length) == IF length < 0 THEN Forever ELSE start + length
           again(stream) == \E i \in DOMAIN kept : kept[i].start = start /\ kept[i].stream = stream
           fed(stream, length, empty) ==
             [start |-> start, end |-> ends(length), stream |-> stream, rgba |-> buffer(empty)]
<1>1. PICK stream \in BitmapTracks, length \in Lengths, empty \in BOOLEAN :
        /\ images' = IF again(stream) \/ ~room THEN kept
                     ELSE PicSubs!Inserted(kept, fed(stream, length, empty))
        /\ heap' = PicSubs!Freed(gone, {})
                     \cup (IF again(stream) \/ ~room THEN {} ELSE {buffer(empty)} \ {PicSubs!None})
        /\ shown' = shown
  BY DEF PicSubs!FeedAt
<1>2. PICK k, b, e, r : /\ k = kept /\ b = buffer(empty) /\ e = ends(length)
                        /\ r = (again(stream) \/ ~room)
  OBVIOUS
<1>3. PICK p : p = [start |-> start, end |-> e, stream |-> stream, rgba |-> b]
  OBVIOUS
<1>4. /\ images' = IF r THEN k ELSE PicSubs!Inserted(k, p)
      /\ heap' = PicSubs!Freed(PicSubs!Buffers(images) \ PicSubs!Buffers(k), {})
                   \cup (IF r THEN {} ELSE {b} \ {0})
      /\ shown' = shown
  BY <1>1, <1>2, <1>3 DEF PicSubs!None
<1>5. keep \in SUBSET (1..Len(images)) /\ images \in Seq(Pics)
      /\ \A i \in 1..Len(images) : i \notin keep => images[i].rgba # shown
  <2>1. images \in Seq(Pics) /\ DOMAIN images = 1..Len(images)
    BY DEF PicInv
  <2> QED
    BY <2>1 DEF PicSubs!TooOld
<1>6. start \in Int /\ e \in Int /\ b \in Nat /\ (b # 0 => b \notin heap)
  <2>1. start \in Int
    BY PicturesAssumption DEF PicturesAssumption
  <2>2. e \in Int
    BY <1>2, <2>1, PicturesAssumption DEF PicturesAssumption
  <2>3. b \in Nat /\ (b # 0 => b \notin heap)
    BY <1>2, BufferIs DEF PicSubs!None
  <2> QED
    BY <2>1, <2>2, <2>3
<1>7. r \in BOOLEAN /\ (~r => Len(k) < MaxPictures)
  BY <1>2
<1>8. k = PicSubs!Kept(images, keep)
  BY <1>2
<1> HIDE DEF keep, kept, gone, room, buffer, ends, again, fed
<1>9. /\ k \in Seq(Pics) /\ Len(k) \in 0..Len(images) /\ OneDue(k) /\ Apart(k)
      /\ \A x : x \in PicSubs!Buffers(k) <=> x # 0 /\ \E i \in keep : images[i].rgba = x
  <2>1. images \in Seq(Pics) /\ OneDue(images) /\ Apart(images)
    BY DEF PicInv
  <2> QED
    BY <1>5, <1>8, <2>1, KeptKeeps
\* what is in the new list or drawn is what was allocated but for the rest
<1>10. /\ \A x : x \in PicSubs!Buffers(k) => x \in heap
       /\ \A x : x \in PicSubs!Buffers(images) /\ x \notin PicSubs!Buffers(k) => x # shown
       /\ \A x \in heap : x \in PicSubs!Buffers(images) \/ x = shown
  <2>1. \A x : x \in PicSubs!Buffers(images)
                 <=> x # 0 /\ \E i \in 1..Len(images) : images[i].rgba = x
    BY <1>5, BuffersAre
  <2>2. \A x : x \in heap <=> x # 0 /\ (x \in PicSubs!Buffers(images) \/ x = shown)
    BY DEF PicInv
  <2>3. \A x : x \in PicSubs!Buffers(k) => x \in PicSubs!Buffers(images)
    BY <1>5, <1>9, <2>1
  <2>4. \A x : x \in PicSubs!Buffers(images) /\ x \notin PicSubs!Buffers(k) => x # shown
    BY <1>5, <1>9, <2>1
  <2>5. \A x : x \in PicSubs!Buffers(k) => x \in heap
    BY <1>9, <2>2, <2>3
  <2>6. \A x \in heap : x \in PicSubs!Buffers(images) \/ x = shown
    BY <2>2
  <2> QED
    BY <2>4, <2>5, <2>6
<1>11. \A x : x \in heap' <=> \/ x # 0 /\ (x \in PicSubs!Buffers(k) \/ x = shown)
                              \/ ~r /\ x # 0 /\ x = b
  <2>1. \A x : x \in heap' <=>
          \/ x \in heap /\ x \notin PicSubs!Buffers(images) \ PicSubs!Buffers(k)
          \/ ~r /\ x # 0 /\ x = b
    <3>1. CASE r
      BY <1>4, <1>7, <3>1 DEF PicSubs!Freed
    <3>2. CASE ~r
      BY <1>4, <1>7, <3>2 DEF PicSubs!Freed
    <3> QED
      BY <3>1, <3>2
  <2>2. \A x : x \in PicSubs!Buffers(k) => x # 0
    BY <1>9
  <2>3. (shown # 0 => shown \in heap) /\ \A x \in heap : x # 0
    BY DEF PicInv
  <2> QED
    BY <1>10, <2>1, <2>2, <2>3
<1>12. shown' \in Nat
  BY <1>4 DEF PicInv
<1>13. PicSubs!Buffers(images)' = PicSubs!Buffers(images')
  BY DEF PicSubs!Buffers
<1>14. CASE r
  <2>1. images' = k
    BY <1>4, <1>14
  <2>2. Len(k) <= MaxPictures
    BY <1>5, <1>9, PicturesAssumption DEF PicInv, PicturesAssumption
  <2>3. \A x : x \in heap' <=> x # 0 /\ (x \in PicSubs!Buffers(images') \/ x = shown')
    <3>1. shown' = shown
      BY <1>4
    <3>2. \A x : x \in heap' <=> x # 0 /\ (x \in PicSubs!Buffers(k) \/ x = shown)
      BY <1>7, <1>11, <1>14
    <3> QED
      BY <2>1, <3>1, <3>2
  <2> QED
    BY <1>9, <1>12, <2>1, <2>2, <2>3 DEF PicInv
<1>15. CASE ~r
  <2>1. p \in Pics /\ p.rgba = b
    BY <1>3, <1>6 DEF Pics
  <2>2. p.rgba \notin PicSubs!Buffers(k)
    BY <1>6, <1>9, <1>10, <2>1
  <2>3. PICK new : new = PicSubs!Inserted(k, p)
    OBVIOUS
  <2>4. /\ new \in Seq(Pics) /\ Len(new) = Len(k) + 1 /\ OneDue(new) /\ Apart(new)
        /\ \A x : x \in PicSubs!Buffers(new)
                    <=> x \in PicSubs!Buffers(k) \/ (x # 0 /\ x = p.rgba)
    BY <1>9, <2>1, <2>2, <2>3, InsertedKeeps
  <2>5. images' = new
    BY <1>4, <1>15, <2>3
  <2>6. Len(new) <= MaxPictures
    BY <1>7, <1>9, <1>15, <2>4, PicturesAssumption DEF PicturesAssumption
  <2>7. \A x : x \in heap' <=> x # 0 /\ (x \in PicSubs!Buffers(images') \/ x = shown')
    <3>1. shown' = shown
      BY <1>4
    <3>2. \A x : x \in PicSubs!Buffers(k) => x # 0
      BY <1>9
    <3>3. \A x : x \in heap' <=> x # 0 /\ (x \in PicSubs!Buffers(new) \/ x = shown)
      BY <1>7, <1>11, <1>15, <2>1, <2>4, <3>2
    <3> QED
      BY <2>5, <3>1, <3>3
  <2> QED
    BY <1>12, <2>4, <2>5, <2>6, <2>7 DEF PicInv
<1> QED
  BY <1>14, <1>15

LEMMA FrameKeeps == PicInv /\ PicSubs!Frame => PicInv'
<1> SUFFICES ASSUME PicInv, PicSubs!Frame PROVE PicInv'
  OBVIOUS
<1> DEFINE keep(t) == {i \in DOMAIN images : PicSubs!Stays(images[i], t)}
           kept(t) == PicSubs!Kept(images, keep(t))
           due(t) == {i \in DOMAIN kept(t) : PicSubs!Due(kept(t)[i], t)}
           rgba(t) == IF due(t) = {} THEN PicSubs!None ELSE kept(t)[PicSubs!Max(due(t))].rgba
           changed(t) == ~valid \/ rgba(t) # shown
           gone(t) == PicSubs!Buffers(images) \ PicSubs!Buffers(kept(t))
<1>1. PICK t \in 0..LastStart :
        /\ images' = kept(t)
        /\ shown' = IF changed(t) THEN rgba(t) ELSE shown
        /\ heap' = PicSubs!Freed(gone(t), IF changed(t) THEN {shown} \ PicSubs!Buffers(kept(t)) ELSE {})
  BY DEF PicSubs!Frame
<1>2. PICK k, b, c : k = kept(t) /\ b = rgba(t) /\ c = changed(t)
  OBVIOUS
<1>3. /\ images' = k
      /\ shown' = IF c THEN b ELSE shown
      /\ heap' = PicSubs!Freed(PicSubs!Buffers(images) \ PicSubs!Buffers(k),
                               IF c THEN {shown} \ PicSubs!Buffers(k) ELSE {})
  BY <1>1, <1>2
<1>4. keep(t) \in SUBSET (1..Len(images)) /\ images \in Seq(Pics)
      /\ \A i \in 1..Len(images) :
           i \notin keep(t) => images[i].rgba # shown \/ images[i].rgba = 0
  <2>1. images \in Seq(Pics) /\ DOMAIN images = 1..Len(images)
    BY DEF PicInv
  <2> QED
    BY <2>1 DEF PicSubs!Stays, PicSubs!None
<1>5. k = PicSubs!Kept(images, keep(t))
  BY <1>2
<1>6. /\ k \in Seq(Pics) /\ Len(k) \in 0..Len(images) /\ OneDue(k) /\ Apart(k)
      /\ \A x : x \in PicSubs!Buffers(k)
                  <=> x # 0 /\ \E i \in keep(t) : images[i].rgba = x
  <2>1. images \in Seq(Pics) /\ OneDue(images) /\ Apart(images)
    BY DEF PicInv
  <2> HIDE DEF keep
  <2> QED
    BY <1>4, <1>5, <2>1, KeptKeeps
\* what is drawn is of the list that is left
<1>7. b = 0 \/ b \in PicSubs!Buffers(k)
  <2>1. CASE due(t) = {}
    BY <1>2, <2>1 DEF PicSubs!None
  <2>2. CASE due(t) # {}
    <3>1. PICK d : d = {i \in DOMAIN k : PicSubs!Due(k[i], t)}
      OBVIOUS
    <3>2. d = due(t) /\ d # {}
      BY <1>2, <2>2, <3>1
    <3>3. PICK last : last = PicSubs!Max(d)
      OBVIOUS
    <3>4. b = k[last].rgba
      BY <1>2, <2>2, <3>2, <3>3
    <3>5. Len(k) \in Nat /\ d \in SUBSET (1..Len(k))
      BY <1>6, <3>1
    <3>6. d \in SUBSET (0..Len(k))
      BY <3>5
    <3>7. last \in 1..Len(k)
      BY <3>2, <3>3, <3>5, <3>6, LastIs
    <3> QED
      BY <1>6, <3>4, <3>7, BuffersAre
  <2> QED
    BY <2>1, <2>2
<1> HIDE DEF keep, kept, due, rgba, changed, gone
<1>8. \A x : x \in PicSubs!Buffers(images)
               <=> x # 0 /\ \E i \in 1..Len(images) : images[i].rgba = x
  BY <1>4, BuffersAre
<1>9. \A x : x \in heap <=> x # 0 /\ (x \in PicSubs!Buffers(images) \/ x = shown)
  BY DEF PicInv
<1>10. /\ \A x : x \in PicSubs!Buffers(k) => x \in PicSubs!Buffers(images) /\ x # 0
       /\ \A x : x \in PicSubs!Buffers(images) \ PicSubs!Buffers(k) => x # shown
  BY <1>4, <1>6, <1>8
<1>11. \A x : x \in heap' <=> x # 0 /\ (x \in PicSubs!Buffers(images') \/ x = shown')
  <2>1. CASE c
    <3>1. \A x : x \in heap' <=> x \in PicSubs!Buffers(k)
      BY <1>3, <1>9, <1>10, <2>1 DEF PicSubs!Freed
    <3> QED
      BY <1>3, <1>7, <1>10, <2>1, <3>1
  <2>2. CASE ~c
    <3>1. \A x : x \in heap' <=> x # 0 /\ (x \in PicSubs!Buffers(k) \/ x = shown)
      BY <1>3, <1>9, <1>10, <2>2 DEF PicSubs!Freed
    <3> QED
      BY <1>3, <2>2, <3>1
  <2> QED
    BY <2>1, <2>2
<1>12. PicSubs!Buffers(images)' = PicSubs!Buffers(images')
  BY DEF PicSubs!Buffers
<1>13. Len(k) <= MaxPictures
  BY <1>4, <1>6, PicturesAssumption DEF PicInv, PicturesAssumption
<1>14. shown' \in Nat
  <2>1. \A i \in 1..Len(images) : images[i].rgba \in Nat
    <3>1. \A r \in Pics : r.rgba \in Nat
      BY DEF Pics
    <3> QED
      BY <1>4, <3>1
  <2>2. b \in Nat
    BY <1>7, <1>8, <1>10, <2>1
  <2> QED
    BY <1>3, <2>2 DEF PicInv
<1> QED
  BY <1>3, <1>6, <1>11, <1>13, <1>14 DEF PicInv

LEMMA PicStep == PicInv /\ [PicSubs!Next]_(PicSubs!vars) => PicInv'
<1> SUFFICES ASSUME PicInv, [PicSubs!Next]_(PicSubs!vars) PROVE PicInv'
  OBVIOUS
<1>1. CASE PicSubs!Opens \/ PicSubs!Closes
  BY <1>1, CloseKeeps DEF PicSubs!Opens, PicSubs!Closes
<1>2. CASE UNCHANGED <<images, shown, heap>>
  <2>1. images' = images /\ shown' = shown /\ heap' = heap
    BY <1>2
  <2>2. PicSubs!Buffers(images)' = PicSubs!Buffers(images)
    BY <2>1 DEF PicSubs!Buffers
  <2> QED
    BY <2>1 DEF PicInv
<1>3. CASE PicSubs!Feed
  BY <1>3, FeedKeeps DEF PicSubs!Feed
<1>4. CASE PicSubs!Frame
  BY <1>4, FrameKeeps
<1> QED
  BY <1>1, <1>2, <1>3, <1>4 DEF PicSubs!Next, PicSubs!vars, PicSubs!Select

(* In whatever order seeks make the reader feed the pictures of a file, they  *)
(* stand in order of start and one of a track is due at a time                *)
(* (jf_picsubs_feed's cuts of the neighbours).                                *)
THEOREM OneStaysDue == PicSubs!Spec => []OneIsDue
<1>1. PicInv => OneIsDue
  BY DEF PicInv, OneDue, OneIsDue, PicSubs!OneIsDue
<1> QED
  BY PicInit, PicStep, <1>1, PTL DEF PicSubs!Spec

(* Whatever is fed, drawn, trimmed or closed, every picture's buffer is       *)
(* allocated exactly as long as the list or the screen has it, and is in one  *)
(* place of the list.                                                         *)
THEOREM BuffersStayKept == PicSubs!Spec => []BuffersAreKept
<1>1. PicInv => BuffersAreKept
  <2> SUFFICES ASSUME PicInv PROVE BuffersAreKept
    OBVIOUS
  <2>1. heap = (PicSubs!Buffers(images) \cup {shown}) \ {0}
    BY DEF PicInv
  <2>2. DOMAIN images = 1..Len(images)
    BY DEF PicInv
  <2> QED
    BY <2>1, <2>2 DEF PicInv, Apart, BuffersAreKept, PicSubs!BuffersAreKept, PicSubs!None
<1> QED
  BY PicInit, PicStep, <1>1, PTL DEF PicSubs!Spec

----------------------------------------------------------------------------
(* The demuxer.  What its stages hold is of this stretch: a seek in place and *)
(* a reopen both empty them before the stretch is counted on.                 *)

HeldInv ==
  /\ {audioHas, swrHas} \subseteq SUBSET {stretch}
  /\ nextPts \in {0, stretch}
  /\ filter \in [on : BOOLEAN, has : SUBSET {stretch}]
  /\ \A s \in DOMAIN subs : subs[s] \subseteq {stretch}
  /\ OutputIsCurrent

LEMMA HeldInit == Demux!Init => HeldInv
BY DEF Demux!Init, Demux!NoFilter, HeldInv, OutputIsCurrent, Demux!OutputIsCurrent

(* The decoders emptied or opened anew hold nothing.                          *)
LEMMA SoundsEmpty == ASSUME NEW stream, Demux!Sounds(stream) PROVE Demux!AudioEmptied
BY DEF Demux!Sounds, Demux!AudioOpened

LEMMA OpenedEmpty ==
  ASSUME NEW src, Demux!SubtitlesOpened(src), Demux!VideoOpened
  PROVE  /\ \A s \in DOMAIN subs' : subs'[s] = {}
         /\ filter' \in [on : BOOLEAN, has : {{}}]
BY DEF Demux!SubtitlesOpened, Demux!VideoOpened

(* Nothing is held, and nothing was handed on since.                          *)
LEMMA EmptyIsHeld ==
  ASSUME Demux!AudioEmptied, filter' \in [on : BOOLEAN, has : {{}}],
         \A s \in DOMAIN subs' : subs'[s] = {}, out' \subseteq {stretch'}
  PROVE  HeldInv'
BY DEF Demux!AudioEmptied, HeldInv, OutputIsCurrent, Demux!OutputIsCurrent

LEMMA HeldStep == HeldInv /\ [Demux!Next]_(Demux!vars) => HeldInv'
<1> SUFFICES ASSUME HeldInv, [Demux!Next]_(Demux!vars)
             PROVE  HeldInv'
  OBVIOUS
<1> USE DEF OutputIsCurrent, Demux!OutputIsCurrent
<1>1. ASSUME Demux!Over, UNCHANGED <<stretch, out>>
      PROVE  HeldInv'
  <2>1. filter' \in [on : BOOLEAN, has : {{}}] /\ DOMAIN subs' = {}
    BY <1>1 DEF Demux!Over, Demux!NoFilter
  <2> QED
    BY <1>1, <2>1, EmptyIsHeld DEF HeldInv, Demux!Over
<1>2. CASE Demux!Open
  <2>1. \E stream : Demux!Sounds(stream)
    BY <1>2 DEF Demux!Open
  <2>2. Demux!SubtitlesOpened(source') /\ Demux!VideoOpened /\ stretch' = stretch /\ out' = out
    BY <1>2 DEF Demux!Open
  <2> QED
    BY <2>1, <2>2, SoundsEmpty, OpenedEmpty, EmptyIsHeld DEF HeldInv
<1>3. CASE Demux!OpenFails \/ Demux!End \/ Demux!SeekFails
  BY <1>1, <1>3 DEF Demux!OpenFails, Demux!End, Demux!SeekFails
<1>4. CASE Demux!ChooseAudio \/ Demux!Segment
  BY <1>4 DEF Demux!ChooseAudio, Demux!Segment, HeldInv
<1>5. CASE Demux!Seek
  <2>1. out' = {}
    BY <1>5 DEF Demux!Seek
  <2>2. CASE Demux!SeekInPlace
    <3>1. /\ Demux!AudioEmptied /\ filter' = [filter EXCEPT !.has = {}]
          /\ subs' = [s \in DOMAIN subs |-> {}]
      BY <2>2 DEF Demux!SeekInPlace, Demux!FilterFlushed
    <3>2. filter' \in [on : BOOLEAN, has : {{}}]
      BY <3>1 DEF HeldInv
    <3> QED
      BY <2>1, <3>1, <3>2, EmptyIsHeld
  <2>3. CASE Demux!Reopen
    <3>1. \E stream : Demux!Sounds(stream)
      BY <2>3 DEF Demux!Reopen
    <3>2. Demux!SubtitlesOpened(source) /\ Demux!VideoOpened
      BY <2>3 DEF Demux!Reopen
    <3> QED
      BY <2>1, <3>1, <3>2, SoundsEmpty, OpenedEmpty, EmptyIsHeld
  <2> QED
    BY <1>5, <2>2, <2>3 DEF Demux!Seek
<1>6. CASE Demux!ReadVideo
  BY <1>6 DEF Demux!ReadVideo, Demux!Reads, HeldInv
<1>7. CASE Demux!ReadAudio
  BY <1>7 DEF Demux!ReadAudio, Demux!Reads, HeldInv
<1>8. CASE Demux!ReadSubtitle
  BY <1>8 DEF Demux!ReadSubtitle, Demux!Reads, HeldInv
<1>9. CASE Demux!RestartSubtitle
  BY <1>9 DEF Demux!RestartSubtitle, Demux!Reads, HeldInv
<1>10. CASE UNCHANGED Demux!vars
  BY <1>10 DEF Demux!vars, HeldInv
<1> QED
  BY <1>2, <1>3, <1>4, <1>5, <1>6, <1>7, <1>8, <1>9, <1>10 DEF Demux!Next

(* Through any number of seeks in place and reopens, with every stage keeping *)
(* back what it likes, what is handed on is from where the source now is      *)
(* (jf_demux_seek).                                                           *)
THEOREM OutputStaysCurrent == Demux!Spec => []OutputIsCurrent
<1>1. Demux!Spec => []HeldInv
  BY HeldInit, HeldStep, PTL DEF Demux!Spec
<1> QED
  BY <1>1, PTL DEF HeldInv

----------------------------------------------------------------------------
(* The track.  Between segments too, what is read is what is decoded and what *)
(* counts as played; and a file read for sound has the tracks chosen, which   *)
(* is why a reopen does not fall back on its first.                           *)

Running == session \in {"between", "reading"}

TrackInv ==
  /\ Running => source # "closed"
  /\ Running /\ ~missed =>
       /\ decoder = readAudio
       /\ source = "file" => readAudio = played
  /\ Running /\ readAudio # Demux!None => {wanted, played} \subseteq Audio

LEMMA MinIsOne == Audio # {} => Demux!Min(Audio) \in Audio
<1> SUFFICES ASSUME Audio # {}
             PROVE  Demux!Min(Audio) \in Audio
  OBVIOUS
<1>1. Audio \subseteq Nat
  BY AudioAssumption DEF AudioAssumption
<1> QED
  BY <1>1, LeastOne DEF Demux!Min

LEMMA TrackInit == Demux!Init => TrackInv
BY DEF Demux!Init, TrackInv, Running

LEMMA TrackStep == TrackInv /\ [Demux!Next]_(Demux!vars) => TrackInv'
<1> SUFFICES ASSUME TrackInv, [Demux!Next]_(Demux!vars)
             PROVE  TrackInv'
  OBVIOUS
<1> USE DEF TrackInv, Running
<1>1. Demux!None = -1 /\ Demux!None \notin Audio
  BY AudioAssumption DEF AudioAssumption, Demux!None
<1>2. CASE Demux!Open
  BY <1>1, <1>2, MinIsOne DEF Demux!Open, Demux!Sounds, Demux!AudioOpened, Demux!SwitchesAudio
<1>3. CASE Demux!OpenFails \/ Demux!End \/ Demux!SeekFails
  BY <1>3 DEF Demux!OpenFails, Demux!End, Demux!SeekFails, Demux!Over
<1>4. CASE Demux!ChooseAudio \/ Demux!Segment
  BY <1>4 DEF Demux!ChooseAudio, Demux!Segment
<1>5. CASE Demux!Seek
  <2>1. session' = session /\ wanted' = wanted /\ played' = Demux!PlayedNext /\ Running
    BY <1>5 DEF Demux!Seek
  <2>2. CASE Demux!SeekInPlace
    <3>1. source' = source
      BY <2>2 DEF Demux!SeekInPlace
    <3>2. CASE Demux!SwitchesAudio /\ readAudio # wanted
      <4>1. /\ decoder' \in {wanted, Demux!None}
            /\ readAudio' = IF decoder' = wanted THEN wanted ELSE readAudio
            /\ missed' = (missed \/ decoder' # wanted)
        BY <2>2, <3>2 DEF Demux!SeekInPlace
      <4>2. played' = wanted /\ readAudio # Demux!None
        BY <2>1, <3>2 DEF Demux!SwitchesAudio, Demux!PlayedNext
      <4>3. ~missed' => decoder' = wanted
        BY <4>1, Zenon
      <4> QED
        BY <2>1, <3>1, <4>1, <4>2, <4>3
    <3>3. CASE ~(Demux!SwitchesAudio /\ readAudio # wanted)
      <4>1. decoder' = decoder /\ readAudio' = readAudio /\ missed' = missed
        BY <2>2, <3>3 DEF Demux!SeekInPlace
      <4>2. played' = played \/ (played' = wanted /\ readAudio = wanted)
        BY <2>1, <3>3 DEF Demux!SwitchesAudio, Demux!PlayedNext
      <4> QED
        BY <2>1, <3>1, <4>1, <4>2
    <3> QED
      BY <3>2, <3>3
  <2>3. CASE Demux!Reopen
    BY <1>1, <2>1, <2>3
    DEF Demux!Reopen, Demux!Sounds, Demux!AudioOpened, Demux!SwitchesAudio, Demux!PlayedNext,
        Demux!Chosen, Demux!Streams
  <2> QED
    BY <1>5, <2>2, <2>3 DEF Demux!Seek
<1>6. CASE Demux!ReadVideo \/ Demux!ReadAudio \/ Demux!ReadSubtitle \/ Demux!RestartSubtitle
  BY <1>6 DEF Demux!ReadVideo, Demux!ReadAudio, Demux!ReadSubtitle, Demux!RestartSubtitle,
              Demux!Reads
<1>7. CASE UNCHANGED Demux!vars
  BY <1>7 DEF Demux!vars
<1> QED
  BY <1>2, <1>3, <1>4, <1>5, <1>6, <1>7 DEF Demux!Next

(* Whatever tracks a file has and in whatever order they are chosen, sought   *)
(* and reopened, the sound read and decoded is the track that counts as       *)
(* played, from an open source (seek_to, reopen_at, switch_audio).            *)
THEOREM SoundStaysThePlayed == Demux!Spec => []SoundIsThePlayed
<1>1. TrackInv => SoundIsThePlayed
  BY DEF TrackInv, Running, SoundIsThePlayed, Demux!SoundIsThePlayed
<1>2. Demux!Spec => []TrackInv
  BY TrackInit, TrackStep, PTL DEF Demux!Spec
<1> QED
  BY <1>1, <1>2, PTL

----------------------------------------------------------------------------
(* The media clock.  An anchor is followed from the question it is made of:   *)
(* from then on the wall clock runs at least as fast as the picture, so that  *)
(* what it lags by is settled when it is made.                                *)

ClockNumbers ==
  /\ now \in Nat /\ position \in Nat /\ playing \in BOOLEAN
  /\ samplePts \in Nat /\ sampleHost \in Nat
  /\ poll \in [at : {"rest", "asks", "hears", "samples"}, before : Nat, pts : Nat]

(* The pipeline neither stops nor starts between a question and its release;  *)
(* an answer lags by a frame, and half a query once it is halfway.            *)
PollInv ==
  /\ poll.before <= now /\ poll.pts <= position
  /\ poll.at = "hears" => poll.pts + (now - poll.before) >= position - FrameTicks
  /\ poll.at = "samples" =>
       poll.pts + (now - poll.before) >= position - FrameTicks - (Slow \div 2)

AnchorInv ==
  anchored => /\ sampleHost <= now /\ samplePts <= position
              /\ samplePts + (now - sampleHost) >= position - FrameTicks - (Slow \div 2)

ClockInv == ClockNumbers /\ PollInv /\ AnchorInv

(* The frame presented began less than a frame ago.                           *)
LEMMA PresentedFrame ==
  ASSUME NEW p \in Nat
  PROVE  p - (p % FrameTicks) \in Nat /\ p - (p % FrameTicks) <= p /\ p - (p % FrameTicks) >= p - FrameTicks
<1>1. p % FrameTicks \in Nat /\ p % FrameTicks < FrameTicks
  BY ClockAssumption DEF ClockAssumption
<1>2. p % FrameTicks <= p
  BY ClockAssumption DEF ClockAssumption
<1> QED
  BY <1>1, <1>2, ClockAssumption DEF ClockAssumption

LEMMA RestIsNumbers ==
  /\ Clock!Rest \in [at : {"rest", "asks", "hears", "samples"}, before : Nat, pts : Nat]
  /\ Clock!Rest.at = "rest" /\ Clock!Rest.before = 0 /\ Clock!Rest.pts = 0
BY DEF Clock!Rest

LEMMA ClockInit == Clock!Init => ClockInv
<1> SUFFICES ASSUME Clock!Init
             PROVE  ClockInv
  OBVIOUS
<1>1. ClockNumbers
  BY RestIsNumbers DEF Clock!Init, ClockNumbers
<1>2. PollInv
  BY RestIsNumbers DEF Clock!Init, PollInv
<1>3. AnchorInv
  BY DEF Clock!Init, AnchorInv
<1> QED
  BY <1>1, <1>2, <1>3 DEF ClockInv

LEMMA ClockStep == ClockInv /\ [Clock!Next]_(Clock!vars) => ClockInv'
<1> SUFFICES ASSUME ClockInv, [Clock!Next]_(Clock!vars)
             PROVE  ClockInv'
  OBVIOUS
<1> USE ClockAssumption DEF ClockAssumption, ClockInv, ClockNumbers, PollInv, AnchorInv, Clock!clock
<1>1. CASE Clock!Tick
  BY <1>1 DEF Clock!Tick
<1>2. CASE Clock!Report
  BY <1>2 DEF Clock!Report, Clock!Sample
<1>3. CASE Clock!Asks
  BY <1>3 DEF Clock!Asks
<1>4. CASE Clock!Hears
  <2>1. Clock!Presented \in Nat /\ Clock!Presented <= position /\ Clock!Presented >= position - FrameTicks
    BY PresentedFrame DEF Clock!Presented
  <2>2. poll' = [poll EXCEPT !.at = "hears", !.pts = Clock!Presented]
    BY <1>4 DEF Clock!Hears
  <2>3. /\ ClockNumbers'
        /\ poll'.at = "hears" /\ poll'.before = poll.before /\ poll'.pts = Clock!Presented
    BY <1>4, <2>1, <2>2 DEF Clock!Hears
  <2>4. PollInv' /\ AnchorInv'
    BY <1>4, <2>1, <2>3 DEF Clock!Hears
  <2> QED
    BY <2>3, <2>4
<1>5. CASE Clock!Releases
  <2>1. CASE now - poll.before <= Slow
    <3>1. /\ (now - poll.before) \div 2 \in Nat
          /\ (now - poll.before) \div 2 <= now - poll.before
          /\ (now - poll.before) \div 2 <= Slow \div 2
      BY <2>1
    <3> QED
      BY <1>5, <2>1, <3>1 DEF Clock!Releases, Clock!Halfway
  <2>2. CASE ~(now - poll.before <= Slow)
    BY <1>5, <2>2, RestIsNumbers DEF Clock!Releases
  <2> QED
    BY <2>1, <2>2
<1>6. CASE Clock!Samples
  BY <1>6, RestIsNumbers DEF Clock!Samples, Clock!Sample
<1>7. CASE Clock!Toggle
  BY <1>7 DEF Clock!Toggle
<1>8. CASE Clock!Reset
  <2>1. /\ poll' = Clock!Rest /\ now' = now /\ position' = 0 /\ playing' = FALSE
        /\ anchored' = FALSE /\ samplePts' = 0 /\ sampleHost' = 0
    BY <1>8 DEF Clock!Reset
  <2>2. ClockNumbers' /\ AnchorInv'
    BY <2>1, RestIsNumbers DEF ClockNumbers, AnchorInv
  <2>3. PollInv'
    BY <2>1, RestIsNumbers DEF PollInv
  <2> QED
    BY <2>2, <2>3 DEF ClockInv
<1>9. CASE UNCHANGED Clock!vars
  BY <1>9 DEF Clock!vars
<1> QED
  BY <1>1, <1>2, <1>3, <1>4, <1>5, <1>6, <1>7, <1>8, <1>9 DEF Clock!Next

LEMMA NearByAnchor == ASSUME ClockInv PROVE ReadingIsNear
BY ClockAssumption
DEF ClockAssumption, ClockInv, ClockNumbers, AnchorInv, ReadingIsNear, Clock!ReadingIsNear,
    Clock!Pts, Clock!None

(* Through pauses, slow queries and late samples, a reading of the clock is   *)
(* behind the picture by no more than a frame and half a query, and ahead by  *)
(* no more than an anchor stays fresh (clock.c:65-81, player.c's              *)
(* clock_thread).                                                             *)
THEOREM ReadingsAreNear == Clock!Spec => []ReadingIsNear
<1>1. Clock!Spec => []ClockInv
  BY ClockInit, ClockStep, PTL DEF Clock!Spec
<1> QED
  BY <1>1, NearByAnchor, PTL
=============================================================================
