------------------------------- MODULE Cache -------------------------------
(* The artwork cache of src/src/jf/store.c under artwork() of                 *)
(* src/src/jf/api.c: workers share one directory; an image is written under   *)
(* a name of its own thread and renamed into place, and never forced to the   *)
(* disk.  A start prunes the directory, oldest first.                         *)
EXTENDS Integers, FiniteSets, Sequences, FiniteSetsExt, SequencesExt

CONSTANTS
  Posters, Backdrops,   \* the images asked for; the names of backdrops are longer
  Workers,
  Whole,                \* the size of a complete image
  Budget,               \* CACHE_BUDGET
  MaxWrites             \* bounds the writes, which the files' times count

VARIABLES
  files,    \* the directory: name -> [size, synced, at]
  worker,   \* what each worker does, and to which image
  clock, up

vars == <<files, worker, clock, up>>

Images == Posters \cup Backdrops
Final(image) == <<image>>
PartialOfAll(image, w) == <<image, "partial">>   \* mutant: not the thread's own
Partial(image, w) == <<image, w>>

Without(name) == [n \in DOMAIN files \ {name} |-> files[n]]
With(dir, name, file) == [n \in DOMAIN dir \cup {name} |-> IF n = name THEN file ELSE dir[n]]
Idle == [at |-> "idle", image |-> CHOOSE i \in Images : TRUE]

Init ==
  /\ files = <<>> /\ worker = [w \in Workers |-> Idle]
  /\ clock = 0 /\ up = FALSE

----------------------------------------------------------------------------
(* jf_store_prune, at a start *)

\* A name of 96 characters and more is passed over: a backdrop's partial.
Listed == {n \in DOMAIN files : Len(n) = 2 => n[1] \in Posters}
SizeOf(names) == MapThenSumSet(LAMBDA n : files[n].size, names)
Older(a, b) == files[a].at < files[b].at

Unlinked(pass, n) ==
  IF pass.left > Budget
  THEN [left |-> pass.left - files[n].size, gone |-> pass.gone \cup {n}]
  ELSE pass
Pruned == FoldLeft(Unlinked, [left |-> SizeOf(Listed), gone |-> {}],
                   SetToSortSeq(Listed, Older)).gone

Start ==
  /\ ~up /\ up' = TRUE
  /\ files' = [n \in DOMAIN files \ Pruned |-> files[n]]
  /\ UNCHANGED <<worker, clock>>

----------------------------------------------------------------------------
(* artwork: a cached image is shown if it decodes, otherwise it is fetched    *)
(* and stored on the way.                                                     *)

WorkerGoes(w, from, to) ==
  /\ up /\ worker[w].at = from
  /\ worker' = [worker EXCEPT ![w] = IF to = "idle" THEN Idle ELSE [@ EXCEPT !.at = to]]
  /\ UNCHANGED up

Decodes(name) == name \in DOMAIN files /\ files[name].size = Whole

Fetch(w, image) ==
  /\ up /\ worker[w].at = "idle" /\ ~Decodes(Final(image)) /\ clock < MaxWrites
  /\ worker' = [worker EXCEPT ![w] = [at |-> "open", image |-> image]]
  /\ UNCHANGED <<files, clock, up>>

\* O_TRUNC: what a killed process left is emptied.
Open(w) ==
  /\ UNCHANGED clock
  /\ \/ /\ WorkerGoes(w, "open", "write")
        /\ files' = With(files, Partial(worker[w].image, w),
                         [size |-> 0, synced |-> FALSE, at |-> clock])
     \/ WorkerGoes(w, "open", "idle") /\ UNCHANGED files

\* One write(2): a part of the image, or an error.
Write(w) ==
  LET name == Partial(worker[w].image, w)
      size == files[name].size + 1
  IN  \/ /\ WorkerGoes(w, "write", IF size = Whole THEN "rename" ELSE "write")
         /\ clock < MaxWrites /\ clock' = clock + 1
         /\ files' = [files EXCEPT ![name] = [@ EXCEPT !.size = size, !.at = clock']]
      \/ WorkerGoes(w, "write", "unlink") /\ UNCHANGED <<files, clock>>

Rename(w) ==
  LET name == Partial(worker[w].image, w)
  IN  /\ UNCHANGED clock
      /\ \/ /\ WorkerGoes(w, "rename", "idle")
            /\ files' = With(Without(name), Final(worker[w].image), files[name])
         \/ WorkerGoes(w, "rename", "unlink") /\ UNCHANGED files

Unlink(w) ==
  /\ WorkerGoes(w, "unlink", "idle") /\ UNCHANGED clock
  /\ files' = Without(Partial(worker[w].image, w))

----------------------------------------------------------------------------
Ended ==
  /\ up /\ up' = FALSE
  /\ worker' = [w \in Workers |-> Idle]
  /\ UNCHANGED clock

Killed == Ended /\ UNCHANGED files

\* Of a file the system had not written back, any part is left, or not even
\* its name.  One file a cut: cuts follow each other.
PowerCut ==
  /\ Ended
  /\ \E n \in DOMAIN files :
       /\ ~files[n].synced
       /\ \/ files' = Without(n)
          \/ \E size \in 0..files[n].size :
               files' = [files EXCEPT ![n] = [@ EXCEPT !.size = size, !.synced = TRUE]]

Next ==
  \/ Start \/ Killed \/ PowerCut
  \/ \E w \in Workers : \/ \E image \in Images : Fetch(w, image)
                        \/ Open(w) \/ Write(w) \/ Rename(w) \/ Unlink(w)

Spec == Init /\ [][Next]_vars

----------------------------------------------------------------------------
TypeOK ==
  /\ \A n \in DOMAIN files : files[n].size \in 0..Whole /\ files[n].at \in 0..MaxWrites
  /\ worker \in [Workers -> [at : {"idle", "open", "write", "rename", "unlink"},
                             image : Images]]
  /\ clock \in 0..MaxWrites
  /\ up \in BOOLEAN

(* "a half-written file must never be readable as a whole one" (store.c:216): *)
(* whichever workers store which images, a file under its final name is       *)
(* whole, unless the power was cut before the system wrote it back.           *)
ImagesAreWhole ==
  \A image \in Images :
    Final(image) \in DOMAIN files /\ ~files[Final(image)].synced
      => files[Final(image)].size = Whole
=============================================================================
