------------------------------ MODULE Settings ------------------------------
(* The files of settings: the preferences of src/src/app/main.c and the       *)
(* credentials of src/src/jf/store.c, each written by cfg_flush of            *)
(* src/src/jf/cfg.c beside itself, forced to the disk and renamed into place. *)
(* Every call may fail, and the process may be killed or the television       *)
(* switched off between any two of them.  `file` is what a program would      *)
(* read under the path; `disk` what a power cut may go back to.               *)
EXTENDS Integers

CONSTANTS
  Whole,      \* the size of a complete file
  MaxSaves    \* bounds the versions of the settings, one a save

ASSUME SettingsAssumption == Whole \in Nat \ {0} /\ MaxSaves \in Nat

VARIABLES
  file, disk,
  temporary,    \* the file being written, under the path with .tmp
  flush,        \* how far cfg_flush is
  version,      \* the settings in memory, numbered
  up

vars == <<file, disk, temporary, flush, version, up>>

Files == [of : 0..MaxSaves, size : 0..Whole, synced : BOOLEAN]
\* No file reads as the settings' defaults, version 0.
NoFile == [of |-> 0, size |-> Whole, synced |-> TRUE]

Init ==
  /\ file = NoFile /\ disk = NoFile /\ temporary = NoFile
  /\ flush = "idle" /\ version = 0 /\ up = FALSE

\* The settings a start reads; a torn file is none that was ever saved.
IsWhole(f) == f.size = Whole

Start ==
  /\ ~up /\ up' = TRUE
  /\ version' = file.of
  /\ UNCHANGED <<file, disk, temporary, flush>>

\* A setting is changed, to be saved.
Save ==
  /\ up /\ flush = "idle" /\ version < MaxSaves
  /\ version' = version + 1 /\ flush' = "open"
  /\ UNCHANGED <<file, disk, temporary, up>>

FlushGoes(from, to) ==
  /\ up /\ flush = from /\ flush' = to
  /\ UNCHANGED <<disk, version, up>>

FlushFails(from, to) == FlushGoes(from, to) /\ UNCHANGED <<file, temporary>>

FlushOpens ==
  \/ /\ FlushGoes("open", "write") /\ UNCHANGED file
     /\ temporary' = [of |-> version, size |-> 0, synced |-> FALSE]
  \/ FlushFails("open", "idle")

\* fwrite and fflush: a full disk takes a part.
FlushWrites ==
  \E size \in 0..Whole :
    /\ FlushGoes("write", IF size = Whole THEN "sync" ELSE "remove")
    /\ temporary' = [temporary EXCEPT !.size = size]
    /\ UNCHANGED file

FlushForgetsToSync == FlushFails("sync", "rename")   \* mutant
FlushSyncs ==
  \/ /\ FlushGoes("sync", "rename") /\ UNCHANGED file
     /\ temporary' = [temporary EXCEPT !.synced = TRUE]
  \/ FlushFails("sync", "remove")

\* fclose, and rename, which takes the temporary's name away
FlushRenames ==
  \/ /\ FlushGoes("rename", "idle")
     /\ file' = temporary /\ temporary' = NoFile
  \/ FlushFails("rename", "remove")

FlushRemoves ==
  /\ FlushGoes("remove", "idle") /\ UNCHANGED file
  /\ temporary' = NoFile

\* The system's own write-back, at any time, forces what there is.
WriteBack ==
  /\ disk # [file EXCEPT !.synced = TRUE]
  /\ file' = [file EXCEPT !.synced = TRUE] /\ disk' = file'
  /\ UNCHANGED <<temporary, flush, version, up>>

Ended ==
  /\ up /\ up' = FALSE /\ flush' = "idle"
  /\ UNCHANGED <<version, temporary>>

Killed == Ended /\ UNCHANGED <<file, disk>>

\* Under the path is then the file it had on the disk, or the new one: all of
\* it, or of one never forced to the disk any part.
PowerCut ==
  /\ Ended
  /\ \/ file' = disk
     \/ file.synced /\ file' = file
     \/ /\ ~file.synced
        /\ \E size \in 0..file.size : file' = [file EXCEPT !.size = size, !.synced = TRUE]
  /\ disk' = file'

Next ==
  \/ Start \/ Save \/ FlushOpens \/ FlushWrites \/ FlushSyncs \/ FlushRenames
  \/ FlushRemoves \/ WriteBack \/ Killed \/ PowerCut

Spec == Init /\ [][Next]_vars

----------------------------------------------------------------------------
TypeOK ==
  /\ file \in Files /\ disk \in Files /\ temporary \in Files
  /\ flush \in {"idle", "open", "write", "sync", "rename", "remove"}
  /\ version \in 0..MaxSaves /\ up \in BOOLEAN

(* Wherever the program or the power ends, what a start reads is one whole    *)
(* save, and never older than one the disk has had (cfg_flush forces the file *)
(* to the disk before it renames it).                                         *)
SettingsAreKept ==
  /\ IsWhole(file) /\ IsWhole(disk)
  /\ file.of >= disk.of
=============================================================================
