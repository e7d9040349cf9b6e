------------------------------ MODULE HostFiles ------------------------------
(***************************************************************************)
(* The files of a compute node as copy_remote_file and launch_server of    *)
(* host_thread.py leave them.  The images of the repository have no        *)
(* backing file; disk[f] is the version of the image in file f and the     *)
(* file that backs it, and base is localinfo['files'] of that image: its   *)
(* unmodified local copy.                                                  *)
(***************************************************************************)
EXTENDS Naturals, FiniteSets

CONSTANTS
  Files,   \* bound: names of files, numbers
  Absent   \* no such file

FileSystem(versions) ==
  [Files -> {Absent} \cup [image : versions, backing : Files \cup {Absent}]]

\* get_notused_filename.
Unused(disk) ==
  CHOOSE f \in Files : disk[f] = Absent /\ \A g \in Files : disk[g] = Absent => f <= g

\* The bound on the names: an image and what is put on it still find theirs.
NamesLeft(disk) == \E f, g \in Files : f # g /\ disk[f] = Absent /\ disk[g] = Absent

\* Mutant: nothing is deleted.
KeepFile(disk, f) == disk

DeleteFile(disk, f) == IF f = Absent THEN disk ELSE [disk EXCEPT ![f] = Absent]

\* The local copy is there, with the size and date of the image.
LocalCopyValid(disk, base, version) ==
  /\ base # Absent
  /\ disk[base] # Absent
  /\ disk[base].image = version

\* copy_remote_file of an image that is used incrementally: a copy that is no
\* longer like the image is deleted, whoever uses it, and replaced.
CopyForIncremental(disk, base, version) ==
  IF LocalCopyValid(disk, base, version)
  THEN [disk |-> disk, base |-> base, file |-> base]
  ELSE LET cleared == DeleteFile(disk, base)
           copy == Unused(cleared)
       IN  [disk |-> [cleared EXCEPT ![copy] = [image |-> version, backing |-> Absent]],
            base |-> copy, file |-> copy]

\* copy_remote_file of an image that is not: always a new copy, not recorded.
PlainCopy(disk, base, version) ==
  LET copy == Unused(disk)
  IN  [disk |-> [disk EXCEPT ![copy] = [image |-> version, backing |-> Absent]],
       base |-> base, file |-> copy]

\* Step 2 of launch_server: the copy, and on it the incremental image.
NewServerFile(disk, base, version, incremental) ==
  IF ~incremental
  THEN PlainCopy(disk, base, version)
  ELSE LET copied == CopyForIncremental(disk, base, version)
           inc == Unused(copied.disk)
       IN  [disk |-> [copied.disk EXCEPT ![inc] = [image |-> version, backing |-> copied.file]],
            base |-> copied.base, file |-> inc]

\* A disk can be used when it and what backs it exist.
Usable(disk, f) ==
  /\ f # Absent
  /\ disk[f] # Absent
  /\ disk[f].backing # Absent => disk[disk[f].backing] # Absent
=============================================================================
