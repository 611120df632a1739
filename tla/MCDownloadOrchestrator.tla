------------------------ MODULE MCDownloadOrchestrator ------------------------
(* A plan of two files, the second of which may be an archive: then, and   *)
(* when the first file is resumed, the files are fetched one by one.       *)
EXTENDS DownloadOrchestrator

CONSTANTS f1, f2

TwoFiles == <<f1, f2>>

Disk(packed, partial, entry) ==
  [archives |-> packed, partial |-> partial, whole |-> {}, registry |-> entry]

MCBeginnings == {Disk({}, FALSE, "none"), Disk({f2}, TRUE, "stale")}
===============================================================================
