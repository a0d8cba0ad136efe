--------------------------- MODULE MCStoredStats ---------------------------
(* Instances of StoredStats for TLC. *)
EXTENDS StoredStats

ASSUME MCStoredStatsAssumption == StoredStatsAssumption

BothStorages == {"disk", "s3"}
OnlyDisk == {"disk"}
NoFaults == {}
CrashFaults == {"engine"}
AllFaults == {"engine", "storage", "interrupt"}
=============================================================================
