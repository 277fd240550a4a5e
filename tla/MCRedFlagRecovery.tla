--------------------------- MODULE MCRedFlagRecovery ---------------------------
(* Start-up with flag files, for TLC: the names of the flag files.           *)
EXTENDS RedFlagRecovery

FetchNames == {"redflag3.md", "flag_fetch.md"}
RebuildNames == {"flag_rebuild.md"}
=============================================================================
