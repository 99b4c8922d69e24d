-------------------------- MODULE MCSyncJanitors --------------------------
(* Small instances of SyncJanitors for TLC. *)
EXTENDS SyncJanitors

CONSTANTS t1, t2

MCTorrents == {t1, t2}
MCContents == {t1}
=============================================================================
