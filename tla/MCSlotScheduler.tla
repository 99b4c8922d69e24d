------------------------- MODULE MCSlotScheduler -------------------------
(* Small instances of SlotScheduler for TLC. *)
EXTENDS SlotScheduler

CONSTANTS t1, t2

MCTorrents == {t1, t2}
MCLeft     == (t1 :> 2 @@ t2 :> 4)
MCExposure == (t1 :> 1 @@ t2 :> 2)
MCClaim    == (t1 :> 1 @@ t2 :> 0)
MCFree     == {1, 3, 8}
=============================================================================
