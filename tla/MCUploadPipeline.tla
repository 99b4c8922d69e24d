-------------------------- MODULE MCUploadPipeline --------------------------
(* Small instances of UploadPipeline for TLC. *)
EXTENDS UploadPipeline, TLC

CONSTANTS t1, t2, m1, m2, txt

MCTorrents == {t1}
MCPair == {t1, t2}
MCFiles == {m1, m2, txt}
MCMedia == {m1, m2}
MCSingle == {m1}
MCSingleTxt == {m1, txt}
\* The two media files are interchangeable.
MediaSymmetry == Permutations(MCMedia)
=============================================================================
