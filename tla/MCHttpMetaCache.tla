-------------------------- MODULE MCHttpMetaCache ---------------------------
(* One resource, used by two downloads.                                      *)
EXTENDS HttpMetaCache, TLC

CONSTANTS d1, d2

DownloadsMC == {d1, d2}
DownloadSymmetry == Permutations(DownloadsMC)
=============================================================================
