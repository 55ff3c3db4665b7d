----------------------------- MODULE MC_FileStore -----------------------------
EXTENDS FileStore, TLC

CONSTANTS f1, f2, old, d1

FileSizes == (f1 :> 2) @@ (f2 :> 2) @@ (old :> 1)
=============================================================================
