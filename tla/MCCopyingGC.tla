---------------------------- MODULE MCCopyingGC -----------------------------
EXTENDS CopyingGC, TLC
=============================================================================
