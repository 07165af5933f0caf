---------------------------- MODULE MCFramePacer ----------------------------
EXTENDS FramePacer
=============================================================================
