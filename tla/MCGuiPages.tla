----------------------------- MODULE MCGuiPages -----------------------------
EXTENDS GuiPages
=============================================================================
