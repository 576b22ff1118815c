-------------------------- MODULE MC_GraySelector --------------------------
EXTENDS GraySelector
=============================================================================
