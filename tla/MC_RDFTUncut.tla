---------------------------- MODULE MC_RDFTUncut ----------------------------
EXTENDS RDFTUncut
====
