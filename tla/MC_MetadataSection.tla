---- MODULE MC_MetadataSection ----
EXTENDS MetadataSection
====
