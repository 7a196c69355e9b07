---- MODULE MCSharedWorld ----
EXTENDS SharedWorld
====
