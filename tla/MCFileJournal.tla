---- MODULE MCFileJournal ----
EXTENDS FileJournal
====
