------------------------------ MODULE IndexedDbMC ------------------------------
EXTENDS IndexedDb
================================================================================
