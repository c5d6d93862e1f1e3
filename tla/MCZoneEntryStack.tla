-------------------------- MODULE MCZoneEntryStack --------------------------
(* Instantiates ZoneEntryStack for TLC: three threads that free and clean, *)
(* as Free and the cleaners of several processes do on one list.          *)
EXTENDS ZoneEntryStack

CONSTANTS t1, t2, t3

MCThreads == {t1, t2, t3}

=============================================================================
