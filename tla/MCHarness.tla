------------------------------ MODULE MCHarness ------------------------------
(* The programs of the harness: a behaviour is a run of a driver of the    *)
(* engine, or of a program that works on files.                            *)
EXTENDS MCExperiments, MCOffline

Init == \/ DriversInit /\ OfflineUnused
        \/ OfflineInit /\ DriversUnused
Next == \/ stage = "none" /\ DriversNext /\ UNCHANGED offlineVars
        \/ OfflineNext /\ UNCHANGED experimentVars
Spec == Init /\ [][Next]_<<experimentVars, offlineVars>> /\ DriversFairness /\ OfflineFairness
=============================================================================
