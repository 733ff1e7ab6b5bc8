---------------------------- MODULE MCBeaconSync ----------------------------
EXTENDS BeaconSync, TLC

CONSTANTS n1, n2, n3

MCNodes == {n1, n2, n3}
=============================================================================
