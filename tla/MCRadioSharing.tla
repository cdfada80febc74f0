--------------------------- MODULE MCRadioSharing ---------------------------
(* The features in the order in which headset_init.c initialises their     *)
(* owners: with calls and music only, and with voice assistant and upgrade. *)
EXTENDS RadioSharing

MCCallsAndMusic == <<"PAGE_SCAN", "A2DP_LL", "ESCO">>
MCAllOwners     == <<"PAGE_SCAN", "ESCO", "DFU", "VA">>
=============================================================================
