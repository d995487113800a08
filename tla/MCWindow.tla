------------------------------ MODULE MCWindow ------------------------------
(***************************************************************************)
(* The window's loop with two command buffers, all refresh modes and       *)
(* callbacks that ask for a refresh, set or clear a timeout or close the   *)
(* window.                                                                 *)
(***************************************************************************)
EXTENDS Window

AllModes == {"OnDemand", "OnEvent", "Periodic"}
AllEffects == {"none", "refresh", "once", "periodic", "off", "close"}
=============================================================================
