----------------------------- MODULE MCPublishing -----------------------------
(***************************************************************************)
(* A small instance of what the adapters write: two publishers on one branch  *)
(* that writes one path.                                                    *)
(***************************************************************************)
EXTENDS Publishing

CONSTANTS amy, bob, image
=============================================================================
