---------------------------- MODULE MCAnomalyReport ----------------------------
(***************************************************************************)
(* A small instance of the report's filing: pages of two items, at most two.  *)
(***************************************************************************)
EXTENDS AnomalyReport
=============================================================================
