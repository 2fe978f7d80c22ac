----------------------------- MODULE MCFetchVex -----------------------------
(* Small instances of FetchVex for TLC. *)
EXTENDS FetchVex
=============================================================================
