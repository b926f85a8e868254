---------------------------- MODULE MCDownload ----------------------------
(***************************************************************************)
(* A small instance of Download: two goroutines on one fid of an           *)
(* attachment of two bytes.                                                *)
(***************************************************************************)
EXTENDS Download
=============================================================================
