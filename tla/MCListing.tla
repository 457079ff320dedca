----------------------------- MODULE MCListing -----------------------------
(***************************************************************************)
(* The instance of Listing for TLC.                                        *)
(***************************************************************************)
EXTENDS Listing
=============================================================================
