------------------------------- MODULE MCSmoke -------------------------------
(***************************************************************************)
(* The smoke test with an upload that is sent up to three times: one that  *)
(* is answered at once, one that never is, and repeated ones of which any  *)
(* may be carried out late.                                                *)
(***************************************************************************)
EXTENDS SmokeTest
=============================================================================
