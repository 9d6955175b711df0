----------------------------- MODULE MCFrfMaker -----------------------------
(* The maker at work on the content files of MCTemplate.                   *)
EXTENDS FrfRendering, MCTemplate
=============================================================================
