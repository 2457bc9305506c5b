--------------------------- MODULE MCDescriptions ---------------------------
(***************************************************************************)
(* Small instances of Descriptions.                                        *)
(***************************************************************************)
EXTENDS Descriptions
=============================================================================
