------------------------ MODULE MCDocumentLifecycle ------------------------
(* Small instances of DocumentLifecycle for TLC.                           *)
EXTENDS DocumentLifecycle
=============================================================================
