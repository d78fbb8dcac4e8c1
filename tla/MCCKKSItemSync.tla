--------------------------- MODULE MCCKKSItemSync ---------------------------
(* Two items in batches of one or two, two contents.                        *)
EXTENDS CKKSItemSync
=============================================================================
