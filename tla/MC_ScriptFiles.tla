--------------------------- MODULE MC_ScriptFiles ---------------------------
(* One or two scripts, up to three files kept of each.                      *)
EXTENDS ScriptFiles
=============================================================================
