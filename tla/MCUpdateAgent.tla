--------------------------- MODULE MCUpdateAgent ---------------------------
(* Constants of the model-checking runs of UpdateAgent.                     *)
EXTENDS UpdateAgent

\* The configurations: auto-updates on (downgrades allowed or not) or off.
AnyConfig == [enabled : BOOLEAN, allow_downgrade : BOOLEAN]
Enabled == [enabled : {TRUE}, allow_downgrade : {FALSE}]
=============================================================================
