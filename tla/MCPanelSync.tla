--------------------------- MODULE MCPanelSync ---------------------------
(* The control panel's transcript on a small instance.                     *)
EXTENDS PanelSync
=============================================================================
