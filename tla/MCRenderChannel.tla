--------------------------- MODULE MCRenderChannel ---------------------------
(***************************************************************************)
(* RenderChannel with small queues, for TLC.                               *)
(***************************************************************************)
EXTENDS RenderChannel
=============================================================================
