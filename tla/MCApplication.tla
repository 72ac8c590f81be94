---------------------------- MODULE MCApplication ----------------------------
(***************************************************************************)
(* Prices 0 and 1, single or double quantities; two leaves, whose fields   *)
(* are counted up by one until they wrap.                                  *)
(***************************************************************************)
EXTENDS Application

MCPrices == 0 .. 1
==============================================================================
