----------------------- MODULE MCRaftReconfiguration -----------------------
(***************************************************************************)
(* A group of one grows to three.                                            *)
(***************************************************************************)
EXTENDS RaftReconfiguration

CONSTANTS a, b, c

Grow == {{a, b, c}}
=============================================================================
