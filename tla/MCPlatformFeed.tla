---------------------------- MODULE MCPlatformFeed ----------------------------
(* The instance of PlatformFeed for TLC.                                      *)
EXTENDS PlatformFeed, TLC

CONSTANTS e1, e2

\* The second event reports the completion of the first again, or another one.
RivalsOrNot == {e1 :> "p1" @@ e2 :> p : p \in {"p1", "p2"}}
=============================================================================
