--------------------------- MODULE MCPongGame ---------------------------
(* PongGame for TLC: the code's numbers in a smaller court.  As in the     *)
(* code no position of the ball or the bat is exactly on a limit.          *)
EXTENDS PongGame

ASSUME NothingOnALimit ==
    /\ Top % Speed # 0 /\ Side % Speed # 0
    /\ Top % BatStep # 0
=========================================================================
