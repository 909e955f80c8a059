---------------------------- MODULE MCMoveWithin ----------------------------
(* MoveWithin on a buffer of N cells, with arguments up to a MaxUsize that    *)
(* leaves room for start + len to wrap.                                      *)
EXTENDS MoveWithin
=============================================================================
