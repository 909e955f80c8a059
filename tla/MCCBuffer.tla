------------------------------ MODULE MCCBuffer -----------------------------
(* CBuffer on storages of up to MaxCap bytes.  1 and 2 stand for any two      *)
(* nonzero bytes.  The payloads reach from the empty one to one longer than   *)
(* the longest storage; the sources have a NUL at the front, inside, at the   *)
(* end and nowhere.                                                           *)
EXTENDS CBuffer

MCPayload == {<<>>, <<1>>, <<2, 1>>, <<1, 2, 1>>, <<2, 1, 2, 1>>}

MCSource ==
  {<<>>, <<0>>, <<2>>, <<1, 0>>, <<2, 2>>, <<1, 0, 2>>, <<2, 1, 2, 1>>}
=============================================================================
