---------------------------- MODULE MCMsgWriter ----------------------------
(***************************************************************************)
(* MsgWriter instantiated for TLC: names on both sides of every boundary   *)
(* the encoders test (length 255 and 256, bytes 31, 32, 126 and 127, even  *)
(* and odd lengths), payloads of even and odd length that begin with the   *)
(* byte the padding is made of.                                            *)
(***************************************************************************)
EXTENDS MsgWriter

Repeat(b, n) == [i \in 1..n |-> b]

MCNames ==
    {<<>>, <<65>>, <<32, 126>>, <<65, 66, 67>>, <<31>>, <<65, 127>>,
     Repeat(65, 255), Repeat(65, 256)}

MCPayloads == {<<>>, <<0>>, <<0, 7>>, <<7, 0, 0>>}

MCIdentifiers == {<<1, 2, 3, 4, 5, 6, 7, 8>>}

=============================================================================
