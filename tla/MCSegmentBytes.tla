----------------------------- MODULE MCSegmentBytes ----------------------------
(* SegmentBytes with the empty key, one of two bytes, and a value that      *)
(* encode refuses.                                                          *)
EXTENDS SegmentBytes

MCKeyBytes == {<<>>, <<0>>, <<0, 1>>, <<1>>}
MCValBytes == {<<>>, <<1>>, <<0, 0, 0>>}
MCMagic == <<5>>

(* A record and a shorter file, in which the length of a key of one byte,  *)
(* read one byte too early, is that of the rest of the file.               *)
FooterKeys == {<<>>, <<1>>}
FooterValues == {<<>>}
=============================================================================
