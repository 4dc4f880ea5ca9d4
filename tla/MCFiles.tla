-------------------------------- MODULE MCFiles --------------------------------
(***************************************************************************)
(* The two kinds of data files, for TLC: the log's bytes, with keys of one *)
(* and two bytes and values of up to two, the longest of which is more     *)
(* than the format allows; and a segment's records, with keys below,       *)
(* between and above those of any file. They do not interact: a behaviour  *)
(* takes the steps of one of them.                                         *)
(***************************************************************************)
EXTENDS WalFile, SegmentFile

MCKeyBytes == {<<0>>, <<1, 2>>}
MCValBytes == {<<>>, <<1, 1>>, <<0, 0, 0>>}
MCKeys == 1..7

VARIABLE part  \* the file that is used

MCInit ==
  /\ part \in {"log", "segment"}
  /\ WalInit /\ Init

MCNext ==
  /\ UNCHANGED part
  /\ \/ part = "log" /\ WalNext /\ UNCHANGED vars
     \/ part = "segment" /\ Next /\ UNCHANGED walVars

MCSpec == MCInit /\ [][MCNext]_<<part, walVars, vars>>
=============================================================================
