---------------------------------- MODULE MCCli ----------------------------------
(* Cli with one word, one unknown option and "".                            *)
EXTENDS Cli
=============================================================================
