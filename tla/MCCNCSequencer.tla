--------------------------- MODULE MCCNCSequencer ---------------------------
(***************************************************************************)
(* Model-checking instance of CNCSequencer: an empty sequence, one of one  *)
(* step and one of three steps, in the order startSequence is called for   *)
(* them by an arbitrary client.                                            *)
(***************************************************************************)
EXTENDS CNCSequencer

MCSeqIDs == {"empty", "one", "three"}
MCStepCount == [s \in MCSeqIDs |->
                  CASE s = "empty" -> 0 [] s = "one" -> 1 [] s = "three" -> 3]
=============================================================================
