--------------------------- MODULE RequestResponse ---------------------------
(***************************************************************************)
(* What running a command sequence promises: its steps are requests made   *)
(* one at a time, each answered before the next is made, the answer        *)
(* credited to the step that asked, until all have been answered.          *)
(***************************************************************************)
EXTENDS Naturals, Sequences

CONSTANT Steps \* number of steps of the sequence

VARIABLES
  sent,    \* number of requests made; requests are numbered from 0
  results, \* <<step, request answered>>, in the order they were recorded
  done     \* the sequence has been declared complete

rrVars == <<sent, results, done>>

RRInit == sent = 0 /\ results = <<>> /\ done = FALSE

Request ==
  /\ sent = Len(results)
  /\ sent < Steps
  /\ sent' = sent + 1
  /\ UNCHANGED <<results, done>>

Response ==
  /\ sent = Len(results) + 1
  /\ results' = Append(results, <<sent - 1, sent - 1>>)
  /\ UNCHANGED <<sent, done>>

Complete ==
  /\ Len(results) = Steps
  /\ ~done
  /\ done' = TRUE
  /\ UNCHANGED <<sent, results>>

RRNext == Request \/ Response \/ Complete

(* Requests are made, answered and the sequence completed without anyone    *)
(* outside having to act.                                                   *)
RRSpec == RRInit /\ [][RRNext]_rrVars /\ WF_rrVars(RRNext)
=============================================================================
