------------------------------- MODULE MCTriage -------------------------------
(***************************************************************************)
(* Four kinds of events of two actors: the two weakest severities of an    *)
(* unknown source, on both sides of the default threshold, an event that   *)
(* is always kept, and one of a known-good account.                        *)
(***************************************************************************)
EXTENDS Triage

Event(i, s, v, p) == [identity |-> i, source |-> s, severity |-> v, privileged |-> p]

MCEventKinds ==
  {Event("alice", "unknown", "info", FALSE), Event("alice", "unknown", "low", FALSE),
   Event("alice", "crowdstrike", "info", TRUE), Event("ci-bot", "aws", "high", FALSE)}

MCKnownGood == {"ci-bot"}

===============================================================================
