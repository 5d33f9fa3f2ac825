------------------------------- MODULE MCIngest -------------------------------
(***************************************************************************)
(* A source of three messages, one more than a batch holds, of which the   *)
(* second does not parse.                                                  *)
(***************************************************************************)
EXTENDS Ingest

MCLog == <<"m1", "m2", "m3">>

MCPoison == {"m2"}

===============================================================================
