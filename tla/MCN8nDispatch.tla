---------------------------- MODULE MCN8nDispatch -----------------------------
(***************************************************************************)
(* Two events, one of them without an event type, and two route tables:    *)
(* one three levels deep, one in which the vendor is a leaf.               *)
(***************************************************************************)
EXTENDS N8nDispatch

RootLogin == [vendor |-> "aws", category |-> "cloudtrail", event |-> "root_login"]
Untyped == [vendor |-> "aws", category |-> "cloudtrail", event |-> "none"]

MCKeys == {RootLogin, Untyped}

MCKeyOf == [e \in Events |-> IF e = "e1" THEN RootLogin ELSE Untyped]

MCTables == {{Event(RootLogin), Default(Vendor(RootLogin))},
             {Vendor(RootLogin)}}

===============================================================================
