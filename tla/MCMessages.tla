------------------------------ MODULE MCMessages ------------------------------
(***************************************************************************)
(* Two administrators and two errors of one route, of which the filter     *)
(* remembers one; three messages to the bot; two users, one with two tabs. *)
(***************************************************************************)
EXTENDS Messages

ErrorsDef == {[key |-> "k1", head |-> "r1"], [key |-> "k2", head |-> "r1"]}
UserOfDef == [t \in {"t1", "t2"} |-> "ann"]
=============================================================================
