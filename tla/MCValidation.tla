---------------------------- MODULE MCValidation ----------------------------
(***************************************************************************)
(* Validation for TLC: two simulators of a leaking variant, of which the   *)
(* second shows the secret in its trace only, and a variant whose second   *)
(* simulator is flaky.                                                     *)
(***************************************************************************)
EXTENDS Validation

Seen(shown) == {[shown |-> shown, events |-> "user-load"]}
Traced(secret) ==
  {[shown |-> 0, events |-> IF secret = 1 THEN "transient-load" ELSE "user-load"]}
Flaky == {[shown |-> 0, events |-> events] : events \in {"user-load", "transient-load"}}

MCOutput ==
  [v \in {"transient", "repaired"} |-> [s \in {"sha1", "sha2"} |-> [secret \in {0, 1} |->
     CASE v = "transient" /\ s = "sha1" -> Seen(secret)
       [] v = "transient" /\ s = "sha2" -> Traced(secret)
       [] v = "repaired" /\ s = "sha2" -> Flaky
       [] OTHER -> Seen(0)]]]
=============================================================================
