---------------------------- MODULE AtomicLedger ----------------------------
(***************************************************************************)
(* What the cost ledger promises its callers, without files and locks: a   *)
(* set of entries, each reserved in one step if the budget allows it, and  *)
(* settled at most once.                                                   *)
(***************************************************************************)
EXTENDS Naturals

CONSTANTS
  Ids,
  Amounts, Budget,   \* in one unit of money
  Total(_)           \* the sum of the amounts of a set of entries

VARIABLE entries

Init == entries = {}

Reserve ==
  \E id \in Ids, amount \in Amounts :
    /\ \A entry \in entries : entry.id # id
    /\ Total(entries) + amount <= Budget
    /\ entries' = entries \cup {[id |-> id, state |-> "reserved", amount |-> amount]}

Settle ==
  \E entry \in entries : \E amount \in 0..entry.amount :
    /\ entry.state = "reserved"
    /\ entries' = (entries \ {entry})
                    \cup {[id |-> entry.id, state |-> "settled", amount |-> amount]}

Spec == Init /\ [][Reserve \/ Settle]_entries
=============================================================================
