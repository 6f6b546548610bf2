----------------------------- MODULE OutcomeBook -----------------------------
(***************************************************************************)
(* What the V4 outcome ledger promises of each signal's paper trade         *)
(* (docs/V4_ARCHITECTURE.md, "V4.2 outcome evidence"): the entry is fixed   *)
(* once it is booked, and a booked outcome closes the entry as well.        *)
(***************************************************************************)
EXTENDS Naturals

CONSTANTS Signal, Outcome, None

VARIABLE book   \* each signal's [entered |-> time or 0, outcome |-> Outcome or None]

Blank == [entered |-> 0, outcome |-> None]

Init == book = [s \in Signal |-> Blank]

Open(trade) == trade.outcome = None

\* A trade may be entered, closed, or both at once; what is booked stays.
Follows(old, new) ==
  \/ new = old
  \/ /\ Open(old)
     /\ old.entered # 0 => new.entered = old.entered
     /\ new.outcome \in Outcome \cup {None}

\* A save writes the trades of all signals.
Next == \A s \in Signal : Follows(book[s], book'[s])

Spec == Init /\ [][Next]_book
==============================================================================
