-------------------------- MODULE MCDecisionPlane --------------------------
(***************************************************************************)
(* The values of DecisionPlane's constants for TLC that are not plain sets. *)
(***************************************************************************)
EXTENDS DecisionPlane

\* The one symbol is ranked every session, the other ticker perhaps in the first.
OfferedSets == [d \in 1..MaxDay |-> IF d = 1 THEN {Symbol, Ticker} ELSE {Symbol}]
EnteredSignals == {1, 2, 4} \X Symbol

\* The rows an intraday cycle may observe: each branch of _derive_state.
Quiet == [live |-> FALSE, armed |-> TRUE, negative |-> FALSE, price |-> "between",
          triggered |-> FALSE, holds |-> TRUE, strong |-> FALSE]
Base == [Quiet EXCEPT !.live = TRUE]
Up == [Base EXCEPT !.triggered = TRUE]
Observed ==
  {Quiet, Base, Up, [Up EXCEPT !.strong = TRUE], [Up EXCEPT !.holds = FALSE],
   [Up EXCEPT !.price = "target"], [Base EXCEPT !.price = "stopped"],
   [Base EXCEPT !.negative = TRUE, !.price = "target"]}

\* Cohorts in favour of the higher threshold, against it, above the target, and none.
Outcomes == {{<<1, FALSE>>, <<2, TRUE>>}, {<<1, TRUE>>, <<2, FALSE>>}, {<<2, TRUE>>}, {}}

\* Rows that meet each limit of the allocator: a ticker twice, a crowded sector
\* and theme, a price and a risk too large for a share, and one that is not ranked.
Row(t, s, th, e, r) ==
  [ticker |-> t, sector |-> s, theme |-> th, ranked |-> TRUE, entry |-> e, risk |-> r]
Ranked ==
  {Row("a", "s", "x", 5, 1), Row("a", "s", "x", 9, 4), Row("b", "s", "y", 12, 2),
   Row("c", "s", "z", 4, 3), Row("d", "u", "x", 21, 2), Row("e", "u", "x", 6, 2),
   Row("f", "v", "w", 7, 5), [Row("g", "v", "w", 3, 1) EXCEPT !.ranked = FALSE]}
=============================================================================
