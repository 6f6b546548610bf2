-------------------------- MODULE PaperAllocation --------------------------
(***************************************************************************)
(* The V7 paper allocator (v7/allocator.py, v7_allocator.py): one pass over *)
(* the candidates of V6, best score first, that gives each a number of      *)
(* shares within what risk, concentration and position limits leave.        *)
(*                                                                          *)
(* Money is in whole units.  "ranked" stands for the gates a row passes or   *)
(* fails by itself: a ticker, V6's decision and confidence, risk-reward,     *)
(* the lower probability and a stop below the entry.                         *)
(***************************************************************************)
EXTENDS Naturals, Sequences, FiniteSets

CONSTANTS
  Candidates,    \* rows [ticker, sector, theme, ranked, entry, risk]
  MaxRows,
  MaxPositions, MaxSectorPositions, MaxThemePositions,
  RiskBudget, TotalRiskLimit, MaxNotional

\* What the constants are assumed to be; an instance assumes it.
LimitsAssumption ==
  {MaxRows, MaxPositions, MaxSectorPositions, MaxThemePositions,
   RiskBudget, TotalRiskLimit, MaxNotional} \subseteq Nat
RowsAssumption == \A c \in Candidates : {c.entry, c.risk} \subseteq Nat /\ c.entry > c.risk /\ c.risk > 0

VARIABLES
  validated,  \* V6 is VALIDATED_SHADOW
  rows,       \* v6_ranked_candidates, by score
  next,       \* the row to be considered
  selected,   \* the plan: [row, shares]
  totalRisk

vars == <<validated, rows, next, selected, totalRisk>>

\* seen_tickers, sector_counts and theme_counts: the positions that share a field.
Sharing(plan, field, value) == {i \in DOMAIN plan : plan[i].row[field] = value}
Held(field, value) == Cardinality(Sharing(selected, field, value))

\* Mutant: the whole budget of a position is allowed whatever is left.
BudgetAlone == RiskBudget
AllowedRisk ==
  IF RiskBudget <= TotalRiskLimit - totalRisk THEN RiskBudget ELSE TotalRiskLimit - totalRisk

Shares(row) ==
  LET byRisk == AllowedRisk \div row.risk
      byNotional == MaxNotional \div row.entry
  IN IF byRisk <= byNotional THEN byRisk ELSE byNotional

Accepted(row) ==
  /\ Len(selected) < MaxPositions
  /\ Held("ticker", row.ticker) = 0
  /\ row.ranked
  /\ Held("sector", row.sector) < MaxSectorPositions
  /\ Held("theme", row.theme) < MaxThemePositions
  /\ Shares(row) >= 1

-----------------------------------------------------------------------------
Init ==
  /\ validated \in BOOLEAN
  /\ rows \in UNION {[1..n -> Candidates] : n \in 0..MaxRows}
  /\ next = 1 /\ selected = <<>> /\ totalRisk = 0

Consider ==
  /\ validated /\ next <= Len(rows)
  /\ LET row == rows[next] IN
       IF Accepted(row)
       THEN /\ selected' = Append(selected, [row |-> row, shares |-> Shares(row)])
            /\ totalRisk' = totalRisk + Shares(row) * row.risk
       ELSE UNCHANGED <<selected, totalRisk>>
  /\ next' = next + 1
  /\ UNCHANGED <<validated, rows>>

Next == Consider
Spec == Init /\ [][Next]_vars

-----------------------------------------------------------------------------
Risks(plan) == [i \in DOMAIN plan |-> plan[i].shares * plan[i].row.risk]
Sum(numbers) ==
  LET sum[i \in 0..Len(numbers)] == IF i = 0 THEN 0 ELSE sum[i - 1] + numbers[i]
  IN  sum[Len(numbers)]
AtMost(plan, field, n) ==
  \A i \in DOMAIN plan : Cardinality(Sharing(plan, field, plan[i].row[field])) <= n

\* What AllocationSettings asks of a plan.
Within(plan) ==
  /\ Len(plan) <= MaxPositions
  /\ AtMost(plan, "ticker", 1)
  /\ AtMost(plan, "sector", MaxSectorPositions)
  /\ AtMost(plan, "theme", MaxThemePositions)
  /\ Sum(Risks(plan)) <= TotalRiskLimit
  /\ \A i \in DOMAIN plan : /\ plan[i].shares * plan[i].row.risk <= RiskBudget
                             /\ plan[i].shares * plan[i].row.entry <= MaxNotional

\* The plan keeps every limit, and one pass is enough: no ranked row that was
\* turned down on the way could still be given a single share at the end
\* (v7/allocator.py, lines 88-127).
PlanIsMaximal ==
  /\ Within(selected)
  /\ validated /\ next > Len(rows) =>
       \A i \in 1..Len(rows) :
         rows[i].ranked => ~Within(Append(selected, [row |-> rows[i], shares |-> 1]))
=============================================================================
