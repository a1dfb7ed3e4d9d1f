---- MODULE Policy ----
(***************************************************************************)
(* The decision of the policy snapshot about one tool call (policy.js).    *)
(* A snapshot p has                                                        *)
(*   mode, defaultMode       "ENABLED" or "DISABLED"                       *)
(*   seats                   modes of the seats that have one of their own *)
(*   warningPct, hardStopPct thresholds in per cent of a budget            *)
(*   budgets                 budgets of the tools that have one            *)
(*   window, overrides       time windows of the workspace and of seats    *)
(* and a window has starts, expires and grace, in seconds.  Percentages    *)
(* are compared exactly and are whole; the code admits fractions and       *)
(* divides in floating point.                                              *)
(***************************************************************************)
EXTENDS Integers

Modes == {"ENABLED", "DISABLED"}

\* validateTimeWindow
ValidWindow(w) ==
  /\ {w.starts, w.expires, w.grace} \subseteq Nat \ {0}
  /\ w.starts <= w.expires /\ w.expires <= w.grace

ValidPolicy(p) ==
  /\ p.mode \in Modes
  /\ p.defaultMode \in Modes
  /\ \A s \in DOMAIN p.seats : p.seats[s] \in Modes
  /\ p.warningPct \in Nat /\ p.hardStopPct \in Nat
  /\ p.warningPct <= p.hardStopPct
  /\ \A t \in DOMAIN p.budgets : p.budgets[t] \in Nat \ {0}
  /\ ValidWindow(p.window)
  /\ \A s \in DOMAIN p.overrides : ValidWindow(p.overrides[s])

Later(a, b) == IF a > b THEN a ELSE b
Earlier(a, b) == IF a < b THEN a ELSE b

\* Mutant: a seat's own window replaces that of the workspace.
EffectiveWindow_SeatWins(p, s) ==
  IF s \in DOMAIN p.overrides THEN p.overrides[s] ELSE p.window

\* The window of a seat can only narrow that of the workspace.
EffectiveWindow(p, s) ==
  IF s \notin DOMAIN p.overrides
    THEN p.window
    ELSE LET w == p.window
             o == p.overrides[s]
         IN [starts |-> Later(w.starts, o.starts),
             expires |-> Earlier(w.expires, o.expires),
             grace |-> Earlier(w.grace, o.grace)]

TimeState(now, w) ==
  IF now < w.starts THEN "NOT_STARTED"
  ELSE IF now <= w.expires THEN "ACTIVE"
  ELSE IF now <= w.grace THEN "GRACE" ELSE "EXPIRED"

\* Whether `actual' calls of tool t are more than pct per cent of its budget.
Exceeds(p, t, actual, pct) == actual * 100 > pct * p.budgets[t]

Reaches(p, t, actual, pct) == actual * 100 >= pct * p.budgets[t]

\* Tools without a budget are not limited.
UsageState(p, t, actual) ==
  IF t \notin DOMAIN p.budgets THEN "NORMAL"
  ELSE IF Exceeds(p, t, actual, p.hardStopPct) THEN "HARD_STOP"
  ELSE IF Reaches(p, t, actual, p.warningPct) THEN "WARNING" ELSE "NORMAL"

SeatMode(p, s) == IF s \in DOMAIN p.seats THEN p.seats[s] ELSE p.defaultMode

Forbids(p, s, time, usage) ==
  \/ p.mode = "DISABLED"
  \/ SeatMode(p, s) = "DISABLED"
  \/ time \in {"NOT_STARTED", "EXPIRED"}
  \/ usage = "HARD_STOP"

PolicyDecision(p, s, time, usage) ==
  IF Forbids(p, s, time, usage) THEN "DENY"
  ELSE IF time = "GRACE" \/ usage = "WARNING"
    THEN "ALLOW_WITH_WARNING" ELSE "ALLOW"

NoPolicy == [mode |-> "NONE"]

\* Mutant: the calls made so far are compared, without the one decided on.
ToolCallDecision_CountOnly(p, s, t, count, now) ==
  IF p = NoPolicy
    THEN "ALLOW"
    ELSE LET w == EffectiveWindow(p, s)
         IN IF ValidWindow(w)
              THEN PolicyDecision(p, s, TimeState(now, w), UsageState(p, t, count))
              ELSE "THROW"

\* Windows that do not meet make the evaluation throw.
ToolCallDecision(p, s, t, count, now) ==
  IF p = NoPolicy
    THEN "ALLOW"
    ELSE LET w == EffectiveWindow(p, s)
         IN IF ValidWindow(w)
              THEN PolicyDecision(p, s, TimeState(now, w),
                                  UsageState(p, t, count + 1))
              ELSE "THROW"

Allowed(d) == d \in {"ALLOW", "ALLOW_WITH_WARNING"}

====
