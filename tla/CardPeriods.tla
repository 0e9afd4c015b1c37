----------------------------- MODULE CardPeriods -----------------------------
(***************************************************************************)
(* The accounting periods of a card: _rolledPeriodStart of                 *)
(* contracts/src/CardIssuer.sol.  A card here is any record with the       *)
(* fields periodStart, periodDuration and spentInPeriod.                   *)
(***************************************************************************)
EXTENDS Integers

CONSTANT U48        \* number of uint48 values (2^48)

Truncate48(x) == x % U48

\* Mutants of the rollover test: a second early, a second late.
PeriodEndedEarly(c, t) == t >= c.periodStart + c.periodDuration - 1
PeriodEndedLate(c, t) == t > c.periodStart + c.periodDuration

PeriodEnded(c, t) == t >= c.periodStart + c.periodDuration

\* Mutant of the rollover: a period that starts at the charge instead of on the grid.
RolledStartAtCharge(c, t) == IF PeriodEnded(c, t) THEN Truncate48(t) ELSE c.periodStart

\* The period start and the spend that a charge at time t works with.
RolledStart(c, t) ==
    IF PeriodEnded(c, t)
    THEN Truncate48(c.periodStart +
            ((t - c.periodStart) \div c.periodDuration) * c.periodDuration)
    ELSE c.periodStart

RolledSpent(c, t) == IF PeriodEnded(c, t) THEN 0 ELSE c.spentInPeriod

\* `start + c.periodDuration` is checked uint48 arithmetic: beyond the width it
\* reverts, and with it previewSpend and authorizeSpend.
RollOverflows(c) == c.periodStart + c.periodDuration >= U48

=============================================================================
