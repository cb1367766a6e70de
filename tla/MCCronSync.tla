----------------------------- MODULE MCCronSync -----------------------------
EXTENDS CronSync, TLC

CONSTANTS r1, r2, hourly, daily, broken

Same == Permutations({r1, r2}) \cup Permutations({hourly, daily})
=============================================================================
