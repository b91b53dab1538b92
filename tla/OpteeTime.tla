------------------------------- MODULE OpteeTime ------------------------------
(*****************************************************************************)
(* OpteeRpcCmdGetTime (OpteeClientRPC.c): OP-TEE's only clock in the normal  *)
(* world, computed from the performance counter in UINT64 arithmetic.        *)
(*****************************************************************************)
EXTENDS Integers

CONSTANTS
  Freq,       \* ticks of the performance counter per second
  Nanos,      \* NANOS_PER_SEC
  Word,       \* 2^64
  MaxTicks    \* bound on the counter

ASSUME TimeAssumption ==
  /\ Freq \in Nat \ {0} /\ Nanos \in Nat \ {0} /\ Word \in Nat \ {0}
  /\ MaxTicks \in Nat /\ MaxTicks < Word

VARIABLES
  ticks,      \* GetPerformanceCounter ()
  at,         \* the counter when OP-TEE last asked
  value       \* param[0].u.value of the last answer: a seconds, b nanoseconds

timeVars == <<ticks, at, value>>

\* Faulty variant: the division before the product, and no wrapping difference.
GetTimeDividesFirst(t) ==
  LET seconds == t \div Freq
  IN [a |-> seconds, b |-> (((t \div Freq) * Nanos) % Word) - seconds * Nanos]

\* Every operation is on UINT64: the product and the difference wrap.
GetTime(t) ==
  LET seconds == t \div Freq
      nanos   == ((t * Nanos) % Word) \div Freq
  IN [a |-> seconds, b |-> (nanos - seconds * Nanos) % Word]

TimeInit == ticks = 0 /\ at = 0 /\ value = GetTime(0)

\* The counter runs while OP-TEE does not look.
Tick == ticks < MaxTicks /\ ticks' = ticks + 1 /\ UNCHANGED <<at, value>>

OpteeRpcCmdGetTime == at' = ticks /\ value' = GetTime(ticks) /\ UNCHANGED ticks

TimeNext == Tick \/ OpteeRpcCmdGetTime
TimeSpec == TimeInit /\ [][TimeNext]_timeVars

-------------------------------------------------------------------------------
\* Until the product of ticks and NANOS_PER_SEC wraps, OP-TEE's clock is the time
\* since the performance counter started, rounded down to a nanosecond.  (It is not
\* what OpteeClientRPC.c:608-611 promises, "number of seconds and nano seconds since
\* the Epoch, 1970-01-01 00:00:00 +0000 (UTC)": nothing adds the time at which the
\* counter started.)
ExactBeforeWrap ==
  at * Nanos < Word =>
    /\ value.b < Nanos
    /\ (value.a * Nanos + value.b) * Freq <= at * Nanos
    /\ at * Nanos < (value.a * Nanos + value.b + 1) * Freq
===============================================================================
