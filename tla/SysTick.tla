------------------------------ MODULE SysTick ------------------------------
(***************************************************************************)
(* systick_poll_timeout (dev/soc/arm_cm/systick.c), by which every polling  *)
(* call of the drivers waits: a counter that runs down from 2^24 - 1 and    *)
(* around, read now and then, tells when so many ticks have passed since    *)
(* start.  The ticks between two reads depend on the interrupts.            *)
(***************************************************************************)
EXTENDS Integers

CONSTANTS
    Half,       \* 2^23, half a turn of the counter
    Turns,      \* 2^8: the turns in a uint32_t
    Stride,     \* the ticks between two reads, at most
    Timeouts,   \* what the callers wait for: Timeout * SDK_PCLK_MHZ * 1000
    EndSeen     \* TRUE: only waits whose end no read can miss (see Start)

Turn == 2 * Half

\* A sum that does not fit a uint32_t is left to the callers, as in the code.
ASSUME SysTickAssumption ==
    /\ Half \in Nat \ {0} /\ Stride \in 1 .. Half /\ Turns \in Nat \ {0}
    /\ Timeouts \subseteq 0 .. (Turns - 1) * Turn
    /\ EndSeen \in BOOLEAN

VARIABLES
    start, timeout,   \* start_tick, timeout
    turns,            \* i: turns left to count
    bottom,           \* wrap_stat = COUNTING_BOTTOM_HALF
    wait,             \* where the function is: "turns" or "end", its loops, or "no"
    now, entered,     \* history: ticks since start, and when the function was called
    expired           \* history: the last wait has ended by its timeout

tickVars == <<start, timeout, turns, bottom, wait, now, entered, expired>>

-----------------------------------------------------------------------------
\* systick_get_value, t ticks after start.
Counter(t) == (start - t) % Turn

\* systick_time_diff(a, b) < 0
Negative(a, b) == (b - a) % Turn >= Half

\* end, counted from the reload before s, and end_tick.
EndOf(s, t) == (Turn - 1 - s + t) % (Turns * Turn)
EndTick(s, t) == Turn - 1 - (EndOf(s, t) % Turn)

\* The function is entered; poll is called first.
Enter_OneTurnMore(s, t, at) ==
    /\ turns' = EndOf(s, t) \div Turn + 1
    /\ bottom' = FALSE
    /\ wait' = "turns"
    /\ entered' = at /\ expired' = FALSE

Enter(s, t, at) ==
    /\ turns' = EndOf(s, t) \div Turn
    /\ bottom' = FALSE
    /\ wait' = IF turns' > 0 THEN "turns" ELSE "end"
    /\ entered' = at /\ expired' = FALSE

\* The caller reads the counter, and waits for the first time.  A wait that is to end less than
\* Stride ticks above the counter's zero may miss its end, and then goes on for a turn or more.
Start ==
    /\ start' \in 0 .. Turn - 1 /\ timeout' \in Timeouts /\ now' = 0
    /\ EndSeen => EndTick(start', timeout') >= Stride - 1
    /\ Enter(start', timeout', 0)

\* poll has returned TRUE, and the caller waits for something else, ...
Again == Enter(start, timeout, now) /\ UNCHANGED <<start, timeout, now>>

\* ... or for nothing, and its variables are gone.
Stop ==
    /\ start' = 0 /\ timeout' = 0 /\ turns' = 0 /\ bottom' = FALSE /\ wait' = "no"
    /\ now' = 0 /\ entered' = 0 /\ expired' = FALSE

Pass == now' \in now + 1 .. now + Stride

\* poll has returned FALSE: wrapping_check.
CountTurn_EveryHalf ==
    /\ wait = "turns" /\ Pass
    /\ bottom' = Negative(Counter(now'), start)
    /\ turns' = IF bottom # bottom' THEN turns - 1 ELSE turns
    /\ wait' = IF turns' > 0 THEN "turns" ELSE "end"
    /\ UNCHANGED <<start, timeout, entered, expired>>

CountTurn ==
    /\ wait = "turns" /\ Pass
    /\ bottom' = Negative(Counter(now'), start)
    /\ turns' = IF bottom /\ ~bottom' THEN turns - 1 ELSE turns
    /\ wait' = IF turns' > 0 THEN "turns" ELSE "end"
    /\ UNCHANGED <<start, timeout, entered, expired>>

\* The same in the loop that waits for the end within a turn.
AwaitEnd ==
    /\ wait = "end" /\ Pass
    /\ expired' = (Counter(now') <= EndTick(start, timeout))
    /\ wait' = IF expired' THEN "no" ELSE "end"
    /\ UNCHANGED <<start, timeout, turns, bottom, entered>>

\* What happens while the caller waits and poll says no.
NotYet == CountTurn \/ AwaitEnd

TickInit ==
    /\ start = 0 /\ timeout = 0 /\ turns = 0 /\ bottom = FALSE /\ wait = "no"
    /\ now = 0 /\ entered = 0 /\ expired = FALSE

-----------------------------------------------------------------------------
(* Properties. *)

\* No call gives up before its time: not when the counter wraps between two reads, nor when a
\* caller waits again with the start it has waited from before.
NotEarly == expired => now >= timeout

\* Nor does a wait last more than two turns over its time.  It may take one more turn than it
\* should: end counts turns from the reload before start, wrapping_check from start.
WaitBounded == wait # "no" \/ expired => now - entered < timeout + 2 * Turn
=============================================================================
