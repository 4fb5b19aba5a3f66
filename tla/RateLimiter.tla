------------------------------- MODULE RateLimiter -------------------------------
(***************************************************************************)
(* The global fixed-window limiter of crates/server/src/limit.rs.  Every   *)
(* request passes it first, whatever it asks and whoever asks it.  A       *)
(* window starts with the first request that comes after the last one is   *)
(* over; max = 0 switches the limiter off.                                 *)
(***************************************************************************)
EXTENDS Naturals, Sequences

CONSTANTS
    Limit,     \* the limits a configuration may set
    Window,    \* length of a window, in ticks
    MaxTime    \* bound: ticks of the clock

ASSUME LimiterAssumption ==
    /\ Limit \subseteq Nat
    /\ Window \in Nat \ {0}
    /\ MaxTime \in Nat

VARIABLES
    max,       \* max
    now,       \* the clock
    window,    \* window_start: when it began and how many it admitted
    admitted   \* history: when each request a limiter that is on admitted came

limiterVars == <<max, now, window, admitted>>

LimiterInit ==
    /\ max \in Limit
    /\ now = 0
    /\ window = [start |-> 0, count |-> 0]
    /\ admitted = <<>>

\* RateLimiter::new, of the next process.
LimiterReset ==
    /\ max' \in Limit
    /\ now' = 0
    /\ window' = [start |-> 0, count |-> 0]
    /\ admitted' = <<>>

\* The window a request at this tick is counted in.
Current == IF now - window.start >= Window THEN [start |-> now, count |-> 0] ELSE window

\* Mutant: the request that fills the window lets one more through.
MutFull == Current.count > max

Full == Current.count >= max

\* check() returns true.
Admit ==
    /\ max = 0 \/ ~Full
    /\ IF max = 0
         THEN UNCHANGED <<window, admitted>>
         ELSE /\ window' = [Current EXCEPT !.count = @ + 1]
              /\ admitted' = Append(admitted, now)
    /\ UNCHANGED <<max, now>>

\* check() returns false: 429.
TooManyRequests ==
    /\ max > 0 /\ Full
    /\ window' = Current
    /\ UNCHANGED <<max, now, admitted>>

Tick ==
    /\ now < MaxTime
    /\ now' = now + 1
    /\ UNCHANGED <<max, window, admitted>>

\* A fixed window bounds a sliding one by twice its limit: of 2 * max + 1 requests let
\* through one after the other, the last came at least a window after the first, so no
\* stretch of time as long as a window, however it straddles two of them, has more.
SlidingBound ==
    max > 0 =>
      \A i, j \in DOMAIN admitted : j = i + 2 * max => admitted[j] >= admitted[i] + Window
================================================================================
