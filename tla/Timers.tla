-------------------------------- MODULE Timers --------------------------------
(***************************************************************************)
(* What the timer queue promises the drivers in cycle mode, without its     *)
(* table, its pending copy and the cycles owed: timers that each count down *)
(* on their own while guest code runs, and that are served, when they are   *)
(* over, in the order of their deadlines.  Guest code goes on only when no  *)
(* timer is over, or, in an engine that yields, after Limit have been       *)
(* served.                                                                  *)
(***************************************************************************)
EXTENDS Integers

CONSTANTS
    Timer,
    Periodic,   \* timers that are armed again when they have been served
    Delay,      \* what a timer is armed with
    Count,      \* how far they count down at once
    Yields,     \* whether Limit applies
    Limit

VARIABLES
    armed,      \* the timers that count
    left,       \* what is left of each
    phase,      \* "run": guest code; "drain": serving; "handler": in a handler
    serving,    \* the timer whose handler runs
    served      \* handlers called since guest code last ran

timerVars == <<armed, left, phase, serving, served>>

TimersInit ==
    /\ armed \subseteq Timer /\ left \in [Timer -> Int]
    /\ phase = "run" /\ serving \notin Timer /\ served = 0

Over == {i \in armed : left[i] <= 0}

Start(i) ==
    /\ armed' = armed \cup {i}
    /\ \E d \in Delay : left' = [left EXCEPT ![i] = d]

Arm ==
    /\ phase \in {"run", "handler"}
    /\ \E i \in Timer : Start(i)
    /\ UNCHANGED <<phase, serving, served>>

Disarm ==
    /\ phase \in {"run", "handler"}
    /\ \E i \in Timer : armed' = armed \ {i}
    /\ UNCHANGED <<left, phase, serving, served>>

CountDown ==
    /\ phase = "run"
    /\ \E c \in Count : left' = [i \in Timer |-> IF i \in armed THEN left[i] - c ELSE left[i]]
    /\ \/ UNCHANGED <<phase, served>>
       \/ phase' = "drain" /\ served' = 0
    /\ UNCHANGED <<armed, serving>>

(* The earliest of the timers that are over is served *)
Serve ==
    /\ phase = "drain"
    /\ \E i \in Over :
          /\ \A j \in armed : left[i] <= left[j]
          /\ armed' = armed \ {i} /\ serving' = i
    /\ phase' = "handler" /\ served' \in {served, served + 1}
    /\ UNCHANGED left

Return ==
    /\ phase = "handler"
    /\ phase' = "drain" /\ serving' \notin Timer
    /\ IF serving \in Periodic THEN Start(serving) ELSE UNCHANGED <<armed, left>>
    /\ UNCHANGED served

Resume ==
    /\ phase = "drain"
    /\ Over = {} \/ (Yields /\ served >= Limit)
    /\ phase' = "run"
    /\ UNCHANGED <<armed, left, serving, served>>

(* A reset stops every timer and starts one *)
Restart ==
    /\ phase = "handler"
    /\ \E i \in Timer : /\ armed' = {i}
                        /\ \E d \in Delay : left' = [left EXCEPT ![i] = d]
    /\ UNCHANGED <<phase, serving, served>>

TimersNext == Arm \/ Disarm \/ CountDown \/ Serve \/ Return \/ Resume \/ Restart

TimersSpec == TimersInit /\ [][TimersNext]_timerVars
===============================================================================
