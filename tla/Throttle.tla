------------------------------ MODULE Throttle ------------------------------
(***************************************************************************)
(* What the rate limiter promises: a meter for every name a caller can     *)
(* have, one more for all callers together, and time that fills them all.  *)
(* No bucket is ever created, refilled on demand or dropped.               *)
(*                                                                         *)
(* A request costs a whole token, and a meter gains Capacity tokens in     *)
(* Window seconds.  Levels are counted in parts of a token, Window parts   *)
(* each, so that every second adds a whole number of them.                 *)
(***************************************************************************)
EXTENDS Integers, Sequences

CONSTANTS Name,        \* API keys, and the name for requests without one
          Everyone,    \* the meter of all callers together
          Capacity,    \* the tokens each meter can hold
          Window,      \* the seconds in which an empty meter fills up
          MaxTime      \* bound: time stops here

Meter == Name \cup {Everyone}

\* What is assumed of the constants: who instantiates this module has to show it.
Metered ==
  /\ Everyone \notin Name
  /\ Capacity \in [Meter -> Nat \ {0}]
  /\ Window \in Nat \ {0}
  /\ MaxTime \in Nat

VARIABLES now,
          level,       \* how full each meter is, in parts of a token
          served       \* history: the times of the requests each meter let pass

vars == <<now, level, served>>

Full(m) == Capacity[m] * Window

Init ==
  /\ now = 0
  /\ level = [m \in Meter |-> Full(m)]
  /\ served = [m \in Meter |-> <<>>]

Filled(m) == IF level[m] + Capacity[m] <= Full(m) THEN level[m] + Capacity[m] ELSE Full(m)

Tick ==
  /\ now < MaxTime
  /\ now' = now + 1
  /\ level' = [m \in Meter |-> Filled(m)]
  /\ UNCHANGED served

\* A request that the meters M let pass.
Charge(M) ==
  /\ \A m \in M : level[m] >= Window
  /\ level' = [m \in Meter |-> IF m \in M THEN level[m] - Window ELSE level[m]]
  /\ served' = [m \in Meter |-> IF m \in M THEN Append(served[m], now) ELSE served[m]]
  /\ UNCHANGED now

Admit(n) == Charge({n, Everyone})

\* A caller over its limit is refused, at the expense of all.
Refuse(n) == level[n] < Window /\ Charge({Everyone})

\* All callers together are over theirs: nothing changes.
RefuseAll == level[Everyone] < Window /\ UNCHANGED vars

Next == Tick \/ RefuseAll \/ \E n \in Name : Admit(n) \/ Refuse(n)

Spec == Init /\ [][Next]_vars

-----------------------------------------------------------------------------
(* Properties *)

TypeOK ==
  /\ now \in 0..MaxTime
  /\ level \in [Meter -> Nat]
  /\ served \in [Meter -> Seq(Nat)]

\* In any stretch of time, however its requests are spread, a meter lets no
\* more pass than it can hold and gains in that stretch.
RateKept ==
  \A m \in Meter : \A j \in DOMAIN served[m] : \A i \in 1..j :
    (j - i + 1) * Window <= Capacity[m] * (Window + served[m][j] - served[m][i])

\* The meter of a caller that was not served for a whole window, the Retry-After
\* of the 429 answer, is full, whatever all the others did meanwhile.  (The meter
\* of all together may be empty then, and refuse.)
Recovers ==
  \A n \in Name :
    (\A i \in DOMAIN served[n] : served[n][i] + Window <= now) => level[n] = Full(n)

\* What a meter holds and what it let pass since some request add up to no more
\* than it can hold and has gained since that request.
Budget ==
  \A m \in Meter :
    /\ level[m] <= Full(m)
    /\ \A i \in DOMAIN served[m] :
         (Len(served[m]) - i + 1) * Window + level[m]
           <= Capacity[m] * (Window + now - served[m][i])

\* A meter has gained what it should since its last request, until it is full.
Regained ==
  \A m \in Meter :
    \/ level[m] = Full(m)
    \/ \E i \in DOMAIN served[m] : level[m] >= Capacity[m] * (now - served[m][i])

\* Together they are inductive, and the rate and the recovery follow.
ThrottleInv == TypeOK /\ Budget /\ Regained /\ RateKept
=============================================================================
