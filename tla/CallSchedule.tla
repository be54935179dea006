---------------------------- MODULE CallSchedule ----------------------------
(***************************************************************************)
(* What the scheduler promises its users, without its store: each pair of  *)
(* a signer and a contract has at most one pending call; a pending call is *)
(* taken up in the block it names, not earlier, not later and not twice;   *)
(* taking it up either drops it or makes it pending, with the same body,   *)
(* in a later block no further than Horizon ahead.                         *)
(***************************************************************************)
EXTENDS Naturals

CONSTANTS
    Pairs,      \* who has scheduled what: a signer and a contract
    Bodies,     \* call bodies
    Horizon,    \* how many blocks ahead a call may be scheduled
    None        \* no pending call

VARIABLES
    pending,    \* each pair's pending call, or None
    now,        \* the current block
    closing     \* are the calls of this block being taken up?

vars == <<pending, now, closing>>

Due(p) == LET call == pending[p] IN call # None /\ call.at = now

Init ==
    /\ pending = [p \in Pairs |-> None]
    /\ now = 1
    /\ closing = FALSE

\* A call is scheduled; it replaces the pair's pending call, if any.
Schedule(p, body, h) ==
    /\ ~closing
    /\ h \in now + 1 .. now + Horizon
    /\ pending' = [pending EXCEPT ![p] = [at |-> h, body |-> body]]
    /\ UNCHANGED <<now, closing>>

Cancel(p) ==
    /\ ~closing
    /\ pending' = [pending EXCEPT ![p] = None]
    /\ UNCHANGED <<now, closing>>

Close ==
    /\ ~closing
    /\ closing' = TRUE
    /\ UNCHANGED <<pending, now>>

\* A due call is skipped, fails, or runs for the last time.
TakeUp(p) ==
    /\ closing
    /\ Due(p)
    /\ pending' = [pending EXCEPT ![p] = None]
    /\ UNCHANGED <<now, closing>>

\* A due call runs and asks to be called again.
TakeUpAgain(p, h) ==
    /\ closing
    /\ Due(p)
    /\ h \in now + 1 .. now + Horizon
    /\ pending' = [pending EXCEPT ![p].at = h]
    /\ UNCHANGED <<now, closing>>

Tick ==
    /\ closing
    /\ \A p \in Pairs : ~Due(p)
    /\ now' = now + 1
    /\ closing' = FALSE
    /\ UNCHANGED pending

Next ==
    \/ \E p \in Pairs : TakeUp(p)
    \/ \E p \in Pairs, h \in now + 1 .. now + Horizon : TakeUpAgain(p, h)
    \/ Tick
    \/ Close
    \/ \E p \in Pairs, body \in Bodies, h \in now + 1 .. now + Horizon :
          Schedule(p, body, h)
    \/ \E p \in Pairs : Cancel(p)

Spec == Init /\ [][Next]_vars
=============================================================================
