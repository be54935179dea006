------------------------- MODULE ScheduleRefinement -------------------------
(***************************************************************************)
(* Schedule implements CallSchedule.  The pending call of a pair is the    *)
(* entry of the height index at the height the name index holds for it.    *)
(* A halted chain stays in the middle of closing its block.                *)
(***************************************************************************)
EXTENDS Schedule

CONSTANTS
    None        \* no pending call

ASSUME RefinementAssumption == None \notin [at : Nat, body : Bodies]

Horizon == CHOOSE u \in UpperBounds : \A v \in UpperBounds : v <= u

PendingCall(p) ==
    LET h == BlockHeightForSignerContract(store, p[1], p[2])
        k == MakeScheduledCallByBlockHeightKey(h, p[1], p[2])
    IN  IF k \in DOMAIN store.byHeight
        THEN [at |-> h, body |-> store.byHeight[k].body]
        ELSE None

Calls == INSTANCE CallSchedule
    WITH pending <- [p \in Pairs |-> PendingCall(p)],
         now     <- height,
         closing <- (phase # "deliver")

\* To its users the module is the abstract scheduler: every message, iterator
\* step and block boundary is a step of it or invisible.
ImplementsCallSchedule == Calls!Spec
=============================================================================
