---------------------------- MODULE RouteByRoute ----------------------------
(***************************************************************************)
(* What RailOne promises about the execution of one accepted UTT: routes   *)
(* carry it one at a time, none twice, the next one opens only after the   *)
(* one before is confirmed failed, and it is settled at most once, by the  *)
(* route that carries it, after which nothing changes.                     *)
(***************************************************************************)
EXTENDS Integers

CONSTANTS Routes, NoRoute, MaxAttempts

VARIABLES
    verdict,    \* "undecided", "settled" or "closed" (given up)
    carrying,   \* the routes that may be moving money now
    tried,      \* every route that was ever opened
    opened,     \* how many routes were opened
    settledBy   \* the route that settled it, or NoRoute

abstractVars == <<verdict, carrying, tried, opened, settledBy>>

Init ==
    /\ verdict = "undecided"
    /\ carrying = {}
    /\ tried = {}
    /\ opened = 0
    /\ settledBy = NoRoute

OpenRoute(r) ==
    /\ verdict = "undecided"
    /\ carrying = {}
    /\ r \notin tried
    /\ opened < MaxAttempts
    /\ carrying' = {r}
    /\ tried' = tried \cup {r}
    /\ opened' = opened + 1
    /\ UNCHANGED <<verdict, settledBy>>

ConfirmFailure ==
    /\ carrying # {}
    /\ carrying' = {}
    /\ verdict' \in {"undecided", "closed"}
    /\ UNCHANGED <<tried, opened, settledBy>>

ConfirmSuccess ==
    /\ carrying # {}
    /\ carrying' = {}
    /\ verdict' = "settled"
    /\ settledBy' \in carrying
    /\ UNCHANGED <<tried, opened>>

Next == (\E r \in Routes : OpenRoute(r)) \/ ConfirmFailure \/ ConfirmSuccess

Spec == Init /\ [][Next]_abstractVars
=============================================================================
