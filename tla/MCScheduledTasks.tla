------------------------- MODULE MCScheduledTasks -------------------------
(***************************************************************************)
(* Instances of ScheduledTasks for TLC.  Each cfg picks definitions, wall  *)
(* clocks and budgets from here.                                           *)
(***************************************************************************)
EXTENDS ScheduledTasks, TLC

CONSTANTS a, b, c, refiner

\* An ordinary zone: every minute has its own wall-clock key.
PlainWall == [m \in 0..MaxMinute |-> m]

\* The fall-back hour, in miniature: the last minute shows the wall-clock time of
\* the one before it once more.
FallBackWall == [m \in 0..MaxMinute |-> IF m = MaxMinute THEN m - 1 ELSE m]

\* A cron schedule matching the wall-clock minutes in `due'.
Cron(due) ==
    [kind |-> "cron", due |-> due \cap Keys, runAt |-> 0, startAt |-> NoTime, endAt |-> NoTime,
     maxRuns |-> NoTime, overlap |-> "parallel", catchUp |-> "skip", action |-> "spawn",
     order |-> NoOrder, planOk |-> TRUE]

Once(at) == [Cron({}) EXCEPT !.kind = "once", !.runAt = at]

Budget(manual, edit, delete, create, crash, grant, scanner) ==
    [op \in Ops |-> CASE op = "manual" -> manual [] op = "edit" -> edit
                      [] op = "delete" -> delete [] op = "create" -> create
                      [] op = "crash" -> crash [] op = "grant" -> grant
                      [] op = "scanner" -> scanner]

NoOrders == {}
NoReservations == [o \in {} |-> 0]

-----------------------------------------------------------------------------
(* clock: two schedules in the hour that repeats, a manual run, a crash,   *)
(* dispatches of any length.                                               *)
ClockA == [Cron({0, 1, 2}) EXCEPT !.maxRuns = 2, !.action = "epic-start"]
ClockB == [Cron({1}) EXCEPT !.action = "board-sweep"]
ClockInitial == a :> ClockA @@ b :> ClockB
ClockConfs == {ClockA, ClockB}
ClockLimits == Budget(1, 0, 0, 0, 1, 1, 0)

(* edits: PATCH and DELETE racing fires; a plan that cannot be built and   *)
(* an expression that no longer parses.                                    *)
EditGood == [Cron({0, 1, 2}) EXCEPT !.overlap = "skip"]
EditBad  == [Cron({1, 2}) EXCEPT !.planOk = FALSE]
EditInitial == a :> EditGood
EditConfs == {EditGood, EditBad}
EditLimits == Budget(1, 1, 0, 0, 1, 0, 0)

(* seats: three schedules due together for two seats, two of them under an *)
(* order with one reserved seat, an edit that may move a schedule in or out *)
(* of that order, manual fires and a crash.                                 *)
SeatRefiner == [Cron({1}) EXCEPT !.order = refiner, !.action = "epic-start"]
SeatPlain == [SeatRefiner EXCEPT !.order = NoOrder]
SeatInitial == a :> SeatRefiner @@ b :> SeatRefiner @@ c :> SeatPlain
SeatBroken == [SeatPlain EXCEPT !.kind = "bad"]
SeatConfs == {SeatRefiner, SeatPlain, SeatBroken}
SeatLimits == Budget(0, 1, 1, 0, 1, 0, 1)
RefinerOrders == {refiner}
OneSeat == [o \in RefinerOrders |-> 1]

(* outage: an expiring cron with catch-up `once', and another one or a     *)
(* one-shot created at any moment, across a crash.                         *)
OutageCatch == [Cron({0, 1}) EXCEPT !.catchUp = "once", !.action = "epic-start", !.endAt = 2]
OutageOnce  == [Once(1) EXCEPT !.startAt = 1]
OutageInitial == a :> OutageCatch
OutageConfs == {OutageCatch, OutageOnce}
OutageLimits == Budget(0, 0, 0, 1, 1, 0, 0)
=============================================================================
