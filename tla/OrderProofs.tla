---------------------------- MODULE OrderProofs -----------------------------
(***************************************************************************)
(* OrderFlow: OneOutcome, NoStrandedReservation and KillSwitch hold for    *)
(* any number of orders, bots and retries.  The first two are not          *)
(* inductive: which handler has already answered, and at which points of   *)
(* the path an order can hold money, must be known (Outcomes,              *)
(* Reservations, Attempts).                                                *)
(*                                                                         *)
(* StopOrders: NeverTwice, ExpiresOnlyAfterTrading and ShutdownLeavesNone  *)
(* hold for any number of stops, accounts, symbols and days.  None is      *)
(* inductive: what a walk still has on its list must not have ended        *)
(* meanwhile (Ticks, Expiries), and a marked session must be one the       *)
(* exchange traded in (Sessions).                                          *)
(***************************************************************************)
EXTENDS OrderFlow, StopOrders, TLAPS

-----------------------------------------------------------------------------
(* The order path *)

\* Only VirtualExecutor answers before the path is over; an order it leaves alone
\* belongs to a bot that is being deleted.
Outcomes ==
    \A o \in Orders :
        /\ terminals[o] <= 1
        /\ terminals[o] = 1 => pc[o] \in {"routing", "ended", "cut"}
        /\ pc[o] = "pricing" => mode = "virtual" /\ kind[o].type = "market"
        /\ pc[o] = "routing" /\ terminals[o] = 1 =>
              mode = "virtual" /\ kind[o].type # "stop" /\ o \notin held
        /\ pc[o] = "routing" /\ terminals[o] = 0 /\ mode = "virtual" /\ kind[o].type # "stop" =>
              bot[BotOf[o]] \in {"unregistered", "deleted"}

\* The points of the path at which an order may hold a reservation.
MayHold == {"reserving", "approved", "pricing", "routing", "queueing", "placing", "sent", "taken",
            "submitted"}

\* A reservation belongs to an order that is past Treasury, or to one that was cut
\* or dropped and whose bot will release it.
Reservations ==
    /\ \A o \in Orders : pc[o] = "quoting" => kind[o].type # "stop"
    /\ \A o \in held :
          /\ kind[o].type # "stop"
          /\ bot[BotOf[o]] # "deleted"
          /\ \/ pc[o] \in MayHold
             \/ pc[o] = "cut" /\ bot[BotOf[o]] = "stopping"
             \/ pc[o] = "dropped" /\ bot[BotOf[o]] = "unregistered"

\* An attempt is counted when it is made, and no order is placed more often.
Attempts ==
    \A o \in Orders :
        /\ placed[o] <= tries[o]
        /\ pc[o] = "placing" => tries[o] <= MaxRetries
        /\ pc[o] \in (Carried \ {"placing", "sent", "taken"}) \cup {"new"} => tries[o] = 0

IInv == TypeOK /\ Outcomes /\ Reservations /\ Attempts

USE FlowAssumption

-----------------------------------------------------------------------------

\* The invariant holds when the server has just started.
LEMMA InitInv == Init => IInv
  BY DEF Init, IInv, TypeOK, Outcomes, Reservations, Attempts, Places, AnyKind

\* Types are kept: the retry counter never passes its limit.
LEMMA TypeStep ==
  ASSUME TypeOK, Attempts, [Next]_vars
  PROVE  TypeOK'
<1>1. ASSUME NEW o \in Orders, Request(o) PROVE TypeOK'
  BY <1>1 DEF Request, Goto, TypeOK, Places, Carried, account
<1>2. ASSUME NEW o \in Orders, Screen(o) PROVE TypeOK'
  BY <1>2 DEF Screen, Ended, Goto, TypeOK, Places, Carried, account
<1>3. ASSUME NEW o \in Orders, Evaluate(o) PROVE TypeOK'
  BY <1>3 DEF Evaluate, Malformed, BuyGuard, RulesRefuse, Ended, Goto, TypeOK, Places, Carried, account
<1>4. ASSUME NEW o \in Orders, Fund(o) PROVE TypeOK'
  BY <1>4 DEF Fund, Ended, Goto, Reserve, TypeOK, Places, Carried, account
<1>5. ASSUME NEW o \in Orders, Quote(o) PROVE TypeOK'
  BY <1>5 DEF Quote, Reserve, Ended, Goto, TypeOK, Places, Carried, account
<1>6. ASSUME NEW o \in Orders, Saved(o) PROVE TypeOK'
  BY <1>6 DEF Saved, Goto, TypeOK, Places, Carried, account
<1>7. ASSUME NEW o \in Orders, Execute(o) PROVE TypeOK'
  BY <1>7 DEF Execute, Goto, VirtualEnd, TypeOK, Places, Carried, account
<1>8. ASSUME NEW o \in Orders, Price(o) PROVE TypeOK'
  BY <1>8 DEF Price, VirtualEnd, Goto, TypeOK, Places, Carried, account
<1>9. ASSUME NEW o \in Orders, Route(o) PROVE TypeOK'
  BY <1>9 DEF Route, Goto, Failed, Ended, TypeOK, Places, Carried, account
<1>10. ASSUME NEW o \in Orders, Gate(o) PROVE TypeOK'
  BY <1>10 DEF Gate, Goto, Failed, Ended, TypeOK, Places, Carried, account
<1>11. ASSUME NEW o \in Orders, Send(o) PROVE TypeOK'
  BY <1>11 DEF Send, Goto, Failed, Ended, TypeOK, Attempts, Places, Carried, account
<1>12. ASSUME NEW o \in Orders, Answer(o) PROVE TypeOK'
  BY <1>12 DEF Answer, Goto, Failed, Ended, TypeOK, Places, account
<1>13. ASSUME NEW o \in Orders, TimesOut(o) PROVE TypeOK'
  BY <1>13 DEF TimesOut, Goto, Failed, Ended, TypeOK, Places, Carried, account
<1>14. ASSUME NEW b \in Bots, StopBot(b) PROVE TypeOK'
  BY <1>14 DEF StopBot, TypeOK, Places, account
<1>15. ASSUME NEW b \in Bots, BotStopped(b) PROVE TypeOK'
  BY <1>15 DEF BotStopped, TypeOK, account
<1>16. ASSUME NEW b \in Bots, StartBot(b) PROVE TypeOK'
  BY <1>16 DEF StartBot, TypeOK, account
<1>17. ASSUME NEW b \in Bots, DeleteBot(b) PROVE TypeOK'
  BY <1>17 DEF DeleteBot, TypeOK, account
<1>18. ASSUME NEW b \in Bots, ReleaseBudget(b) PROVE TypeOK'
  BY <1>18 DEF ReleaseBudget, TypeOK, account
<1>19. ASSUME NEW f \in Flags, MarkNotReady(f) PROVE TypeOK'
  BY <1>19 DEF MarkNotReady, TypeOK
<1>20. ASSUME NEW f \in Flags, MarkReady(f) PROVE TypeOK'
  BY <1>20 DEF MarkReady, TypeOK
<1>21. CASE Suspend
  BY <1>21 DEF Suspend, TypeOK
<1>22. CASE Activate
  BY <1>22 DEF Activate, TypeOK
<1>23. CASE UNCHANGED vars
  BY <1>23 DEF vars, TypeOK, account
<1> QED
  BY <1>1, <1>2, <1>3, <1>4, <1>5, <1>6, <1>7, <1>8, <1>9, <1>10, <1>11, <1>12, <1>13, <1>14,
     <1>15, <1>16, <1>17, <1>18, <1>19, <1>20, <1>21, <1>22, <1>23 DEF Next, Step

\* No second outcome appears.
LEMMA OutcomesStep ==
  ASSUME TypeOK, Outcomes, [Next]_vars
  PROVE  Outcomes'
<1>1. ASSUME NEW o \in Orders, Request(o) PROVE Outcomes'
  BY <1>1 DEF Request, Goto, Outcomes, account
<1>2. ASSUME NEW o \in Orders, Screen(o) PROVE Outcomes'
  BY <1>2 DEF Screen, Ended, Goto, TypeOK, Outcomes, account
<1>3. ASSUME NEW o \in Orders, Evaluate(o) PROVE Outcomes'
  BY <1>3 DEF Evaluate, Malformed, BuyGuard, RulesRefuse, Ended, Goto, TypeOK, Outcomes, account
<1>4. ASSUME NEW o \in Orders, Fund(o) PROVE Outcomes'
  BY <1>4 DEF Fund, Ended, Goto, Reserve, TypeOK, Outcomes, account
<1>5. ASSUME NEW o \in Orders, Quote(o) PROVE Outcomes'
  BY <1>5 DEF Quote, Reserve, Ended, Goto, TypeOK, Outcomes, account
<1>6. ASSUME NEW o \in Orders, Saved(o) PROVE Outcomes'
  BY <1>6 DEF Saved, Goto, Outcomes, account
<1>7. ASSUME NEW o \in Orders, Execute(o) PROVE Outcomes'
  BY <1>7 DEF Execute, Goto, VirtualEnd, Portfolio, TypeOK, Outcomes, account
<1>8. ASSUME NEW o \in Orders, Price(o) PROVE Outcomes'
  <2>1. terminals[o] = 0 /\ mode = "virtual" /\ kind[o].type # "stop"
    BY <1>8 DEF Price, TypeOK, Outcomes
  <2>2. /\ pc' = [pc EXCEPT ![o] = "routing"] /\ held' = held \ {o}
        /\ terminals' = [terminals EXCEPT ![o] = 1]
        /\ UNCHANGED <<mode, kind, bot>>
    BY <1>8, <2>1 DEF Price, VirtualEnd, Goto, account
  <2> QED
    BY <2>1, <2>2 DEF TypeOK, Outcomes
<1>9. ASSUME NEW o \in Orders, Route(o) PROVE Outcomes'
  BY <1>9 DEF Route, Goto, Failed, Ended, TypeOK, Outcomes, account
<1>10. ASSUME NEW o \in Orders, Gate(o) PROVE Outcomes'
  BY <1>10 DEF Gate, Goto, Failed, Ended, TypeOK, Outcomes, account
<1>11. ASSUME NEW o \in Orders, Send(o) PROVE Outcomes'
  BY <1>11 DEF Send, Goto, Failed, Ended, TypeOK, Outcomes, account
<1>12. ASSUME NEW o \in Orders, Answer(o) PROVE Outcomes'
  BY <1>12 DEF Answer, Goto, Failed, Ended, TypeOK, Outcomes, account
<1>13. ASSUME NEW o \in Orders, TimesOut(o) PROVE Outcomes'
  BY <1>13 DEF TimesOut, Goto, Failed, Ended, TypeOK, Outcomes, account
<1>14. ASSUME NEW b \in Bots, StopBot(b) PROVE Outcomes'
  BY <1>14 DEF StopBot, Outcomes, account
<1>15. ASSUME NEW b \in Bots, BotStopped(b) PROVE Outcomes'
  BY <1>15 DEF BotStopped, Outcomes, account
<1>16. ASSUME NEW b \in Bots, StartBot(b) PROVE Outcomes'
  BY <1>16 DEF StartBot, Outcomes, account
<1>17. ASSUME NEW b \in Bots, DeleteBot(b) PROVE Outcomes'
  BY <1>17 DEF DeleteBot, Outcomes, account
<1>18. ASSUME NEW b \in Bots, ReleaseBudget(b) PROVE Outcomes'
  BY <1>18 DEF ReleaseBudget, Outcomes, account
<1>19. ASSUME NEW f \in Flags, MarkNotReady(f) PROVE Outcomes'
  BY <1>19 DEF MarkNotReady, Outcomes
<1>20. ASSUME NEW f \in Flags, MarkReady(f) PROVE Outcomes'
  BY <1>20 DEF MarkReady, Outcomes
<1>21. CASE Suspend
  BY <1>21 DEF Suspend, Outcomes
<1>22. CASE Activate
  BY <1>22 DEF Activate, Outcomes
<1>23. CASE UNCHANGED vars
  BY <1>23 DEF vars, Outcomes, account
<1> QED
  BY <1>1, <1>2, <1>3, <1>4, <1>5, <1>6, <1>7, <1>8, <1>9, <1>10, <1>11, <1>12, <1>13, <1>14,
     <1>15, <1>16, <1>17, <1>18, <1>19, <1>20, <1>21, <1>22, <1>23 DEF Next, Step

\* No reservation is left behind.
LEMMA ReservationsStep ==
  ASSUME TypeOK, Outcomes, Reservations, [Next]_vars
  PROVE  Reservations'
<1>1. ASSUME NEW o \in Orders, Request(o) PROVE Reservations'
  BY <1>1 DEF Request, Goto, Reservations, MayHold
<1>2. ASSUME NEW o \in Orders, Screen(o) PROVE Reservations'
  BY <1>2 DEF Screen, Ended, Goto, TypeOK, Reservations, MayHold
<1>3. ASSUME NEW o \in Orders, Evaluate(o) PROVE Reservations'
  BY <1>3 DEF Evaluate, Malformed, BuyGuard, RulesRefuse, Ended, Goto, TypeOK, Reservations, MayHold
<1>4. ASSUME NEW o \in Orders, Fund(o) PROVE Reservations'
  BY <1>4 DEF Fund, Ended, Goto, Reserve, TypeOK, Reservations, MayHold
<1>5. ASSUME NEW o \in Orders, Quote(o) PROVE Reservations'
  BY <1>5 DEF Quote, Reserve, Ended, Goto, TypeOK, Reservations, MayHold
<1>6. ASSUME NEW o \in Orders, Saved(o) PROVE Reservations'
  BY <1>6 DEF Saved, Goto, Reservations, MayHold
<1>7. ASSUME NEW o \in Orders, Execute(o) PROVE Reservations'
  BY <1>7 DEF Execute, Goto, VirtualEnd, TypeOK, Reservations, MayHold
<1>8. ASSUME NEW o \in Orders, Price(o) PROVE Reservations'
  BY <1>8 DEF Price, VirtualEnd, Goto, Reservations
<1>9. ASSUME NEW o \in Orders, Route(o) PROVE Reservations'
  BY <1>9 DEF Route, Goto, Failed, Ended, TypeOK, Outcomes, Reservations, MayHold, Places
<1>10. ASSUME NEW o \in Orders, Gate(o) PROVE Reservations'
  BY <1>10 DEF Gate, Goto, Failed, Ended, TypeOK, Reservations, MayHold
<1>11. ASSUME NEW o \in Orders, Send(o) PROVE Reservations'
  BY <1>11 DEF Send, Goto, Failed, Ended, TypeOK, Reservations, MayHold
<1>12. ASSUME NEW o \in Orders, Answer(o) PROVE Reservations'
  BY <1>12 DEF Answer, Goto, Failed, Ended, TypeOK, Reservations, MayHold
<1>13. ASSUME NEW o \in Orders, TimesOut(o) PROVE Reservations'
  BY <1>13 DEF TimesOut, Goto, Failed, Ended, TypeOK, Reservations, MayHold
<1>14. ASSUME NEW b \in Bots, StopBot(b) PROVE Reservations'
  BY <1>14 DEF StopBot, TypeOK, Reservations
<1>15. ASSUME NEW b \in Bots, BotStopped(b) PROVE Reservations'
  BY <1>15 DEF BotStopped, Reservations
<1>16. ASSUME NEW b \in Bots, StartBot(b) PROVE Reservations'
  BY <1>16 DEF StartBot, Reservations
<1>17. ASSUME NEW b \in Bots, DeleteBot(b) PROVE Reservations'
  BY <1>17 DEF DeleteBot, Reservations
<1>18. ASSUME NEW b \in Bots, ReleaseBudget(b) PROVE Reservations'
  BY <1>18 DEF ReleaseBudget, Reservations
<1>19. ASSUME NEW f \in Flags, MarkNotReady(f) PROVE Reservations'
  BY <1>19 DEF MarkNotReady, Reservations
<1>20. ASSUME NEW f \in Flags, MarkReady(f) PROVE Reservations'
  BY <1>20 DEF MarkReady, Reservations
<1>21. CASE Suspend
  BY <1>21 DEF Suspend, Reservations
<1>22. CASE Activate
  BY <1>22 DEF Activate, Reservations
<1>23. CASE UNCHANGED vars
  BY <1>23 DEF vars, Reservations
<1> QED
  BY <1>1, <1>2, <1>3, <1>4, <1>5, <1>6, <1>7, <1>8, <1>9, <1>10, <1>11, <1>12, <1>13, <1>14,
     <1>15, <1>16, <1>17, <1>18, <1>19, <1>20, <1>21, <1>22, <1>23 DEF Next, Step

\* Attempts are counted.
LEMMA AttemptsStep ==
  ASSUME TypeOK, Attempts, [Next]_vars
  PROVE  Attempts'
<1>1. ASSUME NEW o \in Orders, Request(o) PROVE Attempts'
  BY <1>1 DEF Request, Goto, Attempts
<1>2. ASSUME NEW o \in Orders, Screen(o) PROVE Attempts'
  BY <1>2 DEF Screen, Ended, Goto, TypeOK, Attempts, Carried
<1>3. ASSUME NEW o \in Orders, Evaluate(o) PROVE Attempts'
  BY <1>3 DEF Evaluate, Malformed, BuyGuard, RulesRefuse, Ended, Goto, TypeOK, Attempts, Carried
<1>4. ASSUME NEW o \in Orders, Fund(o) PROVE Attempts'
  BY <1>4 DEF Fund, Ended, Goto, Reserve, TypeOK, Attempts, Carried
<1>5. ASSUME NEW o \in Orders, Quote(o) PROVE Attempts'
  BY <1>5 DEF Quote, Reserve, Ended, Goto, TypeOK, Attempts, Carried
<1>6. ASSUME NEW o \in Orders, Saved(o) PROVE Attempts'
  BY <1>6 DEF Saved, Goto, Attempts, Carried
<1>7. ASSUME NEW o \in Orders, Execute(o) PROVE Attempts'
  BY <1>7 DEF Execute, Goto, VirtualEnd, TypeOK, Attempts, Carried
<1>8. ASSUME NEW o \in Orders, Price(o) PROVE Attempts'
  BY <1>8 DEF Price, VirtualEnd, Goto, Attempts, Carried
<1>9. ASSUME NEW o \in Orders, Route(o) PROVE Attempts'
  BY <1>9 DEF Route, Goto, Failed, Ended, TypeOK, Attempts, Carried
<1>10. ASSUME NEW o \in Orders, Gate(o) PROVE Attempts'
  BY <1>10 DEF Gate, Goto, Failed, Ended, TypeOK, Attempts, Carried
<1>11. ASSUME NEW o \in Orders, Send(o) PROVE Attempts'
  BY <1>11 DEF Send, Goto, Failed, Ended, TypeOK, Attempts
<1>12. ASSUME NEW o \in Orders, Answer(o) PROVE Attempts'
  BY <1>12 DEF Answer, Goto, Failed, Ended, TypeOK, Attempts, Carried
<1>13. ASSUME NEW o \in Orders, TimesOut(o) PROVE Attempts'
  BY <1>13 DEF TimesOut, Goto, Failed, Ended, TypeOK, Attempts, Carried
<1>14. ASSUME NEW b \in Bots, StopBot(b) PROVE Attempts'
  BY <1>14 DEF StopBot, Attempts, Carried
<1>15. ASSUME NEW b \in Bots, BotStopped(b) PROVE Attempts'
  BY <1>15 DEF BotStopped, Attempts
<1>16. ASSUME NEW b \in Bots, StartBot(b) PROVE Attempts'
  BY <1>16 DEF StartBot, Attempts
<1>17. ASSUME NEW b \in Bots, DeleteBot(b) PROVE Attempts'
  BY <1>17 DEF DeleteBot, Attempts
<1>18. ASSUME NEW b \in Bots, ReleaseBudget(b) PROVE Attempts'
  BY <1>18 DEF ReleaseBudget, Attempts
<1>19. ASSUME NEW f \in Flags, MarkNotReady(f) PROVE Attempts'
  BY <1>19 DEF MarkNotReady, Attempts
<1>20. ASSUME NEW f \in Flags, MarkReady(f) PROVE Attempts'
  BY <1>20 DEF MarkReady, Attempts
<1>21. CASE Suspend
  BY <1>21 DEF Suspend, Attempts
<1>22. CASE Activate
  BY <1>22 DEF Activate, Attempts
<1>23. CASE UNCHANGED vars
  BY <1>23 DEF vars, Attempts
<1> QED
  BY <1>1, <1>2, <1>3, <1>4, <1>5, <1>6, <1>7, <1>8, <1>9, <1>10, <1>11, <1>12, <1>13, <1>14,
     <1>15, <1>16, <1>17, <1>18, <1>19, <1>20, <1>21, <1>22, <1>23 DEF Next, Step

-----------------------------------------------------------------------------

\* The inductive invariant of the order path.
THEOREM FlowInvariant == Spec => []IInv
<1>1. IInv /\ [Next]_vars => IInv'
  BY TypeStep, OutcomesStep, ReservationsStep, AttemptsStep DEF IInv
<1> QED
  BY InitInv, <1>1, PTL DEF Spec

\* An order is never answered twice, although two handlers receive its approval
\* (gateway.py:508), for any number of orders and bots.
THEOREM FlowOneOutcome == Spec => []OneOutcome
<1>1. ASSUME IInv, NEW o \in Orders
      PROVE  /\ terminals[o] <= 1
             /\ pc[o] \in {"submitted", "registered", "dropped"} => terminals[o] = 0
  <2>1. terminals[o] \in Nat /\ terminals[o] <= 1
    BY <1>1 DEF IInv, TypeOK, Outcomes
  <2>2. pc[o] \in {"submitted", "registered", "dropped"} => terminals[o] # 1
    BY <1>1 DEF IInv, Outcomes
  <2> QED
    BY <2>1, <2>2
<1>2. IInv => OneOutcome
  BY <1>1 DEF OneOutcome
<1> QED
  BY FlowInvariant, <1>2, PTL

\* Whatever ends an order gives its reservation back (11-order-flow.md:76).
THEOREM FlowNoStrandedReservation == Spec => []NoStrandedReservation
<1>1. IInv => NoStrandedReservation
  BY DEF IInv, Reservations, MayHold, NoStrandedReservation, Carried
<1> QED
  BY FlowInvariant, <1>1, PTL

\* A step of a blocked account brings no order closer to the market.
LEMMA KillSwitchStep ==
  ASSUME TypeOK, status = "suspended" \/ NotReady, (status = "suspended" \/ NotReady)', [Next]_vars
  PROVE  Reaching' \subseteq Reaching
<1>1. ASSUME NEW o \in Orders, Request(o) PROVE Reaching' \subseteq Reaching
  BY <1>1 DEF Request, Goto, Reaching, NotReady, Exempt
<1>2. ASSUME NEW o \in Orders, Screen(o) PROVE Reaching' \subseteq Reaching
  BY <1>2 DEF Screen, Ended, Goto, TypeOK, Reaching, NotReady, Exempt
<1>3. ASSUME NEW o \in Orders, Evaluate(o) PROVE Reaching' \subseteq Reaching
  BY <1>3 DEF Evaluate, Malformed, BuyGuard, RulesRefuse, Ended, Goto, TypeOK, Reaching, NotReady, Exempt
<1>4. ASSUME NEW o \in Orders, Fund(o) PROVE Reaching' \subseteq Reaching
  BY <1>4 DEF Fund, Ended, Goto, Reserve, TypeOK, Reaching, NotReady, Exempt
<1>5. ASSUME NEW o \in Orders, Quote(o) PROVE Reaching' \subseteq Reaching
  BY <1>5 DEF Quote, Reserve, Ended, Goto, TypeOK, Reaching, NotReady, Exempt
<1>6. ASSUME NEW o \in Orders, Saved(o) PROVE Reaching' \subseteq Reaching
  BY <1>6 DEF Saved, Goto, Reaching, NotReady, Exempt
<1>7. ASSUME NEW o \in Orders, Execute(o) PROVE Reaching' \subseteq Reaching
  BY <1>7 DEF Execute, Goto, VirtualEnd, TypeOK, Reaching, NotReady, Exempt
<1>8. ASSUME NEW o \in Orders, Price(o) PROVE Reaching' \subseteq Reaching
  BY <1>8 DEF Price, VirtualEnd, Goto, Reaching, NotReady, Exempt
<1>9. ASSUME NEW o \in Orders, Route(o) PROVE Reaching' \subseteq Reaching
  BY <1>9 DEF Route, Goto, Failed, Ended, TypeOK, Reaching, NotReady, Exempt
<1>10. ASSUME NEW o \in Orders, Gate(o) PROVE Reaching' \subseteq Reaching
  BY <1>10 DEF Gate, Goto, Failed, Ended, TypeOK, Reaching, NotReady, Exempt
<1>11. ASSUME NEW o \in Orders, Send(o) PROVE Reaching' \subseteq Reaching
  BY <1>11 DEF Send, Goto, Failed, Ended, TypeOK, Reaching, NotReady, Exempt
<1>12. ASSUME NEW o \in Orders, Answer(o) PROVE Reaching' \subseteq Reaching
  BY <1>12 DEF Answer, Goto, Failed, Ended, TypeOK, Reaching, NotReady, Exempt
<1>13. ASSUME NEW o \in Orders, TimesOut(o) PROVE Reaching' \subseteq Reaching
  BY <1>13 DEF TimesOut, Goto, Failed, Ended, TypeOK, Reaching, NotReady, Exempt
<1>14. ASSUME NEW b \in Bots, StopBot(b) PROVE Reaching' \subseteq Reaching
  BY <1>14 DEF StopBot, Reaching, NotReady, Exempt
<1>15. ASSUME NEW b \in Bots, BotStopped(b) PROVE Reaching' \subseteq Reaching
  BY <1>15 DEF BotStopped, Reaching, NotReady, Exempt
<1>16. ASSUME NEW b \in Bots, StartBot(b) PROVE Reaching' \subseteq Reaching
  BY <1>16 DEF StartBot, Reaching, NotReady, Exempt
<1>17. ASSUME NEW b \in Bots, DeleteBot(b) PROVE Reaching' \subseteq Reaching
  BY <1>17 DEF DeleteBot, Reaching, NotReady, Exempt
<1>18. ASSUME NEW b \in Bots, ReleaseBudget(b) PROVE Reaching' \subseteq Reaching
  BY <1>18 DEF ReleaseBudget, Reaching, NotReady, Exempt
<1>19. ASSUME NEW f \in Flags, MarkNotReady(f) PROVE Reaching' \subseteq Reaching
  BY <1>19 DEF MarkNotReady, Reaching, NotReady, Exempt
<1>20. ASSUME NEW f \in Flags, MarkReady(f) PROVE Reaching' \subseteq Reaching
  BY <1>20 DEF MarkReady, Reaching, NotReady, Exempt
<1>21. CASE Suspend
  BY <1>21 DEF Suspend, Reaching, NotReady, Exempt
<1>22. CASE Activate
  BY <1>22 DEF Activate, Reaching, NotReady, Exempt
<1>23. CASE UNCHANGED vars
  BY <1>23 DEF vars, Reaching, NotReady, Exempt
<1> QED
  BY <1>1, <1>2, <1>3, <1>4, <1>5, <1>6, <1>7, <1>8, <1>9, <1>10, <1>11, <1>12, <1>13, <1>14,
     <1>15, <1>16, <1>17, <1>18, <1>19, <1>20, <1>21, <1>22, <1>23 DEF Next, Step

\* A suspended or unready account sends nothing that was not already inside
\* place_order or the price query (gateway.py:91, virtual.py:217).
THEOREM FlowKillSwitch == Spec => KillSwitch
<1>1. IInv /\ [Next]_vars =>
        [/\ status = "suspended" \/ NotReady
         /\ (status = "suspended" \/ NotReady)'
         => Reaching' \subseteq Reaching]_vars
  BY KillSwitchStep DEF IInv
<1> QED
  BY FlowInvariant, <1>1, PTL DEF Spec, KillSwitch

-----------------------------------------------------------------------------
(* The stop orders *)

\* A stop on the list of a tick has not triggered, so it has not been ordered;
\* lists of different accounts hold different stops.
Ticks ==
    /\ \A a \in Accounts :
          /\ tick[a].pc = "idle" => tick[a] = NoTick
          /\ \A s \in tick[a].todo : AccountOf[s] = a /\ s \in book /\ s \notin triggered
          /\ tick[a].pc # "idle" => /\ tick[a].stop \in triggered
                                    /\ AccountOf[tick[a].stop] = a
          /\ tick[a].pc = "notifying" => requests[tick[a].stop] = 0
    /\ \A s \in Stops : /\ requests[s] <= 1
                        /\ s \notin triggered => requests[s] = 0

\* A stop on the list of the sweep or of stop() has not begun to expire; who has
\* begun is announced once; the lists are empty when the manager has stopped.
Expiries ==
    /\ \A s \in Stops :
          /\ notices[s] <= 1
          /\ s \in loop.todo => s \in book /\ s \notin expired /\ inner[s] = "none"
          /\ inner[s] = "created" => s \in book /\ s \notin expired
          /\ inner[s] = "publishing" => s \in expired /\ notices[s] = 0
          /\ s \notin expired => notices[s] = 0
          /\ s \in expired /\ inner[s] = "none" => notices[s] = 1
          /\ life = "run" /\ inner[s] # "none" => loop.stop = s
    /\ life = "closing" => loop = NoLoop
    /\ life = "stopping" =>
          \A s \in book : s \in triggered \/ s \in expired \/ s \in loop.todo \/ inner[s] = "created"
    /\ life \in {"stopped", "down"} =>
          /\ loop = NoLoop
          /\ \A s \in Stops : inner[s] = "none"
          /\ \A s \in book : s \in triggered \/ s \in expired

\* A session that is marked is one the exchange trades in, and what is marked as
\* its member was registered while it did.
Sessions ==
    /\ entered \subseteq exposed
    /\ \A d \in marked : d <= day
    /\ day \in marked => trading
    /\ InSession /\ trading => book \subseteq exposed
    /\ \A s \in Stops : reason[s] = "session_ended" => s \in exposed

StopsIInv == StopsTypeOK /\ Ticks /\ Expiries /\ Sessions

USE StopsAssumption

-----------------------------------------------------------------------------

\* The four parts hold when the manager has just started.
LEMMA StopsInitInv == StopsInit => StopsIInv
<1> SUFFICES ASSUME StopsInit PROVE StopsIInv
  OBVIOUS
<1>1. StopsTypeOK
  BY DEF StopsInit, StopsTypeOK, NoTick, NoLoop
<1>2. Ticks
  BY DEF StopsInit, Ticks, NoTick
<1>3. Expiries
  BY DEF StopsInit, Expiries, NoLoop
<1>4. Sessions
  BY DEF StopsInit, Sessions
<1> QED
  BY <1>1, <1>2, <1>3, <1>4 DEF StopsIInv

-----------------------------------------------------------------------------
\* _trigger_order on a list of untriggered stops of its account keeps the ticks
\* in order.
LEMMA BeginTriggerTicks ==
    ASSUME StopsTypeOK, Ticks, NEW a \in Accounts, NEW todo \in SUBSET book,
           \A s \in todo : AccountOf[s] = a /\ s \notin triggered,
           BeginTrigger(a, todo), book' = book, requests' = requests
    PROVE  /\ Ticks'
           /\ tick' \in [Accounts -> [pc : {"idle", "notifying", "ordering"},
                                     stop : Stops \cup {NoStop}, todo : SUBSET Stops]]
           /\ triggered' \subseteq book
           /\ triggered \subseteq triggered'
<1>1. CASE /\ todo = {}
           /\ tick' = [tick EXCEPT ![a] = NoTick]
           /\ UNCHANGED triggered
  BY <1>1 DEF StopsTypeOK, Ticks, NoTick
<1>2. ASSUME NEW s \in todo, triggered' = triggered \cup {s},
             tick' = [tick EXCEPT ![a] = [pc |-> "notifying", stop |-> s, todo |-> todo \ {s}]]
      PROVE  /\ Ticks'
             /\ tick' \in [Accounts -> [pc : {"idle", "notifying", "ordering"},
                                       stop : Stops \cup {NoStop}, todo : SUBSET Stops]]
             /\ triggered' \subseteq book
             /\ triggered \subseteq triggered'
  <2>1. /\ tick' \in [Accounts -> [pc : {"idle", "notifying", "ordering"},
                                  stop : Stops \cup {NoStop}, todo : SUBSET Stops]]
        /\ triggered' \subseteq book
        /\ triggered \subseteq triggered'
    BY <1>2 DEF StopsTypeOK
  <2>2. /\ tick'[a] = [pc |-> "notifying", stop |-> s, todo |-> todo \ {s}]
        /\ \A b \in Accounts : b # a => tick'[b] = tick[b]
    BY <1>2 DEF StopsTypeOK
  <2>3. requests[s] = 0 /\ AccountOf[s] = a
    BY <1>2 DEF StopsTypeOK, Ticks
  <2>4. ASSUME NEW b \in Accounts
        PROVE  /\ tick'[b].pc = "idle" => tick'[b] = NoTick
               /\ \A t \in tick'[b].todo : AccountOf[t] = b /\ t \in book /\ t \notin triggered'
               /\ tick'[b].pc # "idle" => /\ tick'[b].stop \in triggered'
                                          /\ AccountOf[tick'[b].stop] = b
               /\ tick'[b].pc = "notifying" => requests[tick'[b].stop] = 0
    <3>1. CASE b = a
      BY <3>1, <1>2, <2>2, <2>3
    <3>2. CASE b # a
      BY <3>2, <1>2, <2>2, <2>3 DEF Ticks
    <3> QED
      BY <3>1, <3>2
  <2> QED
    BY <1>2, <2>1, <2>4 DEF Ticks
<1> QED
  BY <1>1, <1>2 DEF BeginTrigger

\* The walk of a sweep keeps the types of what it writes.
LEMMA SweepNextTypes ==
    ASSUME StopsTypeOK, NEW todo \in SUBSET Stops, SweepNext(todo)
    PROVE  /\ inner' \in [Stops -> {"none", "created", "publishing"}]
           /\ reason' \in [Stops -> {"none", "session_ended", "manager_stopped"}]
           /\ loop' \in [stop : Stops \cup {NoStop}, todo : SUBSET Stops]
<1>1. CASE loop' = NoLoop /\ UNCHANGED <<inner, reason>>
  BY <1>1 DEF StopsTypeOK, NoLoop
<1>2. ASSUME NEW s \in todo, Spawn(s, todo, "session_ended")
      PROVE  /\ inner' \in [Stops -> {"none", "created", "publishing"}]
             /\ reason' \in [Stops -> {"none", "session_ended", "manager_stopped"}]
             /\ loop' \in [stop : Stops \cup {NoStop}, todo : SUBSET Stops]
  BY <1>2 DEF StopsTypeOK, Spawn
<1> QED
  BY <1>1, <1>2 DEF SweepNext

-----------------------------------------------------------------------------
\* Register: a stop joins the book, or is refused.
LEMMA RegisterStep ==
    ASSUME StopsIInv, NEW s \in Stops, Register(s)
    PROVE  StopsIInv'
<1>1. StopsTypeOK'
  BY DEF Register, StopsIInv, StopsTypeOK, MarkOnRegister
<1>2. Ticks'
  BY DEF Register, StopsIInv, Ticks
<1>3. Expiries'
  BY DEF Register, StopsIInv, Expiries, Running
<1>4. Sessions'
  BY DEF Register, StopsIInv, Sessions, MarkOnRegister, InSession
<1> QED
  BY <1>1, <1>2, <1>3, <1>4 DEF StopsIInv

\* StreamTick: a tick marks the session and starts on its list.
LEMMA StreamTickStep ==
    ASSUME StopsIInv, NEW a \in Accounts, NEW sym \in Symbols, NEW p \in Prices, StreamTick(a, sym, p)
    PROVE  StopsIInv'
<1>1. StopsTypeOK'
  <2>1. /\ Hit(a, sym, p) \in SUBSET book
        /\ \A s \in Hit(a, sym, p) : AccountOf[s] = a /\ s \notin triggered
    BY DEF Hit, Active
  <2>2. /\ tick' \in [Accounts -> [pc : {"idle", "notifying", "ordering"},
                                  stop : Stops \cup {NoStop}, todo : SUBSET Stops]]
        /\ triggered' \subseteq book
    BY <2>1, BeginTriggerTicks DEF StreamTick, StopsIInv, events
  <2>3. entered' \subseteq book /\ marked' \subseteq Nat
    <3>1. entered \subseteq book /\ marked \subseteq Nat /\ day \in Nat
      BY DEF StopsIInv, StopsTypeOK
    <3>2. CASE InSession
      BY <3>1, <3>2 DEF StreamTick, MarkSession, Active
    <3>3. CASE ~InSession
      BY <3>1, <3>3 DEF StreamTick, MarkSession
    <3> QED
      BY <3>2, <3>3
  <2> QED
    BY <2>2, <2>3 DEF StreamTick, StopsIInv, StopsTypeOK, events, clock
<1>2. Ticks'
  <2>1. /\ Hit(a, sym, p) \in SUBSET book
        /\ \A s \in Hit(a, sym, p) : AccountOf[s] = a /\ s \notin triggered
    BY DEF Hit, Active
  <2> QED
    BY <2>1, BeginTriggerTicks DEF StreamTick, StopsIInv, events
<1>3. Expiries'
  BY DEF StreamTick, StopsIInv, Expiries, Running, events
<1>4. Sessions'
  <2>1. CASE InSession
    <3>1. /\ entered' = entered \cup Active /\ marked' = marked \cup {day}
          /\ day' = day /\ trading /\ UNCHANGED <<book, exposed, trading, session, reason>>
      BY <2>1 DEF StreamTick, MarkSession, events, clock
    <3>2. entered' \subseteq exposed'
      BY <2>1, <3>1 DEF StopsIInv, Sessions, Active
    <3>3. day \in Nat /\ \A d \in marked : d \in Nat /\ d <= day
      BY DEF StopsIInv, StopsTypeOK, Sessions
    <3>4. \A d \in marked' : d <= day'
      BY <3>1, <3>3
    <3> QED
      BY <2>1, <3>1, <3>2, <3>4 DEF StopsIInv, Sessions
  <2>2. CASE ~InSession
    BY <2>2 DEF StreamTick, StopsIInv, Sessions, MarkSession, InSession, events, clock
  <2> QED
    BY <2>1, <2>2
<1> QED
  BY <1>1, <1>2, <1>3, <1>4 DEF StopsIInv

\* PollTick: a quote starts on its list.
LEMMA PollTickStep ==
    ASSUME StopsIInv, NEW a \in Accounts, NEW sym \in Symbols, NEW p \in Prices, PollTick(a, sym, p)
    PROVE  StopsIInv'
<1>1. StopsTypeOK'
  <2>1. /\ Hit(a, sym, p) \in SUBSET book
        /\ \A s \in Hit(a, sym, p) : AccountOf[s] = a /\ s \notin triggered
    BY DEF Hit, Active
  <2>2. /\ tick' \in [Accounts -> [pc : {"idle", "notifying", "ordering"},
                                  stop : Stops \cup {NoStop}, todo : SUBSET Stops]]
        /\ triggered' \subseteq book
    BY <2>1, BeginTriggerTicks DEF PollTick, StopsIInv, events
  <2> QED
    BY <2>2 DEF PollTick, StopsIInv, StopsTypeOK, events, clock
<1>2. Ticks'
  <2>1. /\ Hit(a, sym, p) \in SUBSET book
        /\ \A s \in Hit(a, sym, p) : AccountOf[s] = a /\ s \notin triggered
    BY DEF Hit, Active
  <2> QED
    BY <2>1, BeginTriggerTicks DEF PollTick, StopsIInv, events
<1>3. Expiries'
  BY DEF PollTick, StopsIInv, Expiries, Running, events
<1>4. Sessions'
  BY DEF PollTick, StopsIInv, Sessions, InSession, events, clock
<1> QED
  BY <1>1, <1>2, <1>3, <1>4 DEF StopsIInv

\* Notified: the converted order is requested.
LEMMA NotifiedStep ==
    ASSUME StopsIInv, NEW a \in Accounts, Notified(a)
    PROVE  StopsIInv'
<1>1. StopsTypeOK'
  <2>1. tick[a].stop \in Stops
    BY DEF Notified, StopsIInv, StopsTypeOK, Ticks
  <2>2. requests' \in [Stops -> Nat]
    BY <2>1 DEF Notified, StopsIInv, StopsTypeOK
  <2>3. tick' \in [Accounts -> [pc : {"idle", "notifying", "ordering"},
                               stop : Stops \cup {NoStop}, todo : SUBSET Stops]]
    BY DEF Notified, StopsIInv, StopsTypeOK
  <2> QED
    BY <2>2, <2>3 DEF Notified, StopsIInv, StopsTypeOK, manager, clock
<1>2. Ticks'
  BY DEF Notified, StopsIInv, StopsTypeOK, Ticks, manager
<1>3. Expiries'
  BY DEF Notified, StopsIInv, Expiries, manager
<1>4. Sessions'
  BY DEF Notified, StopsIInv, Sessions, manager, clock, InSession
<1> QED
  BY <1>1, <1>2, <1>3, <1>4 DEF StopsIInv

\* Ordered: a tick goes on to the next stop.
LEMMA OrderedStep ==
    ASSUME StopsIInv, NEW a \in Accounts, Ordered(a)
    PROVE  StopsIInv'
<1>1. StopsTypeOK'
  <2>1. /\ tick[a].todo \in SUBSET book
        /\ \A s \in tick[a].todo : AccountOf[s] = a /\ s \notin triggered
    BY DEF StopsIInv, Ticks
  <2>2. /\ tick' \in [Accounts -> [pc : {"idle", "notifying", "ordering"},
                                  stop : Stops \cup {NoStop}, todo : SUBSET Stops]]
        /\ triggered' \subseteq book
    BY <2>1, BeginTriggerTicks DEF Ordered, StopsIInv
  <2>3. done' \subseteq book
    BY DEF Ordered, StopsIInv, StopsTypeOK, Ticks
  <2> QED
    BY <2>2, <2>3 DEF Ordered, StopsIInv, StopsTypeOK, clock
<1>2. Ticks'
  <2>1. /\ tick[a].todo \in SUBSET book
        /\ \A s \in tick[a].todo : AccountOf[s] = a /\ s \notin triggered
    BY DEF StopsIInv, Ticks
  <2> QED
    BY <2>1, BeginTriggerTicks DEF Ordered, StopsIInv
<1>3. Expiries'
  BY DEF Ordered, StopsIInv, Expiries, BeginTrigger
<1>4. Sessions'
  BY DEF Ordered, StopsIInv, Sessions, clock, InSession
<1> QED
  BY <1>1, <1>2, <1>3, <1>4 DEF StopsIInv

\* LinkLost: the stream is lost.
LEMMA LinkLostStep ==
    ASSUME StopsIInv, NEW a \in Accounts, LinkLost(a)
    PROVE  StopsIInv'
<1>1. StopsTypeOK'
  BY DEF LinkLost, StopsIInv, StopsTypeOK, manager, events, clock
<1>2. Ticks'
  BY DEF LinkLost, StopsIInv, Ticks, manager, events
<1>3. Expiries'
  BY DEF LinkLost, StopsIInv, Expiries, manager, events
<1>4. Sessions'
  BY DEF LinkLost, StopsIInv, Sessions, manager, events, clock, InSession
<1> QED
  BY <1>1, <1>2, <1>3, <1>4 DEF StopsIInv

\* Reconnect: the poll is cancelled.
LEMMA ReconnectStep ==
    ASSUME StopsIInv, NEW a \in Accounts, Reconnect(a)
    PROVE  StopsIInv'
<1>1. StopsTypeOK'
  BY DEF Reconnect, StopsIInv, StopsTypeOK, manager, events, clock, NoTick
<1>2. Ticks'
  BY DEF Reconnect, StopsIInv, StopsTypeOK, Ticks, manager, events, NoTick
<1>3. Expiries'
  BY DEF Reconnect, StopsIInv, Expiries, manager, events
<1>4. Sessions'
  BY DEF Reconnect, StopsIInv, Sessions, manager, events, clock, InSession
<1> QED
  BY <1>1, <1>2, <1>3, <1>4 DEF StopsIInv

\* SweepStart: a sweep starts.
LEMMA SweepStartStep ==
    ASSUME StopsIInv, SweepStart
    PROVE  StopsIInv'
<1>1. StopsTypeOK'
  <2>1. Active \in SUBSET Stops
    BY DEF StopsIInv, StopsTypeOK, Active
  <2> QED
    BY <2>1, SweepNextTypes DEF SweepStart, StopsIInv, StopsTypeOK, clock
<1>2. Ticks'
  BY DEF SweepStart, StopsIInv, Ticks
<1>3. Expiries'
  BY DEF SweepStart, StopsIInv, StopsTypeOK, Expiries, SweepNext, Spawn, Active, NoLoop
<1>4. Sessions'
  BY DEF SweepStart, StopsIInv, StopsTypeOK, Sessions, SweepNext, Spawn, clock, InSession
<1> QED
  BY <1>1, <1>2, <1>3, <1>4 DEF StopsIInv

\* SweepContinues: a sweep goes on.
LEMMA SweepContinuesStep ==
    ASSUME StopsIInv, SweepContinues
    PROVE  StopsIInv'
<1>1. StopsTypeOK'
  <2>1. loop.todo \in SUBSET Stops
    BY DEF StopsIInv, StopsTypeOK
  <2> QED
    BY <2>1, SweepNextTypes DEF SweepContinues, StopsIInv, StopsTypeOK, clock
<1>2. Ticks'
  BY DEF SweepContinues, StopsIInv, Ticks
<1>3. Expiries'
  BY DEF SweepContinues, StopsIInv, StopsTypeOK, Expiries, SweepNext, Spawn, NoLoop
<1>4. Sessions'
  BY DEF SweepContinues, StopsIInv, StopsTypeOK, Sessions, SweepNext, Spawn, clock, InSession
<1> QED
  BY <1>1, <1>2, <1>3, <1>4 DEF StopsIInv

\* ExpireStarts: a stop expires.
LEMMA ExpireStartsStep ==
    ASSUME StopsIInv, NEW s \in Stops, ExpireStarts(s)
    PROVE  StopsIInv'
<1>1. StopsTypeOK'
  BY DEF ExpireStarts, StopsIInv, StopsTypeOK, Expiries, events, clock
<1>2. Ticks'
  BY DEF ExpireStarts, StopsIInv, Ticks, events
<1>3. Expiries'
  BY DEF ExpireStarts, StopsIInv, StopsTypeOK, Expiries, events
<1>4. Sessions'
  BY DEF ExpireStarts, StopsIInv, Sessions, events, clock, InSession
<1> QED
  BY <1>1, <1>2, <1>3, <1>4 DEF StopsIInv

\* ExpireEnds: an expiry is announced.
LEMMA ExpireEndsStep ==
    ASSUME StopsIInv, NEW s \in Stops, ExpireEnds(s)
    PROVE  StopsIInv'
<1>1. StopsTypeOK'
  BY DEF ExpireEnds, StopsIInv, StopsTypeOK, clock
<1>2. Ticks'
  BY DEF ExpireEnds, StopsIInv, Ticks
<1>3. Expiries'
  BY DEF ExpireEnds, StopsIInv, StopsTypeOK, Expiries
<1>4. Sessions'
  BY DEF ExpireEnds, StopsIInv, Sessions, clock, InSession
<1> QED
  BY <1>1, <1>2, <1>3, <1>4 DEF StopsIInv

\* CancelSweep: the sweep is cancelled.
LEMMA CancelSweepStep ==
    ASSUME StopsIInv, CancelSweep
    PROVE  StopsIInv'
<1>1. StopsTypeOK'
  BY DEF CancelSweep, StopsIInv, StopsTypeOK, manager, events, clock, NoLoop
<1>2. Ticks'
  BY DEF CancelSweep, StopsIInv, Ticks, manager, events
<1>3. Expiries'
  BY DEF CancelSweep, StopsIInv, Expiries, manager, events, NoLoop
<1>4. Sessions'
  BY DEF CancelSweep, StopsIInv, Sessions, manager, events, clock, InSession
<1> QED
  BY <1>1, <1>2, <1>3, <1>4 DEF StopsIInv

\* StopManager: stop() starts.
LEMMA StopManagerStep ==
    ASSUME StopsIInv, StopManager
    PROVE  StopsIInv'
<1>1. StopsTypeOK'
  BY DEF StopManager, StopsIInv, StopsTypeOK, manager, events, clock, Active
<1>2. Ticks'
  BY DEF StopManager, StopsIInv, Ticks, manager, events
<1>3. Expiries'
  BY DEF StopManager, StopsIInv, StopsTypeOK, Expiries, manager, events, Active
<1>4. Sessions'
  BY DEF StopManager, StopsIInv, Sessions, manager, events, clock, InSession
<1> QED
  BY <1>1, <1>2, <1>3, <1>4 DEF StopsIInv

\* StopNext: stop() expires a stop.
LEMMA StopNextStep ==
    ASSUME StopsIInv, StopNext
    PROVE  StopsIInv'
<1>1. StopsTypeOK'
  BY DEF StopNext, StopsIInv, StopsTypeOK, Spawn, clock
<1>2. Ticks'
  BY DEF StopNext, StopsIInv, Ticks
<1>3. Expiries'
  BY DEF StopNext, StopsIInv, StopsTypeOK, Expiries, Spawn
<1>4. Sessions'
  BY DEF StopNext, StopsIInv, Sessions, Spawn, clock, InSession
<1> QED
  BY <1>1, <1>2, <1>3, <1>4 DEF StopsIInv

\* ManagerStopped: stop() ends.
LEMMA ManagerStoppedStep ==
    ASSUME StopsIInv, ManagerStopped
    PROVE  StopsIInv'
<1>1. StopsTypeOK'
  BY DEF ManagerStopped, StopsIInv, StopsTypeOK, events, clock, NoLoop
<1>2. Ticks'
  BY DEF ManagerStopped, StopsIInv, Ticks, events
<1>3. Expiries'
  BY DEF ManagerStopped, StopsIInv, StopsTypeOK, Expiries, events, NoLoop
<1>4. Sessions'
  BY DEF ManagerStopped, StopsIInv, Sessions, events, clock, InSession
<1> QED
  BY <1>1, <1>2, <1>3, <1>4 DEF StopsIInv

\* StopStreams: the streams are cancelled.
LEMMA StopStreamsStep ==
    ASSUME StopsIInv, StopStreams
    PROVE  StopsIInv'
<1>1. StopsTypeOK'
  BY DEF StopStreams, StopsIInv, StopsTypeOK, manager, events, clock, NoTick
<1>2. Ticks'
  BY DEF StopStreams, StopsIInv, Ticks, manager, events, NoTick
<1>3. Expiries'
  BY DEF StopStreams, StopsIInv, Expiries, manager, events
<1>4. Sessions'
  BY DEF StopStreams, StopsIInv, Sessions, manager, events, clock, InSession
<1> QED
  BY <1>1, <1>2, <1>3, <1>4 DEF StopsIInv

\* SessionOpens: the session opens.
LEMMA SessionOpensStep ==
    ASSUME StopsIInv, SessionOpens
    PROVE  StopsIInv'
<1>1. StopsTypeOK'
  BY DEF SessionOpens, StopsIInv, StopsTypeOK, manager, events
<1>2. Ticks'
  BY DEF SessionOpens, StopsIInv, Ticks, manager, events
<1>3. Expiries'
  BY DEF SessionOpens, StopsIInv, Expiries, manager, events
<1>4. Sessions'
  BY DEF SessionOpens, StopsIInv, Sessions, manager, events
<1> QED
  BY <1>1, <1>2, <1>3, <1>4 DEF StopsIInv

\* SessionCloses: the session ends.
LEMMA SessionClosesStep ==
    ASSUME StopsIInv, SessionCloses
    PROVE  StopsIInv'
<1>1. StopsTypeOK'
  BY DEF SessionCloses, StopsIInv, StopsTypeOK, manager, events
<1>2. Ticks'
  BY DEF SessionCloses, StopsIInv, Ticks, manager, events
<1>3. Expiries'
  BY DEF SessionCloses, StopsIInv, Expiries, manager, events
<1>4. Sessions'
  BY DEF SessionCloses, StopsIInv, Sessions, manager, events, InSession
<1> QED
  BY <1>1, <1>2, <1>3, <1>4 DEF StopsIInv

\* NextDay: a day passes.
LEMMA NextDayStep ==
    ASSUME StopsIInv, NextDay
    PROVE  StopsIInv'
<1>1. StopsTypeOK'
  BY DEF NextDay, StopsIInv, StopsTypeOK, manager, events
<1>2. Ticks'
  BY DEF NextDay, StopsIInv, Ticks, manager, events
<1>3. Expiries'
  BY DEF NextDay, StopsIInv, Expiries, manager, events
<1>4. Sessions'
  BY DEF NextDay, StopsIInv, StopsTypeOK, Sessions, manager, events, InSession
<1> QED
  BY <1>1, <1>2, <1>3, <1>4 DEF StopsIInv

\* A step that changes nothing keeps the invariant.
LEMMA StutterStep ==
    ASSUME StopsIInv, UNCHANGED stopsVars
    PROVE  StopsIInv'
<1> USE DEF stopsVars, manager, events, clock
<1>1. StopsTypeOK'
  BY DEF StopsIInv, StopsTypeOK
<1>2. Ticks'
  BY DEF StopsIInv, Ticks
<1>3. Expiries'
  BY DEF StopsIInv, Expiries
<1>4. Sessions'
  BY DEF StopsIInv, Sessions, InSession
<1> QED
  BY <1>1, <1>2, <1>3, <1>4 DEF StopsIInv

\* Every step keeps the invariant.
LEMMA NextInv == StopsIInv /\ [StopsNext]_stopsVars => StopsIInv'
<1> SUFFICES ASSUME StopsIInv, [StopsNext]_stopsVars PROVE StopsIInv'
  OBVIOUS
<1>1. ASSUME NEW s \in Stops, Register(s) PROVE StopsIInv'
  BY <1>1, RegisterStep
<1>2. ASSUME NEW a \in Accounts, NEW sym \in Symbols, NEW p \in Prices, StreamTick(a, sym, p) PROVE StopsIInv'
  BY <1>2, StreamTickStep
<1>3. ASSUME NEW a \in Accounts, NEW sym \in Symbols, NEW p \in Prices, PollTick(a, sym, p) PROVE StopsIInv'
  BY <1>3, PollTickStep
<1>4. ASSUME NEW a \in Accounts, Notified(a) PROVE StopsIInv'
  BY <1>4, NotifiedStep
<1>5. ASSUME NEW a \in Accounts, Ordered(a) PROVE StopsIInv'
  BY <1>5, OrderedStep
<1>6. ASSUME NEW a \in Accounts, LinkLost(a) PROVE StopsIInv'
  BY <1>6, LinkLostStep
<1>7. ASSUME NEW a \in Accounts, Reconnect(a) PROVE StopsIInv'
  BY <1>7, ReconnectStep
<1>8. CASE SweepStart
  BY <1>8, SweepStartStep
<1>9. CASE SweepContinues
  BY <1>9, SweepContinuesStep
<1>10. ASSUME NEW s \in Stops, ExpireStarts(s) PROVE StopsIInv'
  BY <1>10, ExpireStartsStep
<1>11. ASSUME NEW s \in Stops, ExpireEnds(s) PROVE StopsIInv'
  BY <1>11, ExpireEndsStep
<1>12. CASE CancelSweep
  BY <1>12, CancelSweepStep
<1>13. CASE StopManager
  BY <1>13, StopManagerStep
<1>14. CASE StopNext
  BY <1>14, StopNextStep
<1>15. CASE ManagerStopped
  BY <1>15, ManagerStoppedStep
<1>16. CASE StopStreams
  BY <1>16, StopStreamsStep
<1>17. CASE SessionOpens
  BY <1>17, SessionOpensStep
<1>18. CASE SessionCloses
  BY <1>18, SessionClosesStep
<1>19. CASE NextDay
  BY <1>19, NextDayStep
<1>20. CASE UNCHANGED stopsVars
  BY <1>20, StutterStep
<1> QED
  BY <1>1, <1>2, <1>3, <1>4, <1>5, <1>6, <1>7, <1>8, <1>9, <1>10, <1>11, <1>12, <1>13, <1>14,
     <1>15, <1>16, <1>17, <1>18, <1>19, <1>20
     DEF StopsNext, Expiry, Shutdown

\* The inductive invariant holds in every reachable state.
THEOREM StopInvariant == StopsSpec => []StopsIInv
  BY StopsInitInv, NextInv, PTL DEF StopsSpec

\* A stop never becomes two orders and never expires twice (on_price_update,
\* check_session_expiry, stop), however many stops, accounts and ticks there are.
THEOREM StopNeverTwice == StopsSpec => []NeverTwice
<1>1. StopsIInv => NeverTwice
  BY DEF StopsIInv, Ticks, Expiries, NeverTwice
<1> QED
  BY <1>1, StopInvariant, PTL

\* No stop expires with a session the exchange did not trade in, or in which it
\* was not registered (check_session_expiry, register).
THEOREM StopExpiresOnlyAfterTrading == StopsSpec => []ExpiresOnlyAfterTrading
<1>1. StopsIInv => ExpiresOnlyAfterTrading
  BY DEF StopsIInv, Sessions, ExpiresOnlyAfterTrading
<1> QED
  BY <1>1, StopInvariant, PTL

\* When the manager has stopped, every stop it took has triggered or was announced
\* as expired (stop, _expire_order).
THEOREM StopShutdownLeavesNone == StopsSpec => []ShutdownLeavesNone
<1>1. StopsIInv => ShutdownLeavesNone
  BY DEF StopsIInv, StopsTypeOK, Expiries, ShutdownLeavesNone
<1> QED
  BY <1>1, StopInvariant, PTL

=============================================================================
