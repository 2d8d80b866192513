----------------------------- MODULE AtomicDrawer -----------------------------
(***************************************************************************)
(* What the cash desk promises (cash.service.ts and the cash legs of the    *)
(* other services): a branch has one drawer, a session is opened, posted to *)
(* and closed at single instants, a movement goes to a session that is open *)
(* at that instant, and a closing settles on the cash sales and external    *)
(* services of that instant.  Of the expenses it may miss some, see         *)
(* ClosingCountsEveryMovement of CashDrawer, which implements this module.  *)
(***************************************************************************)
EXTENDS Integers

CONSTANTS Sessions, Cashiers, NoCashier,
          Movements,    \* what can be posted to a drawer
          OpeningCash, MaxRows, MaxDay

VARIABLES session, drawer, today

drawerVars == <<session, drawer, today>>

Init ==
  /\ session = [s \in Sessions |-> [status |-> "none", cashier |-> NoCashier,
                                    day |-> 0, opening |-> 0, expected |-> 0]]
  /\ drawer = [s \in Sessions |-> [m \in Movements |-> 0]]
  /\ today = 1

\* The drawer is free at this instant; the business date has come.
Open(s, cashier, day, opening) ==
  /\ \A t \in Sessions : session[t].status # "open"
  /\ session[s].status = "none"
  /\ day <= today
  /\ session' = [session EXCEPT ![s] = [status |-> "open", cashier |-> cashier, day |-> day,
                                        opening |-> opening, expected |-> 0]]
  /\ UNCHANGED <<drawer, today>>

Post(s, m) ==
  /\ session[s].status = "open"
  /\ drawer[s][m] < MaxRows
  /\ drawer' = [drawer EXCEPT ![s][m] = @ + 1]
  /\ UNCHANGED <<session, today>>

Income(s) ==
  session[s].opening + drawer[s]["sale"] + (drawer[s]["externalIn"] - drawer[s]["externalOut"])

Close(s, expenses) ==
  /\ session[s].status = "open"
  /\ expenses <= drawer[s]["expense"]
  /\ Income(s) >= expenses
  /\ session' = [session EXCEPT ![s].status = "closed",
                                ![s].expected = Income(s) - expenses]
  /\ UNCHANGED <<drawer, today>>

NextDay ==
  /\ today < MaxDay
  /\ today' = today + 1
  /\ UNCHANGED <<session, drawer>>

Next ==
  \/ \E s \in Sessions :
       \/ \E c \in Cashiers, day \in 1..MaxDay, opening \in OpeningCash : Open(s, c, day, opening)
       \/ \E m \in Movements : Post(s, m)
       \/ \E expenses \in 0..MaxRows : Close(s, expenses)
  \/ NextDay

Spec == Init /\ [][Next]_drawerVars
=============================================================================
