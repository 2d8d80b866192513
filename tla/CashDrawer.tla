------------------------------ MODULE CashDrawer ------------------------------
(***************************************************************************)
(* Cash sessions of one branch and the transactions that move cash:         *)
(* backend/src/modules/cash, and the cash legs of sales, returns, external  *)
(* services and expenses.                                                   *)
(*                                                                         *)
(* Every request is one database transaction in three steps.  Begin takes   *)
(* the snapshot and finds the session, Grant obtains the session's row lock *)
(* and Commit writes; other requests run in between.  Expenses run at READ  *)
(* COMMITTED, all others at SERIALIZABLE.  PostgreSQL is modelled by its    *)
(* contract: a serializable transaction reads its snapshot, fails when it   *)
(* locks a row updated since, and fails to commit when it would close a     *)
(* cycle of read-write dependencies; it may also fail for no visible cause. *)
(*                                                                         *)
(* Every movement is one unit of money.                                     *)
(***************************************************************************)
EXTENDS Integers

CONSTANTS Workers,      \* requests being served at the same time
          Sessions,     \* cash_sessions rows
          Cashiers,
          NoSession, NoCashier,
          OpeningCash,  \* opening floats a session may start with
          MaxRows,      \* bound: movements of one kind per session
          MaxDay        \* bound: business dates

ASSUME CashAssumption ==
  /\ NoSession \notin Sessions /\ NoCashier \notin Cashiers
  /\ "free" \notin Workers
  /\ OpeningCash \subseteq Nat /\ MaxRows \in Nat /\ MaxDay \in Nat \ {0}

VARIABLES session,  \* committed cash_sessions
          drawer,   \* committed movement rows, counted by kind and session
          lock,     \* row lock of every session
          req,      \* the transaction of every worker
          today

vars == <<session, drawer, lock, req, today>>

\* What can be posted to a drawer.  An external service pays in or pays out.
Movements == {"sale", "refund", "externalIn", "externalOut", "expense"}
Kinds == Movements \cup {"open", "close"}

Idle == [pc |-> "idle", kind |-> "none", cashier |-> NoCashier, target |-> NoSession,
         day |-> 0, session |-> <<>>, drawer |-> <<>>]

TypeOK ==
  /\ session \in [Sessions -> [status: {"none", "open", "closed"},
                               cashier: Cashiers \cup {NoCashier},
                               day: 0..MaxDay, opening: OpeningCash \cup {0},
                               expected: Nat]]
  /\ drawer \in [Sessions -> [Movements -> 0..MaxRows]]
  /\ lock \in [Sessions -> Workers \cup {"free"}]
  /\ \A w \in Workers :
       /\ req[w].pc \in {"idle", "waiting", "running"}
       /\ req[w].kind \in Kinds \cup {"none"}
       /\ req[w].target \in Sessions \cup {NoSession}
  /\ today \in 1..MaxDay

Init ==
  /\ session = [s \in Sessions |-> [status |-> "none", cashier |-> NoCashier,
                                    day |-> 0, opening |-> 0, expected |-> 0]]
  /\ drawer = [s \in Sessions |-> [m \in Movements |-> 0]]
  /\ lock = [s \in Sessions |-> "free"]
  /\ req = [w \in Workers |-> Idle]
  /\ today = 1

-----------------------------------------------------------------------------
OpenIn(rows) == {s \in Sessions : rows[s].status = "open"}

\* The session a movement is posted to: a sale or refund needs the cashier's
\* own session of the day, an external service or expense any open session.
Eligible(kind, cashier, rows) ==
  IF kind \in {"sale", "refund"}
    THEN {s \in OpenIn(rows) : rows[s].cashier = cashier /\ rows[s].day = today}
    ELSE OpenIn(rows)

Start(w, kind, cashier, target) ==
  req' = [req EXCEPT ![w] =
    [pc |-> IF kind = "open" THEN "running" ELSE "waiting", kind |-> kind,
     cashier |-> cashier, target |-> target, day |-> today,
     session |-> IF kind = "expense" THEN <<>> ELSE session,
     drawer |-> IF kind = "close" THEN drawer ELSE <<>>]]

\* A request that finds no session is refused on the spot and changes nothing.
BeginMovement(w, kind, cashier) ==
  /\ req[w].pc = "idle"
  /\ \E s \in Eligible(kind, cashier, session) : Start(w, kind, cashier, s)
  /\ UNCHANGED <<session, drawer, lock, today>>

\* Fault: open looks at the cashier's own sessions only.
BeginOpenOwn(w, cashier) ==
  /\ req[w].pc = "idle"
  /\ \A s \in OpenIn(session) : session[s].cashier # cashier
  /\ Start(w, "open", cashier, NoSession)
  /\ UNCHANGED <<session, drawer, lock, today>>

\* open looks for any open session of the branch.
BeginOpen(w, cashier) ==
  /\ req[w].pc = "idle"
  /\ OpenIn(session) = {}
  /\ Start(w, "open", cashier, NoSession)
  /\ UNCHANGED <<session, drawer, lock, today>>

BeginClose(w, s) ==
  /\ req[w].pc = "idle"
  /\ session[s].status = "open"
  /\ Start(w, "close", NoCashier, s)
  /\ UNCHANGED <<session, drawer, lock, today>>

\* Fault: the session found before the lock is trusted after it.
RowTrusted(w, s) == TRUE

\* SELECT ... FOR UPDATE once no one else holds the row.  A serializable
\* transaction fails if the row changed since its snapshot; at READ COMMITTED
\* the WHERE clause is evaluated again on the row as it is now.
RowUnchanged(w, s) ==
  IF req[w].kind = "expense" THEN session[s].status = "open"
  ELSE session[s] = req[w].session[s]

Grant(w) ==
  LET s == req[w].target
  IN  /\ req[w].pc = "waiting"
      /\ lock[s] = "free"
      /\ IF RowUnchanged(w, s)
           THEN /\ lock' = [lock EXCEPT ![s] = w]
                /\ req' = [req EXCEPT ![w].pc = "running"]
           ELSE req' = [req EXCEPT ![w] = Idle] /\ UNCHANGED lock
      /\ UNCHANGED <<session, drawer, today>>

\* The end of a transaction, either way, releases its lock.
Finish(w) ==
  /\ req' = [req EXCEPT ![w] = Idle]
  /\ lock' = [s \in Sessions |-> IF lock[s] = w THEN "free" ELSE lock[s]]

CommitMovement(w) ==
  LET s == req[w].target
  IN  /\ req[w].pc = "running" /\ req[w].kind \in Movements
      /\ drawer[s][req[w].kind] < MaxRows
      /\ drawer' = [drawer EXCEPT ![s][req[w].kind] = @ + 1]
      /\ Finish(w)
      /\ UNCHANGED <<session, today>>

\* Two opens that do not see each other read what the other writes, and both
\* update the CS- number row: the second one fails.
CommitOpen(w, s, opening) ==
  /\ req[w].pc = "running" /\ req[w].kind = "open"
  /\ session[s].status = "none"
  /\ \A t \in Sessions :
       req[w].session[t].status = "none" => session[t].status = "none"
  /\ session' = [session EXCEPT ![s] =
       [status |-> "open", cashier |-> req[w].cashier, day |-> req[w].day,
        opening |-> opening, expected |-> 0]]
  /\ Finish(w)
  /\ UNCHANGED <<drawer, today>>

\* drawerMovement: cash payments and external impact in, cash expenses out.
DrawerMovement(rows) ==
  rows["sale"] + (rows["externalIn"] - rows["externalOut"]) - rows["expense"]

\* Fault: close runs without serializable isolation.
NoClosingReads == {}

\* What close reads and a serializable transaction may have written since.
ClosingReads == {"sale", "externalIn", "externalOut"}

\* Fault: safeInteger without a minimum.
AnyInteger(n) == n \in Int

SafeInteger(n) == n >= 0

\* close settles on its snapshot.  It and a movement it did not see depend on
\* each other both ways: the movement read the session row close updates, and
\* wrote a row close should have read.  If the movement was serializable too,
\* close fails.  safeInteger refuses a negative expectation.
CommitClose(w) ==
  LET s        == req[w].target
      seen     == req[w].drawer[s]
      expected == session[s].opening + DrawerMovement(seen)
  IN  /\ req[w].pc = "running" /\ req[w].kind = "close"
      /\ \A m \in ClosingReads : drawer[s][m] = seen[m]
      /\ SafeInteger(expected)
      /\ session' = [session EXCEPT ![s].status = "closed", ![s].expected = expected]
      /\ Finish(w)
      /\ UNCHANGED <<drawer, today>>

\* A serialization failure, a refused commit or a lost connection.
Abort(w) ==
  /\ req[w].pc # "idle"
  /\ Finish(w)
  /\ UNCHANGED <<session, drawer, today>>

NextDay ==
  /\ today < MaxDay
  /\ today' = today + 1
  /\ UNCHANGED <<session, drawer, lock, req>>

Next ==
  \/ \E w \in Workers :
       \/ \E m \in Movements, c \in Cashiers : BeginMovement(w, m, c)
       \/ \E c \in Cashiers : BeginOpen(w, c)
       \/ \E s \in Sessions : BeginClose(w, s)
       \/ Grant(w)
       \/ CommitMovement(w)
       \/ \E s \in Sessions, opening \in OpeningCash : CommitOpen(w, s, opening)
       \/ CommitClose(w)
       \/ Abort(w)
  \/ NextDay

Spec == Init /\ [][Next]_vars

-----------------------------------------------------------------------------
(* Properties.                                                              *)

Atomic == INSTANCE AtomicDrawer

\* Requests hold a snapshot and wait for locks, yet each takes effect at the
\* instant it commits: a session opens while no other is open, a movement is
\* posted to a session open at that instant, and a closing settles on the
\* income of that instant, whatever it had read before.
DrawerIsAtomic == Atomic!Spec

\* The branch has one drawer: however many cashiers press "open" at once, at
\* most one session is open.  No index says so across cashiers; only the
\* serializable isolation of open does.
AtMostOneOpenSession ==
  \A s, t \in OpenIn(session) : s = t

\* Between finding the session and posting to it other requests run, yet no
\* cash is ever posted to a session that is already closed: what a closed
\* session collected never changes, nor does its settlement.
ClosedSessionsAreFinal ==
  [][\A s \in Sessions : session[s].status = "closed" =>
       session'[s] = session[s] /\ drawer'[s] = drawer[s]]_vars

\* A closing misses no cash sale and no external service, even one that was
\* committed while the closing was waiting for the session's row.
ClosingCountsIncome ==
  \A s \in Sessions : session[s].status = "closed" =>
    LET income == session[s].opening + drawer[s]["sale"]
                    + (drawer[s]["externalIn"] - drawer[s]["externalOut"])
    IN  \E e \in 0..drawer[s]["expense"] : session[s].expected = income - e

\* "Server-authoritative expected drawer balance: opening float plus every
\* cash-affecting movement tied to this session" (cash.service.ts, close), of
\* those movements that drawerMovement adds up.
ClosingCountsEveryMovement ==
  \A s \in Sessions : session[s].status = "closed" =>
    session[s].expected = session[s].opening + DrawerMovement(drawer[s])

\* "Expected cash is recomputed inside the transaction from sales, refunds,
\* external-service cash legs, drawer expenses, ..." (docs/API_MODULE_MAP.md):
\* money refunded in cash is not expected in the drawer.
ClosingCountsRefunds ==
  \A s \in Sessions : session[s].status = "closed" =>
    session[s].expected <=
      session[s].opening + drawer[s]["sale"] + drawer[s]["externalIn"]
        - drawer[s]["externalOut"] - drawer[s]["refund"]
=============================================================================
