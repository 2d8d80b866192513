--------------------------- MODULE CashDrawerProofs ---------------------------
(***************************************************************************)
(* Proofs about CashDrawer: one open session, final closings and no lost    *)
(* income, for any number of concurrent requests, sessions, cashiers, days  *)
(* and movements.                                                           *)
(***************************************************************************)
EXTENDS CashDrawer, TLAPS

Rows == [Sessions -> [status: {"none", "open", "closed"},
                      cashier: Cashiers \cup {NoCashier},
                      day: 0..MaxDay, opening: OpeningCash \cup {0}, expected: Nat]]
Counts == [Sessions -> [Movements -> 0..MaxRows]]

\* The transaction of a worker, its snapshots included.
RequestType ==
  [pc: {"idle", "waiting", "running"}, kind: Kinds \cup {"none"},
   cashier: Cashiers \cup {NoCashier}, target: Sessions \cup {NoSession},
   day: 0..MaxDay, session: Rows \cup {<<>>}, drawer: Counts \cup {<<>>}]

\* A movement or closing that runs holds the lock of an open session.
HoldsOpenSession(w) ==
  req[w].pc = "running" /\ req[w].kind # "open" =>
    /\ req[w].target \in Sessions
    /\ lock[req[w].target] = w
    /\ session[req[w].target].status = "open"

\* One that waits found its session open.
FoundOpenSession(w) ==
  req[w].pc = "waiting" =>
    /\ req[w].target \in Sessions
    /\ req[w].kind # "open"
    /\ req[w].kind # "expense" =>
         req[w].session \in Rows /\ req[w].session[req[w].target].status = "open"

\* An opening saw no open session, and what it saw closed has stayed closed.
FoundNoOpenSession(w) ==
  req[w].pc = "running" /\ req[w].kind = "open" =>
    /\ req[w].session \in Rows
    /\ \A t \in Sessions :
         /\ req[w].session[t].status # "open"
         /\ req[w].session[t].status = "closed" => session[t].status = "closed"

\* A closing saw no more expenses than there are.
SawExpenses(w) ==
  req[w].pc # "idle" /\ req[w].kind = "close" =>
    /\ req[w].drawer \in Counts
    /\ \A t \in Sessions : req[w].drawer[t]["expense"] <= drawer[t]["expense"]

RequestOK(w) ==
  /\ req[w] \in RequestType
  /\ HoldsOpenSession(w)
  /\ FoundOpenSession(w)
  /\ FoundNoOpenSession(w)
  /\ SawExpenses(w)

\* The inductive invariant: the properties proved, and how the snapshots of
\* running transactions relate to the rows they lock.
CashInv ==
  /\ TypeOK
  /\ DOMAIN req = Workers
  /\ \A w \in Workers : RequestOK(w)
  /\ AtMostOneOpenSession
  /\ ClosingCountsIncome

\* The constants are well typed.
LEMMA Constants ==
  /\ OpeningCash \subseteq Nat /\ MaxRows \in Nat
  /\ MaxDay \in Nat /\ 1 \in 1..MaxDay
  /\ "free" \notin Workers /\ NoSession \notin Sessions
  BY CashAssumption

\* The kinds of requests, one by one.
LEMMA KindsAre ==
  /\ Movements = {"sale", "refund", "externalIn", "externalOut", "expense"}
  /\ Kinds = {"sale", "refund", "externalIn", "externalOut", "expense", "open", "close"}
  BY DEF Movements, Kinds

-----------------------------------------------------------------------------
\* What other transactions do leaves a transaction's own facts alone, as long
\* as closed sessions stay closed, locked open ones stay open and expenses
\* are only added.
LEMMA OthersKept ==
  ASSUME CashInv, NEW v \in Workers, req'[v] = req[v],
         \A t \in Sessions : session[t].status = "closed" => session'[t].status = "closed",
         \A t \in Sessions : lock[t] = v /\ session[t].status = "open" =>
                               lock'[t] = v /\ session'[t].status = "open",
         \A t \in Sessions : /\ drawer[t]["expense"] \in Int
                             /\ drawer'[t]["expense"] \in Int
                             /\ drawer[t]["expense"] <= drawer'[t]["expense"]
  PROVE  RequestOK(v)'
<1>1. RequestOK(v)
  BY DEF CashInv
<1>2. (req[v] \in RequestType)' /\ HoldsOpenSession(v)' /\ FoundOpenSession(v)'
      /\ FoundNoOpenSession(v)'
  BY <1>1 DEF RequestOK, HoldsOpenSession, FoundOpenSession, FoundNoOpenSession
<1>3. SawExpenses(v)'
  <2> SUFFICES ASSUME req[v].pc # "idle", req[v].kind = "close",
                      NEW t \in Sessions
               PROVE  req[v].drawer[t]["expense"] <= drawer'[t]["expense"]
    BY <1>1 DEF RequestOK, SawExpenses
  <2>1. /\ req[v].drawer \in Counts
        /\ req[v].drawer[t]["expense"] <= drawer[t]["expense"]
    BY <1>1 DEF RequestOK, SawExpenses
  <2>2. req[v].drawer[t]["expense"] \in Int
    <3>1. req[v].drawer[t] \in [Movements -> 0..MaxRows] /\ "expense" \in Movements
      BY <2>1, KindsAre DEF Counts
    <3> QED
      BY <3>1, Constants
  <2> QED
    BY <2>1, <2>2
<1> QED
  BY <1>2, <1>3 DEF RequestOK

\* Committed rows are typed; the counters are integers.
LEMMA RowTypes ==
  ASSUME CashInv
  PROVE  /\ session \in Rows /\ drawer \in Counts
         /\ lock \in [Sessions -> Workers \cup {"free"}]
         /\ today \in 0..MaxDay
         /\ \A t \in Sessions, m \in Movements : drawer[t][m] \in Int /\ drawer[t][m] >= 0
<1>1. /\ session \in Rows /\ drawer \in Counts
      /\ lock \in [Sessions -> Workers \cup {"free"}]
      /\ today \in 0..MaxDay
  BY Constants DEF CashInv, TypeOK, Rows, Counts
<1>2. \A t \in Sessions, m \in Movements : drawer[t][m] \in 0..MaxRows
  BY <1>1 DEF Counts
<1> QED
  BY <1>1, <1>2, Constants

\* The rest of the invariant when only transactions and locks change.
LEMMA RequestsOnly ==
  ASSUME CashInv, UNCHANGED <<session, drawer>>,
         lock' \in [Sessions -> Workers \cup {"free"}], today' \in 1..MaxDay,
         DOMAIN req' = Workers,
         \A w \in Workers : RequestOK(w)'
  PROVE  CashInv'
<1>1. TypeOK'
  BY DEF CashInv, TypeOK, RequestOK, RequestType
<1>2. AtMostOneOpenSession' /\ ClosingCountsIncome'
  BY DEF CashInv, AtMostOneOpenSession, ClosingCountsIncome, OpenIn
<1> QED
  BY <1>1, <1>2 DEF CashInv

\* A worker without a request.
LEMMA IdleRequest == Idle \in RequestType /\ Idle.pc = "idle"
  BY Constants DEF Idle, RequestType

\* No session, no request, no movement.
LEMMA InitInv == Init => CashInv
<1> SUFFICES ASSUME Init PROVE CashInv
  OBVIOUS
<1> USE DEF Init
<1>1. TypeOK
  BY Constants DEF TypeOK, Idle
<1>2. \A w \in Workers : RequestOK(w)
  BY IdleRequest DEF RequestOK, HoldsOpenSession, FoundOpenSession,
                     FoundNoOpenSession, SawExpenses
<1>3. AtMostOneOpenSession /\ ClosingCountsIncome
  BY DEF AtMostOneOpenSession, ClosingCountsIncome, OpenIn
<1> QED
  BY <1>1, <1>2, <1>3 DEF CashInv

-----------------------------------------------------------------------------
\* A transaction begins on a snapshot of the committed rows.
LEMMA StartInv ==
  ASSUME CashInv, NEW w \in Workers, NEW kind \in Kinds,
         NEW cashier \in Cashiers \cup {NoCashier},
         NEW target \in Sessions \cup {NoSession},
         kind = "open" => \A t \in Sessions : session[t].status # "open",
         kind # "open" => target \in Sessions /\ session[target].status = "open",
         Start(w, kind, cashier, target),
         UNCHANGED <<session, drawer, lock, today>>
  PROVE  CashInv'
<1> DEFINE row ==
      [pc |-> IF kind = "open" THEN "running" ELSE "waiting", kind |-> kind,
       cashier |-> cashier, target |-> target, day |-> today,
       session |-> IF kind = "expense" THEN <<>> ELSE session,
       drawer |-> IF kind = "close" THEN drawer ELSE <<>>]
<1>1. req' = [req EXCEPT ![w] = row]
  BY DEF Start
<1>2. /\ row \in RequestType
      /\ row.pc = IF kind = "open" THEN "running" ELSE "waiting"
      /\ row.kind = kind /\ row.target = target
      /\ row.session = IF kind = "expense" THEN <<>> ELSE session
      /\ row.drawer = IF kind = "close" THEN drawer ELSE <<>>
  BY RowTypes DEF RequestType
<1> HIDE DEF row
<1>3. DOMAIN req' = Workers /\ req'[w] = row /\ \A v \in Workers \ {w} : req'[v] = req[v]
  BY <1>1 DEF CashInv
<1>4. RequestOK(w)'
  <2>1. (req[w] \in RequestType)' /\ HoldsOpenSession(w)' /\ FoundOpenSession(w)'
        /\ FoundNoOpenSession(w)'
    BY <1>2, <1>3, RowTypes
       DEF HoldsOpenSession, FoundOpenSession, FoundNoOpenSession
  <2>2. SawExpenses(w)'
    BY <1>2, <1>3, RowTypes, KindsAre DEF SawExpenses
  <2> QED
    BY <2>1, <2>2 DEF RequestOK
<1>5. \A v \in Workers \ {w} : RequestOK(v)'
  BY <1>3, OthersKept, RowTypes, KindsAre
<1>6. \A v \in Workers : RequestOK(v)'
  BY <1>4, <1>5
<1> QED
  BY <1>3, <1>6, RowTypes, RequestsOnly DEF CashInv, TypeOK

\* A movement begins on a session it finds open.
LEMMA BeginMovementInv ==
  ASSUME CashInv, NEW w \in Workers, NEW kind \in Movements, NEW cashier \in Cashiers,
         BeginMovement(w, kind, cashier)
  PROVE  CashInv'
<1>1. PICK s \in Eligible(kind, cashier, session) : Start(w, kind, cashier, s)
  BY DEF BeginMovement
<1>2. s \in Sessions /\ session[s].status = "open"
  BY <1>1 DEF Eligible, OpenIn
<1>3. kind \in Kinds /\ kind # "open"
  BY KindsAre
<1>4. UNCHANGED <<session, drawer, lock, today>>
  BY DEF BeginMovement
<1> QED
  BY <1>1, <1>2, <1>3, <1>4, StartInv

\* An opening begins where no session is open.
LEMMA BeginOpenInv ==
  ASSUME CashInv, NEW w \in Workers, NEW cashier \in Cashiers, BeginOpen(w, cashier)
  PROVE  CashInv'
<1>1. \A t \in Sessions : session[t].status # "open"
  BY DEF BeginOpen, OpenIn
<1>2. /\ Start(w, "open", cashier, NoSession)
      /\ UNCHANGED <<session, drawer, lock, today>>
  BY DEF BeginOpen
<1> QED
  BY <1>1, <1>2, KindsAre, StartInv

\* A closing begins on an open session.
LEMMA BeginCloseInv ==
  ASSUME CashInv, NEW w \in Workers, NEW s \in Sessions, BeginClose(w, s)
  PROVE  CashInv'
<1>1. /\ session[s].status = "open"
      /\ Start(w, "close", NoCashier, s)
      /\ UNCHANGED <<session, drawer, lock, today>>
  BY DEF BeginClose
<1> QED
  BY <1>1, KindsAre, StartInv

\* The row lock is granted on a session that is still open.
LEMMA GrantInv ==
  ASSUME CashInv, NEW w \in Workers, Grant(w)
  PROVE  CashInv'
<1> DEFINE s == req[w].target
<1>1. /\ req[w].pc = "waiting" /\ lock[s] = "free"
      /\ UNCHANGED <<session, drawer, today>>
  BY DEF Grant
<1>2. /\ s \in Sessions /\ req[w].kind # "open"
      /\ req[w] \in RequestType
      /\ RequestOK(w)
  BY <1>1 DEF CashInv, RequestOK, FoundOpenSession
<1>3. CASE RowUnchanged(w, s)
  <2>1. /\ lock' = [lock EXCEPT ![s] = w]
        /\ req' = [req EXCEPT ![w].pc = "running"]
    BY <1>3 DEF Grant
  <2>2. session[s].status = "open"
    BY <1>1, <1>2, <1>3 DEF RowUnchanged, RequestOK, FoundOpenSession
  <2> DEFINE row == [req[w] EXCEPT !.pc = "running"]
  <2>3. /\ row \in RequestType /\ row.pc = "running" /\ row.kind = req[w].kind
        /\ row.target = s /\ row.drawer = req[w].drawer
    BY <1>2 DEF RequestType
  <2>4. DOMAIN req' = Workers /\ req'[w] = row /\ \A v \in Workers \ {w} : req'[v] = req[v]
    BY <2>1 DEF CashInv
  <2> HIDE DEF row, s
  <2>5. lock' \in [Sessions -> Workers \cup {"free"}] /\ lock'[s] = w
        /\ \A t \in Sessions \ {s} : lock'[t] = lock[t]
    BY <1>2, <2>1, RowTypes
  <2>6. RequestOK(w)'
    <3>1. (req[w] \in RequestType)' /\ HoldsOpenSession(w)' /\ FoundOpenSession(w)'
          /\ FoundNoOpenSession(w)'
      BY <1>1, <1>2, <2>2, <2>3, <2>4, <2>5
         DEF HoldsOpenSession, FoundOpenSession, FoundNoOpenSession
    <3>2. SawExpenses(w)'
      BY <1>1, <1>2, <2>3, <2>4 DEF RequestOK, SawExpenses
    <3> QED
      BY <3>1, <3>2 DEF RequestOK
  <2>7. ASSUME NEW v \in Workers \ {w} PROVE RequestOK(v)'
    <3>1. \A t \in Sessions : lock[t] = v => lock'[t] = v
      BY <1>1, <2>5, Constants
    <3> QED
      BY <1>1, <2>4, <3>1, OthersKept, RowTypes, KindsAre
  <2>8. \A v \in Workers : RequestOK(v)'
    BY <2>6, <2>7
  <2> QED
    BY <1>1, <2>4, <2>5, <2>8, RequestsOnly DEF CashInv, TypeOK
<1>4. CASE ~RowUnchanged(w, s)
  <2>1. req' = [req EXCEPT ![w] = Idle] /\ lock' = lock
    BY <1>4 DEF Grant
  <2>2. DOMAIN req' = Workers /\ req'[w] = Idle /\ \A v \in Workers \ {w} : req'[v] = req[v]
    BY <2>1 DEF CashInv
  <2>3. RequestOK(w)'
    BY <2>2, IdleRequest DEF RequestOK, HoldsOpenSession, FoundOpenSession,
                             FoundNoOpenSession, SawExpenses
  <2>4. \A v \in Workers \ {w} : RequestOK(v)'
    BY <1>1, <2>1, <2>2, OthersKept, RowTypes, KindsAre
  <2>5. \A v \in Workers : RequestOK(v)'
    BY <2>3, <2>4
  <2> QED
    BY <1>1, <2>1, <2>2, <2>5, RowTypes, RequestsOnly DEF CashInv, TypeOK
<1> QED
  BY <1>3, <1>4

-----------------------------------------------------------------------------
\* The end of a transaction: its worker is idle, its locks are free, and the
\* others are as they were.
LEMMA FinishKeeps ==
  ASSUME CashInv, NEW w \in Workers, Finish(w),
         \A t \in Sessions : session[t].status = "closed" => session'[t].status = "closed",
         \A t \in Sessions : session[t].status = "open" /\ lock[t] # w =>
                               session'[t].status = "open",
         \A t \in Sessions : /\ drawer'[t]["expense"] \in Int
                             /\ drawer[t]["expense"] <= drawer'[t]["expense"]
  PROVE  /\ lock' \in [Sessions -> Workers \cup {"free"}]
         /\ DOMAIN req' = Workers
         /\ \A v \in Workers : RequestOK(v)'
<1>1. /\ req' = [req EXCEPT ![w] = Idle]
      /\ lock' = [s \in Sessions |-> IF lock[s] = w THEN "free" ELSE lock[s]]
  BY DEF Finish
<1>2. DOMAIN req' = Workers /\ req'[w] = Idle /\ \A v \in Workers \ {w} : req'[v] = req[v]
  BY <1>1 DEF CashInv
<1>3. lock' \in [Sessions -> Workers \cup {"free"}]
  BY <1>1, RowTypes
<1>4. RequestOK(w)'
  BY <1>2, IdleRequest DEF RequestOK, HoldsOpenSession, FoundOpenSession,
                           FoundNoOpenSession, SawExpenses
<1>5. ASSUME NEW v \in Workers \ {w} PROVE RequestOK(v)'
  <2>1. \A t \in Sessions : lock[t] = v => lock'[t] = v /\ lock[t] # w
    BY <1>1
  <2> QED
    BY <1>2, <2>1, OthersKept, RowTypes, KindsAre
<1> QED
  BY <1>2, <1>3, <1>4, <1>5

\* A rolled back transaction leaves no trace.
LEMMA AbortInv ==
  ASSUME CashInv, NEW w \in Workers, Abort(w)
  PROVE  CashInv'
<1>1. Finish(w) /\ UNCHANGED <<session, drawer, today>>
  BY DEF Abort
<1>2. /\ lock' \in [Sessions -> Workers \cup {"free"}]
      /\ DOMAIN req' = Workers
      /\ \A v \in Workers : RequestOK(v)'
  BY <1>1, FinishKeeps, RowTypes, KindsAre
<1> QED
  BY <1>1, <1>2, RequestsOnly DEF CashInv, TypeOK

\* A movement is added to a session that is open.
LEMMA CommitMovementInv ==
  ASSUME CashInv, NEW w \in Workers, CommitMovement(w)
  PROVE  CashInv'
<1> DEFINE s == req[w].target
           m == req[w].kind
<1>1. /\ req[w].pc = "running" /\ m \in Movements
      /\ drawer[s][m] < MaxRows
      /\ drawer' = [drawer EXCEPT ![s][m] = @ + 1]
      /\ Finish(w)
      /\ UNCHANGED <<session, today>>
  BY DEF CommitMovement
<1>2. s \in Sessions /\ session[s].status = "open"
  BY <1>1, KindsAre DEF CashInv, RequestOK, HoldsOpenSession
<1> HIDE DEF s, m
<1>3. drawer[s][m] \in Nat /\ drawer[s][m] + 1 \in 0..MaxRows
  BY <1>1, <1>2, RowTypes, Constants
<1>4. drawer' \in Counts
  BY <1>1, <1>2, <1>3, RowTypes DEF Counts
<1>5. /\ \A t \in Sessions \ {s} : drawer'[t] = drawer[t]
      /\ \A k \in Movements :
           drawer'[s][k] = IF k = m THEN drawer[s][m] + 1 ELSE drawer[s][k]
  BY <1>1, <1>2, RowTypes DEF Counts
<1>6. \A t \in Sessions : /\ drawer'[t]["expense"] \in Int
                          /\ drawer[t]["expense"] <= drawer'[t]["expense"]
  BY <1>3, <1>5, RowTypes, KindsAre
<1>7. /\ lock' \in [Sessions -> Workers \cup {"free"}]
      /\ DOMAIN req' = Workers
      /\ \A v \in Workers : RequestOK(v)'
  BY <1>1, <1>6, FinishKeeps
<1>8. TypeOK'
  BY <1>1, <1>4, <1>7 DEF CashInv, TypeOK, Counts, RequestOK, RequestType
<1>9. AtMostOneOpenSession'
  BY <1>1 DEF CashInv, AtMostOneOpenSession, OpenIn
<1>10. ClosingCountsIncome'
  <2>1. \A t \in Sessions : session[t].status = "closed" => drawer'[t] = drawer[t]
    BY <1>2, <1>5
  <2> QED
    BY <1>1, <2>1 DEF CashInv, ClosingCountsIncome
<1> QED
  BY <1>7, <1>8, <1>9, <1>10 DEF CashInv

\* No session is open when an opening commits: those it saw closed still are,
\* and no other was opened meanwhile.
LEMMA OpensOnAFreeDrawer ==
  ASSUME CashInv, NEW w \in Workers, NEW s \in Sessions, NEW opening \in OpeningCash,
         CommitOpen(w, s, opening), NEW t \in Sessions
  PROVE  session[t].status # "open"
<1>1. /\ req[w].pc = "running" /\ req[w].kind = "open"
      /\ req[w].session[t].status = "none" => session[t].status = "none"
  BY DEF CommitOpen
<1>2. /\ req[w].session \in Rows
      /\ req[w].session[t].status # "open"
      /\ req[w].session[t].status = "closed" => session[t].status = "closed"
  BY <1>1 DEF CashInv, RequestOK, FoundNoOpenSession
<1>3. req[w].session[t].status \in {"none", "open", "closed"}
  BY <1>2 DEF Rows
<1> QED
  BY <1>1, <1>2, <1>3

\* An opening makes the one open session.
LEMMA CommitOpenInv ==
  ASSUME CashInv, NEW w \in Workers, NEW s \in Sessions, NEW opening \in OpeningCash,
         CommitOpen(w, s, opening)
  PROVE  CashInv'
<1> DEFINE row == [status |-> "open", cashier |-> req[w].cashier, day |-> req[w].day,
                   opening |-> opening, expected |-> 0]
<1>1. /\ req[w].pc = "running" /\ req[w].kind = "open"
      /\ session[s].status = "none"
      /\ \A t \in Sessions :
           req[w].session[t].status = "none" => session[t].status = "none"
      /\ session' = [session EXCEPT ![s] = row]
      /\ Finish(w)
      /\ UNCHANGED <<drawer, today>>
  BY DEF CommitOpen
<1>2. \A t \in Sessions : session[t].status # "open"
  BY OpensOnAFreeDrawer
<1>3. req[w] \in RequestType
  BY DEF CashInv, RequestOK
<1>4. session' \in Rows /\ row.status = "open"
  BY <1>1, <1>3, RowTypes DEF Rows, RequestType
<1> HIDE DEF row
<1>5. session'[s] = row /\ \A t \in Sessions \ {s} : session'[t] = session[t]
  BY <1>1, RowTypes DEF Rows
<1>6. /\ lock' \in [Sessions -> Workers \cup {"free"}]
      /\ DOMAIN req' = Workers
      /\ \A v \in Workers : RequestOK(v)'
  BY <1>1, <1>2, <1>5, FinishKeeps, RowTypes, KindsAre
<1>7. TypeOK'
  BY <1>1, <1>4, <1>6 DEF CashInv, TypeOK, Rows, RequestOK, RequestType
<1>8. AtMostOneOpenSession'
  BY <1>2, <1>5 DEF AtMostOneOpenSession, OpenIn
<1>9. ClosingCountsIncome'
  BY <1>1, <1>4, <1>5 DEF CashInv, ClosingCountsIncome
<1> QED
  BY <1>6, <1>7, <1>8, <1>9 DEF CashInv

\* The rows a closing must have seen are those it settles on.
LEMMA CommitCloseInv ==
  ASSUME CashInv, NEW w \in Workers, CommitClose(w)
  PROVE  CashInv'
<1> DEFINE s        == req[w].target
           seen     == req[w].drawer[s]
           expected == session[s].opening + DrawerMovement(seen)
<1>1. /\ req[w].pc = "running" /\ req[w].kind = "close"
      /\ \A k \in ClosingReads : drawer[s][k] = seen[k]
      /\ SafeInteger(expected)
      /\ session' = [session EXCEPT ![s].status = "closed", ![s].expected = expected]
      /\ Finish(w)
      /\ UNCHANGED <<drawer, today>>
  BY DEF CommitClose
<1>2. /\ s \in Sessions /\ session[s].status = "open" /\ lock[s] = w
      /\ req[w].drawer \in Counts
      /\ seen["expense"] <= drawer[s]["expense"]
  BY <1>1 DEF CashInv, RequestOK, HoldsOpenSession, SawExpenses
<1>3. \A k \in Movements : seen[k] \in Int /\ seen[k] >= 0
  <2>1. \A k \in Movements : seen[k] \in 0..MaxRows
    BY <1>2 DEF Counts
  <2> QED
    BY <2>1, Constants
<1>4. session[s].opening \in Nat
  <2>1. session[s].opening \in OpeningCash \cup {0}
    BY <1>2, RowTypes DEF Rows
  <2>2. OpeningCash \cup {0} \subseteq Nat
    BY Constants
  <2> HIDE DEF s
  <2> QED
    BY <2>1, <2>2
<1>5. DrawerMovement(seen) =
        seen["sale"] + (seen["externalIn"] - seen["externalOut"]) - seen["expense"]
  BY DEF DrawerMovement
<1> HIDE DEF seen, s
<1>6. expected \in Nat
  BY <1>1, <1>3, <1>4, <1>5, KindsAre DEF SafeInteger
<1>7. expected = session[s].opening + drawer[s]["sale"]
        + (drawer[s]["externalIn"] - drawer[s]["externalOut"]) - seen["expense"]
  BY <1>1, <1>3, <1>4, <1>5, KindsAre DEF ClosingReads
<1> HIDE DEF expected
<1> DEFINE row == [session[s] EXCEPT !.status = "closed", !.expected = expected]
<1>8. /\ row \in [status: {"none", "open", "closed"},
                  cashier: Cashiers \cup {NoCashier},
                  day: 0..MaxDay, opening: OpeningCash \cup {0}, expected: Nat]
      /\ row.status = "closed" /\ row.expected = expected
      /\ row.opening = session[s].opening
  BY <1>2, <1>6, RowTypes DEF Rows
<1>9. session' = [session EXCEPT ![s] = row]
  BY <1>1
<1> HIDE DEF row
<1>10. session' \in Rows
  BY <1>8, <1>9, RowTypes DEF Rows
<1>11. session'[s] = row /\ \A t \in Sessions \ {s} : session'[t] = session[t]
  BY <1>2, <1>9, RowTypes DEF Rows
<1>12. /\ lock' \in [Sessions -> Workers \cup {"free"}]
       /\ DOMAIN req' = Workers
       /\ \A v \in Workers : RequestOK(v)'
  <2>1. \A t \in Sessions : session[t].status = "closed" => session'[t].status = "closed"
    BY <1>2, <1>11
  <2>2. \A t \in Sessions : session[t].status = "open" /\ lock[t] # w =>
                            session'[t].status = "open"
    BY <1>2, <1>11
  <2>3. \A t \in Sessions : /\ drawer'[t]["expense"] \in Int
                            /\ drawer[t]["expense"] <= drawer'[t]["expense"]
    <3>1. drawer' = drawer
      BY <1>1
    <3> QED
      BY <3>1, RowTypes, KindsAre
  <2>4. Finish(w)
    BY <1>1
  <2> QED
    BY <2>1, <2>2, <2>3, <2>4, FinishKeeps
<1>13. TypeOK'
  BY <1>1, <1>10, <1>12 DEF CashInv, TypeOK, Rows, RequestOK, RequestType
<1>14. AtMostOneOpenSession'
  BY <1>8, <1>11 DEF CashInv, AtMostOneOpenSession, OpenIn
<1>15. ClosingCountsIncome'
  <2> DEFINE income(rows, t) == rows[t].opening + drawer[t]["sale"]
                             + (drawer[t]["externalIn"] - drawer[t]["externalOut"])
  <2>1. seen["expense"] \in 0..drawer[s]["expense"]
    BY <1>2, <1>3, RowTypes, KindsAre
  <2>2. session'[s].expected = income(session', s) - seen["expense"]
    <3>1. session'[s].opening = session[s].opening /\ session'[s].expected = expected
      BY <1>8, <1>11
    <3>2. /\ drawer[s]["sale"] \in Int /\ drawer[s]["externalIn"] \in Int
          /\ drawer[s]["externalOut"] \in Int
      BY <1>2, RowTypes, KindsAre
    <3>3. seen["expense"] \in Int
      BY <1>3, KindsAre
    <3> QED
      BY <1>4, <1>7, <3>1, <3>2, <3>3
  <2>3. \A t \in Sessions \ {s} : session'[t].status = "closed" =>
          \E e \in 0..drawer[t]["expense"] :
            session'[t].expected = income(session', t) - e
    BY <1>11 DEF CashInv, ClosingCountsIncome
  <2>4. \A t \in Sessions : session'[t].status = "closed" =>
          \E e \in 0..drawer[t]["expense"] :
            session'[t].expected = income(session', t) - e
    BY <2>1, <2>2, <2>3
  <2> QED
    BY <1>1, <2>4 DEF ClosingCountsIncome
<1> QED
  BY <1>12, <1>13, <1>14, <1>15 DEF CashInv

-----------------------------------------------------------------------------
\* Every step of the cash drawer keeps the invariant.
LEMMA CashStepInv == CashInv /\ [Next]_vars => CashInv'
<1> SUFFICES ASSUME CashInv, [Next]_vars PROVE CashInv'
  OBVIOUS
<1>1. ASSUME NEW w \in Workers, NEW m \in Movements, NEW c \in Cashiers,
             BeginMovement(w, m, c)
      PROVE  CashInv'
  BY <1>1, BeginMovementInv
<1>2. ASSUME NEW w \in Workers, NEW c \in Cashiers, BeginOpen(w, c)
      PROVE  CashInv'
  BY <1>2, BeginOpenInv
<1>3. ASSUME NEW w \in Workers, NEW s \in Sessions, BeginClose(w, s)
      PROVE  CashInv'
  BY <1>3, BeginCloseInv
<1>4. ASSUME NEW w \in Workers,
             Grant(w) \/ CommitMovement(w) \/ CommitClose(w) \/ Abort(w)
      PROVE  CashInv'
  BY <1>4, GrantInv, CommitMovementInv, CommitCloseInv, AbortInv
<1>5. ASSUME NEW w \in Workers, NEW s \in Sessions, NEW opening \in OpeningCash,
             CommitOpen(w, s, opening)
      PROVE  CashInv'
  BY <1>5, CommitOpenInv
<1>6. CASE NextDay
  <2>1. UNCHANGED <<session, drawer, lock, req>> /\ today' \in 1..MaxDay
    BY <1>6, Constants DEF NextDay, CashInv, TypeOK
  <2>2. \A w \in Workers : RequestOK(w)'
    BY <2>1, OthersKept, RowTypes, KindsAre
  <2> QED
    BY <2>1, <2>2, RowTypes, RequestsOnly DEF CashInv
<1>7. CASE UNCHANGED vars
  <2>1. UNCHANGED <<session, drawer, lock, req>> /\ today' = today
    BY <1>7 DEF vars
  <2>2. \A w \in Workers : RequestOK(w)'
    BY <2>1, OthersKept, RowTypes, KindsAre
  <2> QED
    BY <2>1, <2>2, RowTypes, RequestsOnly DEF CashInv, TypeOK
<1> QED
  BY <1>1, <1>2, <1>3, <1>4, <1>5, <1>6, <1>7 DEF Next

\* The invariant holds in every reachable state, for any number of requests at
\* the same time: the base of the theorems below.
THEOREM CashInvariant == Spec => []CashInv
<1>1. Init => CashInv
  BY InitInv
<1>2. CashInv /\ [Next]_vars => CashInv'
  BY CashStepInv
<1> QED
  BY <1>1, <1>2, PTL DEF Spec

\* The cash sessions stay well typed; no closing expects a negative amount.
THEOREM CashTypes == Spec => []TypeOK
<1>1. CashInv => TypeOK
  BY DEF CashInv
<1> QED
  BY <1>1, CashInvariant, PTL

\* However many cashiers open a session at once, at most one is open.
THEOREM OneOpenSession == Spec => []AtMostOneOpenSession
<1>1. CashInv => AtMostOneOpenSession
  BY DEF CashInv
<1> QED
  BY <1>1, CashInvariant, PTL

\* A closing misses no cash sale and no external service.
THEOREM IncomeIsCounted == Spec => []ClosingCountsIncome
<1>1. CashInv => ClosingCountsIncome
  BY DEF CashInv
<1> QED
  BY <1>1, CashInvariant, PTL

\* Nothing is posted to a closed session and its settlement never changes.
THEOREM ClosingsAreFinal == Spec => ClosedSessionsAreFinal
<1> DEFINE Final ==
      \A s \in Sessions : session[s].status = "closed" =>
        session'[s] = session[s] /\ drawer'[s] = drawer[s]
<1>1. CashInv /\ [Next]_vars => [Final]_vars
  <2> SUFFICES ASSUME CashInv, Next, NEW s \in Sessions, session[s].status = "closed"
               PROVE  session'[s] = session[s] /\ drawer'[s] = drawer[s]
    OBVIOUS
  <2>1. ASSUME NEW w \in Workers, CommitMovement(w)
        PROVE  session' = session /\ drawer'[s] = drawer[s]
    <3>1. req[w].pc = "running" /\ req[w].kind \in Movements
      BY <2>1 DEF CommitMovement
    <3>2. req[w].target \in Sessions /\ req[w].target # s
      BY <3>1, KindsAre DEF CashInv, RequestOK, HoldsOpenSession
    <3> QED
      BY <2>1, <3>2, RowTypes DEF CommitMovement, Counts
  <2>2. ASSUME NEW w \in Workers, CommitClose(w)
        PROVE  session'[s] = session[s] /\ drawer' = drawer
    <3>1. req[w].pc = "running" /\ req[w].kind = "close"
      BY <2>2 DEF CommitClose
    <3>2. req[w].target \in Sessions /\ req[w].target # s
      BY <3>1 DEF CashInv, RequestOK, HoldsOpenSession
    <3>3. /\ drawer' = drawer
          /\ \E e : session' = [session EXCEPT ![req[w].target].status = "closed",
                                                ![req[w].target].expected = e]
      BY <2>2 DEF CommitClose
    <3> QED
      BY <3>2, <3>3, RowTypes DEF Rows
  <2>3. ASSUME NEW w \in Workers, NEW t \in Sessions, NEW opening \in OpeningCash,
               CommitOpen(w, t, opening)
        PROVE  session'[s] = session[s] /\ drawer' = drawer
    <3>1. t # s
      BY <2>3 DEF CommitOpen
    <3> QED
      BY <2>3, <3>1, RowTypes DEF CommitOpen, Rows
  <2>4. \/ \E w \in Workers : CommitMovement(w) \/ CommitClose(w)
        \/ \E w \in Workers, t \in Sessions, opening \in OpeningCash :
             CommitOpen(w, t, opening)
        \/ UNCHANGED <<session, drawer>>
    BY DEF Next, BeginMovement, BeginOpen, BeginClose, Grant, Abort, NextDay
  <2> QED
    BY <2>1, <2>2, <2>3, <2>4
<1> QED
  BY <1>1, CashInvariant, PTL DEF Spec, ClosedSessionsAreFinal
-----------------------------------------------------------------------------
(* The abstract drawer.                                                     *)

\* Who sent a request, and that its business date has come.
WhoAndWhen ==
  \A w \in Workers : req[w].pc # "idle" =>
    /\ req[w].day \in 1..MaxDay /\ req[w].day <= today
    /\ req[w].kind # "close" => req[w].cashier \in Cashiers

LEMMA StartDated ==
  ASSUME CashInv, WhoAndWhen, NEW w \in Workers, NEW kind, NEW target,
         NEW cashier, kind # "close" => cashier \in Cashiers,
         Start(w, kind, cashier, target), today' = today
  PROVE  WhoAndWhen'
<1>1. /\ req'[w].day = today /\ req'[w].kind = kind /\ req'[w].cashier = cashier
      /\ \A v \in Workers \ {w} : req'[v] = req[v]
  BY DEF Start, CashInv
<1>2. today \in 1..MaxDay
  BY DEF CashInv, TypeOK
<1> QED
  BY <1>1, <1>2, Constants DEF WhoAndWhen

LEMMA StepDated == CashInv /\ WhoAndWhen /\ [Next]_vars => WhoAndWhen'
<1> SUFFICES ASSUME CashInv, WhoAndWhen, [Next]_vars PROVE WhoAndWhen'
  OBVIOUS
<1>1. ASSUME NEW w \in Workers, NEW m \in Movements, NEW c \in Cashiers,
             BeginMovement(w, m, c)
      PROVE  WhoAndWhen'
  BY <1>1, StartDated DEF BeginMovement
<1>2. ASSUME NEW w \in Workers, NEW c \in Cashiers, BeginOpen(w, c)
      PROVE  WhoAndWhen'
  BY <1>2, StartDated DEF BeginOpen
<1>3. ASSUME NEW w \in Workers, NEW s \in Sessions, BeginClose(w, s)
      PROVE  WhoAndWhen'
  BY <1>3, StartDated DEF BeginClose
<1>4. ASSUME NEW w \in Workers, req' = [req EXCEPT ![w] = Idle], today' = today
      PROVE  WhoAndWhen'
  <2>1. req'[w].pc = "idle" /\ \A v \in Workers \ {w} : req'[v] = req[v]
    BY <1>4, IdleRequest DEF CashInv
  <2> QED
    BY <1>4, <2>1 DEF WhoAndWhen
<1>5. ASSUME NEW w \in Workers, Grant(w)
      PROVE  WhoAndWhen'
  <2>1. CASE req' = [req EXCEPT ![w].pc = "running"]
    <3>1. /\ req[w] \in RequestType /\ req[w].pc # "idle" /\ today' = today
          /\ DOMAIN req = Workers
      BY <1>5 DEF Grant, CashInv, RequestOK
    <3>2. /\ req'[w].day = req[w].day /\ req'[w].kind = req[w].kind
          /\ req'[w].cashier = req[w].cashier
          /\ \A v \in Workers \ {w} : req'[v] = req[v]
      BY <2>1, <3>1 DEF RequestType
    <3> QED
      BY <3>1, <3>2 DEF WhoAndWhen
  <2> QED
    BY <1>4, <1>5, <2>1 DEF Grant
<1>6. ASSUME NEW w \in Workers, Finish(w), today' = today PROVE WhoAndWhen'
  BY <1>4, <1>6 DEF Finish
<1>7. ASSUME NEW w \in Workers,
             \/ CommitMovement(w) \/ CommitClose(w) \/ Abort(w)
             \/ \E s \in Sessions, opening \in OpeningCash : CommitOpen(w, s, opening)
      PROVE  WhoAndWhen'
  BY <1>6, <1>7 DEF CommitMovement, CommitClose, Abort, CommitOpen
<1>8. CASE NextDay
  <2>1. req' = req /\ today' = today + 1 /\ today \in Int
    BY <1>8, Constants DEF NextDay, CashInv, TypeOK
  <2> QED
    BY <2>1, Constants DEF WhoAndWhen
<1>9. CASE UNCHANGED vars
  BY <1>9 DEF vars, WhoAndWhen
<1> QED
  BY <1>1, <1>2, <1>3, <1>5, <1>7, <1>8, <1>9 DEF Next

\* A movement is posted to a session that is open when it commits.
LEMMA MovementImplementsPost ==
  ASSUME CashInv, NEW w \in Workers, CommitMovement(w)
  PROVE  Atomic!Next
<1>1. /\ req[w].pc = "running" /\ req[w].kind \in Movements
      /\ drawer[req[w].target][req[w].kind] < MaxRows
      /\ drawer' = [drawer EXCEPT ![req[w].target][req[w].kind] = @ + 1]
      /\ UNCHANGED <<session, today>>
  BY DEF CommitMovement
<1>2. req[w].target \in Sessions /\ session[req[w].target].status = "open"
  BY <1>1, KindsAre DEF CashInv, RequestOK, HoldsOpenSession
<1>3. Atomic!Post(req[w].target, req[w].kind)
  BY <1>1, <1>2 DEF Atomic!Post
<1> QED
  BY <1>1, <1>2, <1>3 DEF Atomic!Next

\* A session is opened on a free drawer.
LEMMA OpenImplementsOpen ==
  ASSUME CashInv, WhoAndWhen, NEW w \in Workers, NEW s \in Sessions,
         NEW opening \in OpeningCash, CommitOpen(w, s, opening)
  PROVE  Atomic!Next
<1>1. /\ req[w].pc = "running" /\ req[w].kind = "open" /\ session[s].status = "none"
      /\ session' = [session EXCEPT ![s] =
           [status |-> "open", cashier |-> req[w].cashier, day |-> req[w].day,
            opening |-> opening, expected |-> 0]]
      /\ UNCHANGED <<drawer, today>>
  BY DEF CommitOpen
<1>2. /\ req[w].day \in 1..MaxDay /\ req[w].day <= today
      /\ req[w].cashier \in Cashiers
  BY <1>1 DEF WhoAndWhen
<1>3. \A t \in Sessions : session[t].status # "open"
  BY OpensOnAFreeDrawer
<1>4. Atomic!Open(s, req[w].cashier, req[w].day, opening)
  BY <1>1, <1>2, <1>3 DEF Atomic!Open
<1> QED
  BY <1>2, <1>4 DEF Atomic!Next

\* What a closing read of sales and services is what there is; of the expenses
\* it read some.
LEMMA CloseImplementsClose ==
  ASSUME CashInv, NEW w \in Workers, CommitClose(w)
  PROVE  Atomic!Next
<1> DEFINE s    == req[w].target
           seen == req[w].drawer[s]
<1>1. /\ req[w].pc = "running" /\ req[w].kind = "close"
      /\ \A k \in ClosingReads : drawer[s][k] = seen[k]
      /\ SafeInteger(session[s].opening + DrawerMovement(seen))
      /\ session' = [session EXCEPT ![s].status = "closed",
                       ![s].expected = session[s].opening + DrawerMovement(seen)]
      /\ UNCHANGED <<drawer, today>>
  BY DEF CommitClose
<1>2. /\ s \in Sessions /\ session[s].status = "open"
      /\ req[w].drawer \in Counts
      /\ seen["expense"] <= drawer[s]["expense"]
  BY <1>1 DEF CashInv, RequestOK, HoldsOpenSession, SawExpenses
<1>3. seen["expense"] \in 0..MaxRows
  BY <1>2, KindsAre DEF Counts
<1>4. session[s].opening \in Int
  <2>1. session[s].opening \in OpeningCash \cup {0}
    BY <1>2, RowTypes DEF Rows
  <2>2. OpeningCash \cup {0} \subseteq Int
    BY Constants
  <2> HIDE DEF s
  <2> QED
    BY <2>1, <2>2
<1>5. DrawerMovement(seen) =
        seen["sale"] + (seen["externalIn"] - seen["externalOut"]) - seen["expense"]
  BY DEF DrawerMovement
<1>6. \A k \in Movements : drawer[s][k] \in Int
  BY <1>2, RowTypes
<1> HIDE DEF seen, s
<1>7. session[s].opening + DrawerMovement(seen) = Atomic!Income(s) - seen["expense"]
  BY <1>1, <1>3, <1>4, <1>5, <1>6, KindsAre, Constants DEF ClosingReads, Atomic!Income
<1>8. Atomic!Income(s) >= seen["expense"]
  BY <1>1, <1>3, <1>4, <1>6, <1>7, KindsAre, Constants DEF SafeInteger, Atomic!Income
<1>9. Atomic!Close(s, seen["expense"])
  BY <1>1, <1>2, <1>7, <1>8 DEF Atomic!Close
<1> QED
  BY <1>2, <1>3, <1>9 DEF Atomic!Next

\* Requests that wait for locks on snapshots of the past, and fail for reasons
\* of their own, act as if each had happened at one instant.
THEOREM CashDeskIsAtomic == Spec => DrawerIsAtomic
<1>1. CashInv /\ WhoAndWhen /\ [Next]_vars => [Atomic!Next]_<<session, drawer, today>>
  <2> SUFFICES ASSUME CashInv, WhoAndWhen, [Next]_vars
               PROVE  Atomic!Next \/ UNCHANGED <<session, drawer, today>>
    OBVIOUS
  <2>1. ASSUME NEW w \in Workers,
               \/ \E m \in Movements, c \in Cashiers : BeginMovement(w, m, c)
               \/ \E c \in Cashiers : BeginOpen(w, c)
               \/ \E s \in Sessions : BeginClose(w, s)
               \/ Grant(w) \/ Abort(w)
        PROVE  UNCHANGED <<session, drawer, today>>
    BY <2>1 DEF BeginMovement, BeginOpen, BeginClose, Grant, Abort
  <2>2. CASE NextDay
    BY <2>2 DEF NextDay, Atomic!NextDay, Atomic!Next
  <2>3. CASE UNCHANGED vars
    BY <2>3 DEF vars
  <2> QED
    BY <2>1, <2>2, <2>3, MovementImplementsPost, OpenImplementsOpen, CloseImplementsClose
    DEF Next
<1>2. Init => WhoAndWhen /\ Atomic!Init
  BY IdleRequest DEF Init, WhoAndWhen, Atomic!Init
<1> QED
  BY <1>1, <1>2, StepDated, CashInvariant, PTL
  DEF Spec, DrawerIsAtomic, Atomic!Spec, Atomic!drawerVars
=============================================================================
