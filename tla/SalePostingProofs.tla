-------------------------- MODULE SalePostingProofs --------------------------
(***************************************************************************)
(* Proofs about posting a sale, for any clients, sales, units, keys, credit *)
(* limit and bounds: the answers are true and the refusals final, invoices  *)
(* are gapless, credit stays within its limit, no unit is sold twice, and   *)
(* the protocol of locks, snapshots and retries implements AtomicPosting.   *)
(***************************************************************************)
EXTENDS SalePosting, FiniteSetTheorems, TLAPS

-----------------------------------------------------------------------------
(* The inductive invariant.                                                 *)

SaleRow == [status: {"draft", "posted", "cancelled"}, version: 1..MaxVersion+1,
            by: Requests \cup {NotPosted}, invoice: Nat]
UnitRow == [state: {"available", "away", "sold"}, version: 1..MaxUnitVersion+1]

SaleTable == [Sales -> SaleRow]
UnitTable == [Units -> UnitRow]

Attempt == [pc: {"idle", "begin", "sale", "units", "sequence", "commit",
                 "P2034", "P2002"},
            tries: 0..MaxRetries,
            doc: SaleTable \cup {<<>>},
            unit: UnitTable \cup {<<>>},
            invoices: Nat,
            units: SUBSET Units]

RowTypes ==
  /\ doc \in SaleTable
  /\ unit \in UnitTable
  /\ invoices \in Nat

LockTypes ==
  /\ saleLock \in [Sales -> Clients \cup {Staff, Free}]
  /\ unitLock \in [Units -> Clients \cup {Staff, Free}]
  /\ sequenceLock \in Clients \cup {Free}

ClientTypes ==
  /\ server \in [Clients -> Attempt]
  /\ request \in [Clients -> Requests \cup {NotPosted}]
  /\ reply \in [Clients -> Replies]

\* TypeOK, with the snapshots, the requests and the move.
Types ==
  /\ RowTypes /\ LockTypes /\ ClientTypes
  /\ move \in [unit: Units \cup {Free}, sales: SUBSET Sales]

\* What a sale's row says of the request that posted it.
SalesOK ==
  \A s \in Sales :
    IF doc[s].status = "posted"
      THEN /\ doc[s].by \in Requests
           /\ doc[s].by.sale = s
           /\ doc[s].invoice \in 1..invoices
      ELSE /\ doc[s].by = NotPosted
           /\ doc[s].status = "draft" => doc[s].version <= MaxVersion

\* One key posts one sale, one invoice number belongs to one sale.
OnePerKey ==
  \A s, t \in Posted(doc) : doc[s].by.key = doc[t].by.key => s = t

\* Units are sold by posted sales that list them; no two of these share a unit,
\* whatever has become of it.
OneSeller ==
  /\ \A u \in Units : unit[u].state = "sold" => \E s \in Posted(doc) : u \in Cart[s]
  /\ \A s, t \in Posted(doc) : Cart[s] \cap Cart[t] # {} => s = t
  /\ \A u \in Units : unit[u].state # "sold" => unit[u].version <= MaxUnitVersion

\* A request refused for good is not the one that posted its sale, and cannot
\* become it: the sale has moved on, or another sale has used the key.
Hopeless(r) ==
  /\ doc[r.sale].by # r
  /\ \/ doc[r.sale].status # "draft"
     \/ doc[r.sale].version > r.version
     \/ UsedBy(doc, r.key) # {}

ClientOK(c) ==
  /\ server[c].pc # "idle" \/ reply[c] \in Finals \cup {"posted", "replay"}
       => request[c] \in Requests
  /\ request[c] \in Requests => request[c].version <= doc[request[c].sale].version
  /\ server[c].pc # "idle" => reply[c] = "none"
  /\ reply[c] \in {"posted", "replay"} =>
       /\ doc[request[c].sale].status = "posted"
       /\ doc[request[c].sale].by = request[c]
  /\ reply[c] \in Finals => Hopeless(request[c])

\* Sales posted on credit.
Credited(docs) == {s \in Posted(docs) : docs[s].by.payments = "credit"}

\* The snapshot of an attempt is of the past: as long as no number was given
\* out since, the same sales are posted on credit.
SnapshotOK(c) ==
  server[c].pc \in {"sale", "units"} =>
    /\ server[c].doc \in SaleTable
    /\ server[c].unit \in UnitTable
    /\ server[c].invoices <= invoices
    /\ server[c].invoices = invoices => Credited(server[c].doc) = Credited(doc)

\* The sale of an attempt that locked it is the draft that was asked for.
SaleHeld(c) ==
  server[c].pc \in {"units", "sequence", "commit"} =>
    LET s == request[c].sale
    IN  /\ saleLock[s] = c
        /\ doc[s].status = "draft"
        /\ doc[s].version = request[c].version

\* Units that are locked are as the snapshot shows them; later on, they are on
\* the shelf and their index entries are the attempt's.
UnitsHeld(c) ==
  /\ server[c].pc = "units" =>
       \A u \in Cart[request[c].sale] \ server[c].units :
         unitLock[u] = c /\ unit[u] = server[c].unit[u]
  /\ server[c].pc \in {"sequence", "commit"} =>
       \A u \in Cart[request[c].sale] :
         unitLock[u] = c /\ unit[u].state = "available"
  /\ server[c].pc \in {"sequence", "commit"} => ~UnitBarred(request[c].sale)

\* The credit that was checked is still there unless a number was given out
\* since; whoever is to commit holds the sequence, and it has not moved.
CreditHeld(c) ==
  /\ server[c].pc \in {"sequence", "commit"} =>
       /\ server[c].invoices <= invoices
       /\ server[c].invoices = invoices /\ request[c].payments = "credit"
            => Exposure(doc) < CreditLimit
  /\ server[c].pc = "commit" => sequenceLock = c /\ server[c].invoices = invoices

AttemptOK(c) ==
  ClientOK(c) /\ SnapshotOK(c) /\ SaleHeld(c) /\ UnitsHeld(c) /\ CreditHeld(c)

\* The unit on the move is locked, and not sold.
MoveOK ==
  move # NoMove =>
    /\ move.unit \in Units
    /\ unitLock[move.unit] = Staff
    /\ unit[move.unit].state # "sold"
    /\ unit[move.unit].version < MaxUnitVersion

\* The committed rows alone.
RowsOK ==
  /\ SalesOK /\ OnePerKey /\ OneSeller
  /\ InvoicesAreGapless /\ CreditWithinLimit

PostingInv ==
  /\ Types
  /\ RowsOK
  /\ \A c \in Clients : AttemptOK(c)
  /\ MoveOK

-----------------------------------------------------------------------------
LEMMA InitOK == Init => PostingInv
<1> SUFFICES ASSUME Init PROVE PostingInv
  OBVIOUS
<1> USE PostingAssumption, NotPostedAssumption
<1>1. Types
  BY DEF Init, Types, RowTypes, LockTypes, ClientTypes, SaleTable, UnitTable, SaleRow, UnitRow, Attempt,
         NoAttempt, NoMove, MaxRetries, Replies
<1>2. Posted(doc) = {}
  BY DEF Init, Posted
<1>3. SalesOK /\ OnePerKey /\ OneSeller
  BY <1>2 DEF Init, SalesOK, OnePerKey, OneSeller
<1>4. Cardinality({}) = 0 /\ 1..0 = {}
  BY FS_EmptySet
<1>5. InvoicesAreGapless
  BY <1>2, <1>4 DEF Init, InvoicesAreGapless
<1>6. CreditWithinLimit
  BY <1>2, <1>4 DEF CreditWithinLimit, Exposure
<1>7. ASSUME NEW c \in Clients PROVE AttemptOK(c)
  BY DEF Init, NoAttempt, AttemptOK, ClientOK, SnapshotOK, SaleHeld, UnitsHeld,
         CreditHeld, Finals
<1>8. MoveOK
  BY DEF Init, MoveOK
<1> QED
  BY <1>1, <1>3, <1>5, <1>6, <1>7, <1>8 DEF PostingInv, RowsOK

-----------------------------------------------------------------------------
(* Steps that leave the committed rows alone.                               *)

\* The locks that a process other than p holds stay with it.
OthersKeepLocks(p) ==
  /\ \A s \in Sales : saleLock[s] # p /\ saleLock[s] # Free => saleLock'[s] = saleLock[s]
  /\ \A u \in Units : unitLock[u] # p /\ unitLock[u] # Free => unitLock'[u] = unitLock[u]
  /\ sequenceLock # p /\ sequenceLock # Free => sequenceLock' = sequenceLock

\* The attempt of client d is not touched.
Untouched(d) ==
  server'[d] = server[d] /\ request'[d] = request[d] /\ reply'[d] = reply[d]

LEMMA RowsKept ==
  ASSUME RowsOK, UNCHANGED rows
  PROVE  RowsOK'
BY DEF rows, RowsOK, SalesOK, OnePerKey, OneSeller, InvoicesAreGapless, CreditWithinLimit,
       Exposure, Posted

LEMMA AttemptKept ==
  ASSUME UNCHANGED rows, NEW d \in Clients, NEW p \in (Clients \cup {Staff}) \ {d},
         AttemptOK(d), Untouched(d), OthersKeepLocks(p), ClientTypes
  PROVE  AttemptOK(d)'
<1> USE PostingAssumption DEF rows, Untouched, AttemptOK
<1>r. request[d] \in Requests => request[d].sale \in Sales
  BY DEF Requests
<1>1. ClientOK(d)'
  BY DEF ClientOK, Hopeless, UsedBy, Posted
<1>2. SnapshotOK(d)'
  BY DEF SnapshotOK, Credited, Posted
<1>3. SaleHeld(d)'
  BY <1>r DEF ClientOK, SaleHeld, OthersKeepLocks
<1>4. UnitsHeld(d)'
  BY <1>r DEF ClientOK, UnitsHeld, OthersKeepLocks, UnitBarred, Posted
<1>5. CreditHeld(d)'
  BY DEF CreditHeld, OthersKeepLocks, Exposure, Posted
<1> QED
  BY <1>1, <1>2, <1>3, <1>4, <1>5

LEMMA ReleaseKeeps ==
  ASSUME LockTypes, NEW p, ReleaseLocks(p)
  PROVE  LockTypes' /\ OthersKeepLocks(p)
BY DEF LockTypes, ReleaseLocks, OthersKeepLocks

LEMMA MoveKept ==
  ASSUME MoveOK, UNCHANGED <<rows, move>>, NEW c \in Clients, OthersKeepLocks(c)
  PROVE  MoveOK'
BY PostingAssumption DEF MoveOK, rows, OthersKeepLocks

\* A step of client c that only moves its attempt.
LEMMA StepKeepsInv ==
  ASSUME PostingInv, NEW c \in Clients, UNCHANGED <<rows, move>>,
         OthersKeepLocks(c), LockTypes', ClientTypes', AttemptOK(c)',
         \A d \in Clients \ {c} : Untouched(d)
  PROVE  PostingInv'
<1>1. Types'
  BY DEF PostingInv, Types, RowTypes, rows
<1>2. RowsOK'
  BY RowsKept DEF PostingInv
<1>3. ASSUME NEW d \in Clients PROVE AttemptOK(d)'
  <2>1. CASE d = c
    BY <2>1
  <2>2. CASE d # c
    BY <2>2, AttemptKept DEF PostingInv, Types
  <2> QED
    BY <2>1, <2>2
<1>4. MoveOK'
  BY MoveKept DEF PostingInv
<1> QED
  BY <1>1, <1>2, <1>3, <1>4 DEF PostingInv

-----------------------------------------------------------------------------
(* The steps of an attempt.                                                 *)

LEMMA ActiveRequest ==
  ASSUME PostingInv, NEW c \in Clients, server[c].pc # "idle"
  PROVE  /\ request[c] \in Requests /\ request[c].sale \in Sales
         /\ Cart[request[c].sale] \subseteq Units
         /\ reply[c] = "none"
         /\ request[c].version \in 1..MaxVersion
         /\ request[c].version <= doc[request[c].sale].version
         /\ doc[request[c].sale] \in SaleRow
BY PostingAssumption DEF PostingInv, AttemptOK, ClientOK, Requests, Types, RowTypes, SaleTable

\* Client c goes on with attempt a.
LEMMA NewAttempt ==
  ASSUME ClientTypes, NEW c \in Clients, NEW a \in Attempt,
         server' = [server EXCEPT ![c] = a], UNCHANGED <<request, reply>>
  PROVE  /\ ClientTypes' /\ \A d \in Clients \ {c} : Untouched(d)
         /\ server'[c] = a /\ request'[c] = request[c] /\ reply'[c] = reply[c]
BY DEF ClientTypes, Untouched

LEMMA AnswerKeepsInv ==
  ASSUME PostingInv, NEW c \in Clients, server[c].pc # "idle", UNCHANGED <<rows, move>>,
         NEW a \in Replies \ {"none"}, Answer(c, a),
         a \in {"posted", "replay"} =>
           doc[request[c].sale].status = "posted" /\ doc[request[c].sale].by = request[c],
         a \in Finals => Hopeless(request[c])
  PROVE  PostingInv'
<1>1. LockTypes' /\ OthersKeepLocks(c)
  BY ReleaseKeeps DEF Answer, PostingInv, Types
<1>2. NoAttempt \in Attempt /\ NoAttempt.pc = "idle"
  BY DEF NoAttempt, Attempt, MaxRetries
<1>3. ClientTypes'
  BY <1>2 DEF Answer, ClientTypes, PostingInv, Types
<1>4. /\ server'[c] = NoAttempt /\ reply'[c] = a
      /\ request'[c] = IF a \in Retryable THEN NotPosted ELSE request[c]
  BY DEF Answer, ClientTypes, PostingInv, Types
<1>5. ClientOK(c)'
  <2>1. CASE a \in Retryable
    BY <2>1, <1>2, <1>4, NotPostedAssumption DEF ClientOK, Retryable, Finals
  <2>2. CASE a \notin Retryable
    BY <2>2, <1>2, <1>4, ActiveRequest DEF ClientOK, Hopeless, UsedBy, Posted, rows
  <2> QED
    BY <2>1, <2>2
<1>6. AttemptOK(c)'
  BY <1>2, <1>4, <1>5 DEF AttemptOK, SnapshotOK, SaleHeld, UnitsHeld, CreditHeld
<1>7. \A d \in Clients \ {c} : Untouched(d)
  BY DEF Untouched, Answer, ClientTypes, PostingInv, Types
<1> QED
  BY <1>1, <1>3, <1>6, <1>7, StepKeepsInv

LEMMA FailKeepsInv ==
  ASSUME PostingInv, NEW c \in Clients, server[c].pc # "idle", UNCHANGED <<rows, move>>,
         NEW code \in {"P2034", "P2002"}, FailWith(c, code)
  PROVE  PostingInv'
<1>1. LockTypes' /\ OthersKeepLocks(c)
  BY ReleaseKeeps DEF FailWith, PostingInv, Types
<1> DEFINE failed == [NoAttempt EXCEPT !.pc = code, !.tries = server[c].tries]
<1>2. failed \in Attempt /\ failed.pc = code
  BY DEF NoAttempt, Attempt, PostingInv, Types, ClientTypes
<1>3. server' = [server EXCEPT ![c] = failed] /\ UNCHANGED <<request, reply>>
  BY DEF FailWith
<1> HIDE DEF failed
<1>4. ClientTypes' /\ \A d \in Clients \ {c} : Untouched(d)
  BY <1>2, <1>3 DEF ClientTypes, PostingInv, Types, Untouched
<1>5. server'[c] = failed /\ request'[c] = request[c] /\ reply'[c] = "none"
  BY <1>3, ActiveRequest DEF ClientTypes, PostingInv, Types
<1>6. ClientOK(c)'
  BY <1>2, <1>5, ActiveRequest DEF ClientOK, rows, Finals
<1>7. AttemptOK(c)'
  BY <1>2, <1>5, <1>6 DEF AttemptOK, SnapshotOK, SaleHeld, UnitsHeld, CreditHeld
<1> QED
  BY <1>1, <1>4, <1>7, StepKeepsInv

LEMMA FailAttemptKeepsInv ==
  ASSUME PostingInv, NEW c \in Clients, server[c].pc # "idle", UNCHANGED <<rows, move>>,
         FailAttempt(c)
  PROVE  PostingInv'
BY FailKeepsInv DEF FailAttempt

LEMMA SendKeepsInv ==
  ASSUME PostingInv, NEW c \in Clients, NEW r \in Requests, Send(c, r)
  PROVE  PostingInv'
<1> DEFINE a == [server[c] EXCEPT !.pc = "begin"]
<1>0. a \in Attempt /\ server' = [server EXCEPT ![c] = a]
  BY DEF Send, Goto, ClientTypes, Attempt, PostingInv, Types
<1> HIDE DEF a
<1>1. ClientTypes' /\ \A d \in Clients \ {c} : Untouched(d)
  BY <1>0 DEF Send, ClientTypes, PostingInv, Types, Untouched, Replies
<1>2. server'[c].pc = "begin" /\ request'[c] = r /\ reply'[c] = "none"
  BY DEF Send, Goto, ClientTypes, Attempt, PostingInv, Types
<1>3. AttemptOK(c)'
  BY <1>2 DEF Send, rows, AttemptOK, ClientOK, SnapshotOK, SaleHeld, UnitsHeld, CreditHeld,
              Finals
<1>4. LockTypes' /\ OthersKeepLocks(c) /\ UNCHANGED <<rows, move>>
  BY DEF Send, locks, LockTypes, PostingInv, Types, OthersKeepLocks
<1> QED
  BY <1>1, <1>3, <1>4, StepKeepsInv

\* A sale posted under a key is told by the key; hence one other than the
\* request's sale makes the request hopeless.
LEMMA UsedElsewhere ==
  ASSUME PostingInv, NEW r \in Requests, NEW t \in UsedBy(doc, r.key), t # r.sale
  PROVE  Hopeless(r)
<1>1. r.sale \in Sales /\ t \in Posted(doc) /\ doc[t].by.key = r.key
  BY DEF Requests, UsedBy
<1>2. doc[r.sale].by # r
  BY <1>1, NotPostedAssumption
     DEF PostingInv, RowsOK, SalesOK, OnePerKey, Posted
<1> QED
  BY <1>2 DEF Hopeless

LEMMA BeginKeepsInv ==
  ASSUME PostingInv, NEW c \in Clients, Begin(c)
  PROVE  PostingInv'
<1>0. server[c].pc = "begin" /\ UNCHANGED <<rows, move>> /\ request[c] \in Requests
  BY ActiveRequest DEF Begin
<1>1. CASE UsedBy(doc, request[c].key) \subseteq {request[c].sale}
  <2>a. /\ server[c] \in Attempt /\ doc \in SaleTable /\ unit \in UnitTable
        /\ invoices \in Nat
    BY DEF ClientTypes, RowTypes, PostingInv, Types
  <2>b. PICK old \in Attempt : old = server[c]
    BY <2>a
  <2>c. PICK a : a = [old EXCEPT !.pc = "sale", !.doc = doc, !.unit = unit,
                                 !.invoices = invoices]
    OBVIOUS
  <2>d. server' = [server EXCEPT ![c] = a]
    BY <1>1, <2>b, <2>c DEF Begin
  <2>e. /\ a.pc = "sale" /\ a.doc = doc /\ a.unit = unit /\ a.invoices = invoices
        /\ a.tries = old.tries /\ a.units = old.units
    BY <2>c DEF Attempt
  <2>f. a = [pc |-> a.pc, tries |-> a.tries, doc |-> a.doc, unit |-> a.unit,
             invoices |-> a.invoices, units |-> a.units]
    BY <2>c DEF Attempt
  <2>g. a \in Attempt
    BY <2>a, <2>e, <2>f DEF Attempt
  <2>1. ClientTypes' /\ \A d \in Clients \ {c} : Untouched(d)
    BY <1>1, <2>d, <2>e, <2>g, NewAttempt DEF Begin, PostingInv, Types
  <2>2. /\ server'[c].pc = "sale" /\ server'[c].doc = doc /\ server'[c].unit = unit
        /\ server'[c].invoices = invoices
        /\ request'[c] = request[c] /\ reply'[c] = reply[c]
    BY <1>1, <2>d, <2>e, <2>g, NewAttempt DEF Begin, PostingInv, Types
  <2>3. AttemptOK(c)'
    BY <1>0, <2>2, ActiveRequest
       DEF PostingInv, rows, AttemptOK, ClientOK, SnapshotOK, SaleHeld, UnitsHeld, CreditHeld,
           Credited, Posted, Types, RowTypes, Finals
  <2>4. LockTypes' /\ OthersKeepLocks(c)
    BY <1>1 DEF Begin, locks, LockTypes, PostingInv, Types, OthersKeepLocks
  <2> QED
    BY <1>0, <2>1, <2>3, <2>4, StepKeepsInv
<1>2. CASE ~(UsedBy(doc, request[c].key) \subseteq {request[c].sale})
  BY <1>0, <1>2, UsedElsewhere, AnswerKeepsInv DEF Begin, Replies, Finals
<1> QED
  BY <1>1, <1>2

\* What the verdict on a sale's row says of the row.
LEMMA VerdictMeans ==
  ASSUME NEW row, NEW r
  PROVE  /\ Verdict(row, r) \in {"proceed", "replay"} \cup Finals
         /\ Verdict(row, r) = "proceed" => row.status = "draft" /\ row.version = r.version
         /\ Verdict(row, r) = "replay" => row.status = "posted" /\ row.by = r
         /\ Verdict(row, r) \in Finals =>
              \/ row.status = "draft" /\ row.version # r.version
              \/ row.status = "posted" /\ row.by # r
              \/ row.status \notin {"draft", "posted"}
BY DEF Verdict, Finals

LEMMA LockSaleKeepsInv ==
  ASSUME PostingInv, NEW c \in Clients, LockSale(c)
  PROVE  PostingInv'
<1> DEFINE r == request[c]
           seen == server[c].doc[r.sale]
<1>0. /\ server[c].pc = "sale" /\ UNCHANGED <<rows, move>> /\ saleLock[r.sale] = Free
      /\ r \in Requests /\ r.sale \in Sales /\ r.version <= doc[r.sale].version
      /\ doc[r.sale].version \in Int /\ r.version \in Int
      /\ Cart[r.sale] \subseteq Units
  BY ActiveRequest DEF LockSale, SaleRow
<1>1. CASE doc[r.sale] # seen
  BY <1>0, <1>1, FailAttemptKeepsInv DEF LockSale
<1>2. CASE doc[r.sale] = seen /\ Verdict(seen, r) # "proceed"
  <2>1. Verdict(seen, r) \in Finals => Hopeless(r)
    <3>1. doc[r.sale].status # "posted" => doc[r.sale].by # r
      BY <1>0, NotPostedAssumption DEF PostingInv, RowsOK, SalesOK
    <3> QED
      BY <1>0, <1>2, <3>1, VerdictMeans DEF Hopeless
  <2>2. Verdict(seen, r) \in Replies \ {"none"}
    BY <1>2, VerdictMeans DEF Replies, Finals
  <2>3. Verdict(seen, r) \in {"posted", "replay"} =>
          doc[r.sale].status = "posted" /\ doc[r.sale].by = r
    BY <1>2, VerdictMeans DEF Finals
  <2>4. Answer(c, Verdict(seen, r))
    BY <1>2 DEF LockSale
  <2> QED
    BY <1>0, <2>1, <2>2, <2>3, <2>4, AnswerKeepsInv
<1>3. CASE doc[r.sale] = seen /\ Verdict(seen, r) = "proceed"
  <2>1. /\ saleLock' = [saleLock EXCEPT ![r.sale] = c]
        /\ server' = [server EXCEPT ![c] = [@ EXCEPT !.pc = "units", !.units = Cart[r.sale]]]
        /\ UNCHANGED <<unitLock, sequenceLock, request, reply>>
    BY <1>3 DEF LockSale
  <2>2. server[c] \in Attempt
    BY DEF PostingInv, Types, ClientTypes
  <2>3. PICK old \in Attempt : old = server[c]
    BY <2>2
  <2>4. PICK a : a = [old EXCEPT !.pc = "units", !.units = Cart[r.sale]]
    OBVIOUS
  <2>5. /\ a.pc = "units" /\ a.units = Cart[r.sale] /\ a.doc = old.doc /\ a.unit = old.unit
        /\ a.invoices = old.invoices /\ a.tries = old.tries
        /\ a = [pc |-> a.pc, tries |-> a.tries, doc |-> a.doc, unit |-> a.unit,
                invoices |-> a.invoices, units |-> a.units]
    BY <2>4 DEF Attempt
  <2>6. a \in Attempt
    BY <1>0, <2>5 DEF Attempt
  <2>7. /\ ClientTypes' /\ \A d \in Clients \ {c} : Untouched(d)
        /\ server'[c] = a /\ request'[c] = r /\ reply'[c] = reply[c]
    BY <2>1, <2>3, <2>4, <2>6, NewAttempt DEF PostingInv, Types
  <2>8. LockTypes' /\ OthersKeepLocks(c) /\ saleLock'[r.sale] = c
    BY <1>0, <2>1 DEF LockTypes, OthersKeepLocks, PostingInv, Types
  <2>9. ClientOK(c)' /\ SnapshotOK(c)'
    BY <1>0, <2>3, <2>5, <2>7, ActiveRequest
       DEF PostingInv, AttemptOK, ClientOK, SnapshotOK, Credited, Posted, rows, Finals
  <2>10. SaleHeld(c)' /\ UnitsHeld(c)' /\ CreditHeld(c)'
    BY <1>0, <1>3, <2>5, <2>7, <2>8, VerdictMeans DEF SaleHeld, UnitsHeld, CreditHeld, rows
  <2> QED
    BY <1>0, <2>7, <2>8, <2>9, <2>10, StepKeepsInv DEF AttemptOK
<1> QED
  BY <1>1, <1>2, <1>3

LEMMA LockUnitKeepsInv ==
  ASSUME PostingInv, NEW c \in Clients, LockUnit(c)
  PROVE  PostingInv'
<1>0. PICK u \in NextToLock(c) :
        /\ unitLock[u] = Free
        /\ IF unit[u] # server[c].unit[u] THEN FailAttempt(c)
           ELSE /\ unitLock' = [unitLock EXCEPT ![u] = c]
                /\ server' = [server EXCEPT ![c].units = @ \ {u}]
                /\ UNCHANGED <<saleLock, sequenceLock, request, reply>>
  BY DEF LockUnit
<1>1. /\ server[c].pc = "units" /\ UNCHANGED <<rows, move>> /\ server[c] \in Attempt
      /\ u \in Units
  BY DEF LockUnit, NextToLock, PostingInv, Types, ClientTypes, Attempt
<1>2. CASE unit[u] # server[c].unit[u]
  BY <1>0, <1>1, <1>2, FailAttemptKeepsInv
<1>3. CASE unit[u] = server[c].unit[u]
  <2> DEFINE a == [server[c] EXCEPT !.units = @ \ {u}]
  <2>1. a \in Attempt /\ server' = [server EXCEPT ![c] = a]
    BY <1>0, <1>1, <1>3 DEF Attempt
  <2>2. /\ a.pc = "units" /\ a.units = server[c].units \ {u} /\ a.doc = server[c].doc
        /\ a.unit = server[c].unit /\ a.invoices = server[c].invoices
    BY <1>1 DEF Attempt
  <2> HIDE DEF a
  <2>3. /\ ClientTypes' /\ \A d \in Clients \ {c} : Untouched(d)
        /\ server'[c] = a /\ request'[c] = request[c] /\ reply'[c] = reply[c]
    BY <1>0, <1>3, <2>1, NewAttempt DEF PostingInv, Types
  <2>4. LockTypes' /\ OthersKeepLocks(c)
    BY <1>0, <1>1, <1>3 DEF LockTypes, OthersKeepLocks, PostingInv, Types
  <2>5. ClientOK(c)' /\ SnapshotOK(c)'
    BY <1>1, <2>2, <2>3, ActiveRequest
       DEF PostingInv, AttemptOK, ClientOK, SnapshotOK, Credited, Posted, rows, Finals
  <2>6. SaleHeld(c)' /\ CreditHeld(c)'
    BY <1>0, <1>1, <1>3, <2>2, <2>3
       DEF PostingInv, AttemptOK, SaleHeld, CreditHeld, rows
  <2>7. UnitsHeld(c)'
    <3> SUFFICES ASSUME NEW v \in Cart[request[c].sale] \ a.units
                 PROVE  unitLock'[v] = c /\ unit[v] = a.unit[v]
      BY <1>1, <2>2, <2>3 DEF UnitsHeld, rows
    <3>1. v \in Units
      BY <1>1, ActiveRequest
    <3>2. CASE v = u
      BY <1>0, <1>3, <2>2, <3>1, <3>2 DEF PostingInv, Types, LockTypes
    <3>3. CASE v # u
      BY <1>0, <1>1, <1>3, <2>2, <3>1, <3>3
         DEF PostingInv, Types, LockTypes, AttemptOK, UnitsHeld
    <3> QED
      BY <3>2, <3>3
  <2> QED
    BY <1>1, <2>3, <2>4, <2>5, <2>6, <2>7, StepKeepsInv DEF AttemptOK
<1> QED
  BY <1>2, <1>3

\* With every unit locked, the snapshot's states are the present ones; while no
\* number is given out, so is the snapshot's exposure.
LEMMA CheckPolicyKeepsInv ==
  ASSUME PostingInv, NEW c \in Clients, CheckPolicy(c)
  PROVE  PostingInv'
<1> DEFINE r == request[c]
           available == \A u \in Cart[r.sale] : server[c].unit[u].state = "available"
           credited  == r.payments = "credit" => Exposure(server[c].doc) < CreditLimit
<1>0. /\ server[c].pc = "units" /\ server[c].units = {} /\ UNCHANGED <<rows, move>>
      /\ server[c] \in Attempt
  BY DEF CheckPolicy, PostingInv, Types, ClientTypes
<1>1. CASE ~available
  BY <1>0, <1>1, AnswerKeepsInv DEF CheckPolicy, Replies, Retryable, Finals
<1>2. CASE available /\ ~credited
  BY <1>0, <1>2, AnswerKeepsInv DEF CheckPolicy, Replies, Retryable, Finals
<1>3. CASE available /\ credited /\ UnitBarred(r.sale)
  BY <1>0, <1>3, FailKeepsInv DEF CheckPolicy
<1>4. CASE available /\ credited /\ ~UnitBarred(r.sale)
  <2>1. /\ server' = [server EXCEPT ![c] =
             [@ EXCEPT !.pc = "sequence", !.doc = <<>>, !.unit = <<>>]]
        /\ UNCHANGED <<locks, request, reply>>
    BY <1>4 DEF CheckPolicy
  <2>2. PICK old \in Attempt : old = server[c]
    BY <1>0
  <2>3. PICK a : a = [old EXCEPT !.pc = "sequence", !.doc = <<>>, !.unit = <<>>]
    OBVIOUS
  <2>4. /\ a.pc = "sequence" /\ a.doc = <<>> /\ a.unit = <<>> /\ a.units = old.units
        /\ a.invoices = old.invoices /\ a.tries = old.tries
        /\ a = [pc |-> a.pc, tries |-> a.tries, doc |-> a.doc, unit |-> a.unit,
                invoices |-> a.invoices, units |-> a.units]
    BY <2>3 DEF Attempt
  <2>5. a \in Attempt
    BY <2>4 DEF Attempt
  <2>6. /\ ClientTypes' /\ \A d \in Clients \ {c} : Untouched(d)
        /\ server'[c] = a /\ request'[c] = r /\ reply'[c] = reply[c]
    BY <2>1, <2>2, <2>3, <2>5, NewAttempt DEF PostingInv, Types
  <2>7. LockTypes' /\ OthersKeepLocks(c) /\ UNCHANGED <<saleLock, unitLock, sequenceLock>>
    BY <2>1 DEF locks, LockTypes, OthersKeepLocks, PostingInv, Types
  <2>8. ClientOK(c)' /\ SnapshotOK(c)'
    BY <1>0, <2>4, <2>6, ActiveRequest
       DEF PostingInv, AttemptOK, ClientOK, SnapshotOK, rows, Finals
  <2>9. SaleHeld(c)' /\ UnitsHeld(c)'
    BY <1>0, <1>4, <2>4, <2>6, <2>7
       DEF PostingInv, AttemptOK, SaleHeld, UnitsHeld, rows, UnitBarred, Posted
  <2>10. CreditHeld(c)'
    <3>1. /\ server[c].invoices <= invoices
          /\ server[c].invoices = invoices =>
               Exposure(server[c].doc) = Exposure(doc)
      BY <1>0 DEF PostingInv, AttemptOK, SnapshotOK, Exposure, Credited
    <3>2. Exposure(doc)' = Exposure(doc) /\ invoices' = invoices
      BY <1>0 DEF rows, Exposure, Posted
    <3>3. server'[c].pc = "sequence" /\ server'[c].invoices = server[c].invoices
      BY <2>2, <2>4, <2>6
    <3> HIDE DEF available
    <3> QED
      BY <1>4, <2>6, <3>1, <3>2, <3>3 DEF CreditHeld
  <2> QED
    BY <1>0, <2>6, <2>7, <2>8, <2>9, <2>10, StepKeepsInv DEF AttemptOK
<1> QED
  BY <1>1, <1>2, <1>3, <1>4

LEMMA TakeNumberKeepsInv ==
  ASSUME PostingInv, NEW c \in Clients, TakeNumber(c)
  PROVE  PostingInv'
<1>0. /\ server[c].pc = "sequence" /\ UNCHANGED <<rows, move>> /\ server[c] \in Attempt
      /\ sequenceLock = Free
  BY DEF TakeNumber, PostingInv, Types, ClientTypes
<1>1. CASE invoices # server[c].invoices
  BY <1>0, <1>1, FailAttemptKeepsInv DEF TakeNumber
<1>2. CASE invoices = server[c].invoices
  <2> DEFINE a == [server[c] EXCEPT !.pc = "commit"]
  <2>1. a \in Attempt /\ server' = [server EXCEPT ![c] = a]
    BY <1>0, <1>2 DEF TakeNumber, Goto, Attempt
  <2>2. a.pc = "commit" /\ a.invoices = server[c].invoices
    BY <1>0 DEF Attempt
  <2> HIDE DEF a
  <2>3. /\ ClientTypes' /\ \A d \in Clients \ {c} : Untouched(d)
        /\ server'[c] = a /\ request'[c] = request[c] /\ reply'[c] = reply[c]
    BY <1>2, <2>1, NewAttempt DEF TakeNumber, PostingInv, Types
  <2>4. LockTypes' /\ OthersKeepLocks(c) /\ sequenceLock' = c
    BY <1>0, <1>2 DEF TakeNumber, LockTypes, OthersKeepLocks, PostingInv, Types
  <2>5. ClientOK(c)' /\ SnapshotOK(c)'
    BY <1>0, <2>2, <2>3, ActiveRequest
       DEF PostingInv, AttemptOK, ClientOK, SnapshotOK, rows, Finals
  <2>6. SaleHeld(c)' /\ UnitsHeld(c)'
    BY <1>0, <1>2, <2>2, <2>3
       DEF TakeNumber, PostingInv, AttemptOK, SaleHeld, UnitsHeld, rows, UnitBarred, Posted
  <2>7. CreditHeld(c)'
    BY <1>0, <1>2, <2>2, <2>3, <2>4
       DEF PostingInv, AttemptOK, CreditHeld, rows, Exposure, Posted
  <2> QED
    BY <1>0, <2>3, <2>4, <2>5, <2>6, <2>7, StepKeepsInv DEF AttemptOK
<1> QED
  BY <1>1, <1>2

LEMMA CatchKeepsInv ==
  ASSUME PostingInv, NEW c \in Clients, Catch(c)
  PROVE  PostingInv'
<1> DEFINE r == request[c]
           used == UsedBy(doc, r.key)
           mine == used = {r.sale} /\ doc[r.sale].by = r
<1>0. /\ server[c].pc \in {"P2034", "P2002"} /\ UNCHANGED <<rows, move>> /\ server[c] \in Attempt
      /\ r \in Requests /\ r.sale \in Sales
  BY ActiveRequest DEF Catch, PostingInv, Types, ClientTypes
<1>1. CASE mine
  <2>1. Answer(c, "replay")
    BY <1>1 DEF Catch
  <2>2. doc[r.sale].status = "posted"
    BY <1>1 DEF UsedBy, Posted
  <2> QED
    BY <1>0, <1>1, <2>1, <2>2, AnswerKeepsInv DEF Replies, Finals
<1>2. CASE used # {} /\ ~mine
  <2>1. Answer(c, "IDEMPOTENCY_KEY_REUSED")
    BY <1>2 DEF Catch
  <2>2. Hopeless(r)
    <3>1. CASE used = {r.sale}
      BY <1>2, <3>1 DEF Hopeless
    <3>2. CASE used # {r.sale}
      BY <1>0, <1>2, <3>2, UsedElsewhere
    <3> QED
      BY <3>1, <3>2
  <2> QED
    BY <1>0, <2>1, <2>2, AnswerKeepsInv DEF Replies, Finals
<1>3. CASE used = {} /\ MayRetry(c)
  <2>1. /\ server' = [server EXCEPT ![c] =
             [@ EXCEPT !.pc = "begin", !.tries = server[c].tries + 1]]
        /\ UNCHANGED <<locks, request, reply>>
    BY <1>3 DEF Catch
  <2>2. PICK a : a = [server[c] EXCEPT !.pc = "begin", !.tries = server[c].tries + 1]
    OBVIOUS
  <2>3. /\ a.pc = "begin" /\ a.tries = server[c].tries + 1 /\ a.units = server[c].units
        /\ a.invoices = server[c].invoices /\ a.doc = server[c].doc /\ a.unit = server[c].unit
        /\ a = [pc |-> a.pc, tries |-> a.tries, doc |-> a.doc, unit |-> a.unit,
                invoices |-> a.invoices, units |-> a.units]
    BY <1>0, <2>2 DEF Attempt
  <2>4. a.tries \in 0..MaxRetries
    BY <1>0, <1>3, <2>3 DEF MayRetry, Attempt, MaxRetries
  <2>5. a \in Attempt
    BY <1>0, <2>3, <2>4 DEF Attempt
  <2>6. /\ ClientTypes' /\ \A d \in Clients \ {c} : Untouched(d)
        /\ server'[c] = a /\ request'[c] = r /\ reply'[c] = reply[c]
    <3>1. server' = [server EXCEPT ![c] = a]
      BY <2>1, <2>2
    <3> QED
      BY <2>1, <2>5, <3>1, NewAttempt DEF PostingInv, Types
  <2>7. LockTypes' /\ OthersKeepLocks(c)
    BY <2>1 DEF locks, LockTypes, OthersKeepLocks, PostingInv, Types
  <2>8. AttemptOK(c)'
    BY <1>0, <2>3, <2>6, ActiveRequest
       DEF PostingInv, AttemptOK, ClientOK, SnapshotOK, SaleHeld, UnitsHeld, CreditHeld,
           rows, Finals
  <2> QED
    BY <1>0, <2>6, <2>7, <2>8, StepKeepsInv
<1>4. CASE used = {} /\ ~MayRetry(c)
  <2>1. Answer(c, "CONFLICT")
    BY <1>4 DEF Catch
  <2> QED
    BY <1>0, <2>1, AnswerKeepsInv DEF Replies, Retryable, Finals
<1> QED
  BY <1>1, <1>2, <1>3, <1>4

LEMMA LossKeepsInv ==
  ASSUME PostingInv, NEW c \in Clients, SerializationFailure(c) \/ Lose(c)
  PROVE  PostingInv'
<1>1. CASE SerializationFailure(c)
  BY <1>1, FailAttemptKeepsInv DEF SerializationFailure, InTransaction
<1>2. CASE Lose(c)
  BY <1>2, AnswerKeepsInv DEF Lose, Replies, Retryable, Finals
<1> QED
  BY <1>1, <1>2

-----------------------------------------------------------------------------
(* The commit of a posting.                                                 *)

LEMMA PostedIsFinite == IsFiniteSet(Posted(doc)) /\ IsFiniteSet(Credited(doc))
BY PostingAssumption, FS_Subset DEF Posted, Credited

\* What a posting that is about to commit knows of the rows it writes.
LEMMA ReadyToCommit ==
  ASSUME PostingInv, NEW c \in Clients, server[c].pc = "commit"
  PROVE  /\ request[c] \in Requests /\ request[c].sale \in Sales
         /\ Cart[request[c].sale] \subseteq Units
         /\ saleLock[request[c].sale] = c /\ sequenceLock = c
         /\ doc[request[c].sale].status = "draft"
         /\ doc[request[c].sale].version = request[c].version
         /\ request[c].version \in 1..MaxVersion
         /\ server[c].invoices = invoices
         /\ \A u \in Cart[request[c].sale] :
              unitLock[u] = c /\ unit[u].state = "available"
         /\ ~UnitBarred(request[c].sale)
         /\ request[c].payments = "credit" => Exposure(doc) < CreditLimit
BY ActiveRequest DEF PostingInv, AttemptOK, SaleHeld, UnitsHeld, CreditHeld

\* The posting of sale s by request r.
Posts(s, r) ==
  /\ doc' = [doc EXCEPT ![s] = [status |-> "posted", version |-> r.version + 1,
                                by |-> r, invoice |-> invoices + 1]]
  /\ unit' = [u \in Units |->
                IF u \in Cart[s] THEN [state |-> "sold", version |-> unit[u].version + 1]
                ELSE unit[u]]
  /\ invoices' = invoices + 1

\* It may happen to a draft, with its units on the shelf and in no posted sale,
\* under a new key and within the credit limit.
MayPost(s, r) ==
  /\ r \in Requests /\ r.sale = s /\ s \in Sales
  /\ doc[s].status = "draft" /\ doc[s].version = r.version
  /\ \A u \in Cart[s] : u \in Units /\ unit[u].state = "available"
  /\ ~UnitBarred(s)
  /\ UsedBy(doc, r.key) = {}
  /\ r.payments = "credit" => Exposure(doc) < CreditLimit

LEMMA PostedNow ==
  ASSUME RowTypes, OneSeller, NEW s, NEW r, MayPost(s, r), Posts(s, r)
  PROVE  /\ RowTypes'
         /\ s \in Sales \ Posted(doc) /\ Posted(doc)' = Posted(doc) \cup {s}
         /\ doc'[s].status = "posted" /\ doc'[s].version = r.version + 1
         /\ doc'[s].by = r /\ doc'[s].invoice = invoices + 1
         /\ \A t \in Sales \ {s} : doc'[t] = doc[t]
         /\ \A u \in Units : IF u \in Cart[s] THEN unit'[u].state = "sold"
                             ELSE unit'[u] = unit[u]
         /\ invoices' = invoices + 1 /\ invoices \in Nat
<1>1. r.version + 1 \in 1..MaxVersion+1 /\ r.version \in 1..MaxVersion
  BY PostingAssumption DEF MayPost, Requests
<1>2. doc' \in SaleTable
  BY <1>1 DEF RowTypes, SaleTable, SaleRow, MayPost, Posts
<1>3. unit' \in UnitTable
  <2> SUFFICES ASSUME NEW u \in Units
               PROVE  /\ unit[u] \in UnitRow
                      /\ u \in Cart[s] =>
                           [state |-> "sold", version |-> unit[u].version + 1] \in UnitRow
    BY DEF UnitTable, Posts
  <2>1. unit[u] \in UnitRow
    BY DEF RowTypes, UnitTable
  <2>2. u \in Cart[s] => unit[u].version <= MaxUnitVersion
    BY DEF MayPost, OneSeller
  <2> QED
    BY <2>1, <2>2, PostingAssumption DEF UnitRow
<1>4. s \in Sales /\ DOMAIN doc = Sales /\ doc \in SaleTable
  BY DEF RowTypes, SaleTable, MayPost
<1>5. /\ doc'[s] = [status |-> "posted", version |-> r.version + 1,
                    by |-> r, invoice |-> invoices + 1]
      /\ \A t \in Sales \ {s} : doc'[t] = doc[t]
  BY <1>4 DEF Posts
<1>6. s \notin Posted(doc)
  BY DEF Posted, MayPost
<1>7. Posted(doc)' = Posted(doc) \cup {s}
  <2>1. doc'[s].status = "posted"
    BY <1>5
  <2> QED
    BY <1>4, <1>5, <2>1 DEF Posted
<1>8. invoices' \in Nat
  BY DEF RowTypes, Posts
<1>9. RowTypes'
  BY <1>2, <1>3, <1>8 DEF RowTypes
<1>10. \A u \in Units : IF u \in Cart[s] THEN unit'[u].state = "sold"
                       ELSE unit'[u] = unit[u]
  BY DEF Posts
<1>11. invoices' = invoices + 1 /\ invoices \in Nat
  BY DEF RowTypes, Posts
<1> QED
  BY <1>4, <1>5, <1>6, <1>7, <1>9, <1>10, <1>11

LEMMA PostingKeepsRows ==
  ASSUME RowTypes, RowsOK, NEW s, NEW r, MayPost(s, r), Posts(s, r)
  PROVE  RowsOK'
<1> USE DEF RowsOK
<1>0. /\ s \in Sales /\ s \notin Posted(doc) /\ Posted(doc)' = Posted(doc) \cup {s}
      /\ doc'[s].status = "posted" /\ doc'[s].version = r.version + 1
      /\ doc'[s].by = r /\ doc'[s].invoice = invoices + 1
      /\ \A t \in Sales \ {s} : doc'[t] = doc[t]
      /\ \A t \in Posted(doc) : t \in Sales /\ t # s /\ doc'[t] = doc[t]
      /\ invoices' = invoices + 1 /\ invoices \in Nat
  BY PostedNow DEF Posted
<1>1. SalesOK'
  <2> SUFFICES ASSUME NEW t \in Sales
               PROVE IF doc'[t].status = "posted"
                       THEN /\ doc'[t].by \in Requests
                            /\ doc'[t].by.sale = t
                            /\ doc'[t].invoice \in 1..invoices'
                       ELSE /\ doc'[t].by = NotPosted
                            /\ doc'[t].status = "draft" => doc'[t].version <= MaxVersion
    BY DEF SalesOK
  <2>1. CASE t = s
    BY <1>0, <2>1 DEF MayPost
  <2>2. CASE t # s
    BY <1>0, <2>2 DEF SalesOK
  <2> QED
    BY <2>1, <2>2
<1>2. OnePerKey'
  <2>1. \A t \in Posted(doc) : doc[t].by.key # r.key
    BY DEF MayPost, UsedBy
  <2> QED
    BY <1>0, <2>1 DEF OnePerKey
<1>3. OneSeller'
  <2>1. \A u \in Units : IF u \in Cart[s] THEN unit'[u].state = "sold"
                        ELSE unit'[u] = unit[u]
    BY PostedNow
  <2>2. \A u \in Units : unit'[u].state = "sold" => u \in Cart[s] \/ unit[u].state = "sold"
    BY <2>1
  <2>3. \A u \in Units : unit'[u].state = "sold" => \E t \in Posted(doc)' : u \in Cart[t]
    BY <1>0, <2>2 DEF OneSeller
  <2>4. \A t \in Posted(doc) : Cart[s] \cap Cart[t] = {}
    BY DEF MayPost, UnitBarred
  <2>5. \A t, v \in Posted(doc)' : Cart[t] \cap Cart[v] # {} => t = v
    BY <1>0, <2>4 DEF OneSeller
  <2>6. \A u \in Units : unit'[u].state # "sold" => unit'[u].version <= MaxUnitVersion
    BY <2>1 DEF OneSeller
  <2> QED
    BY <2>3, <2>5, <2>6 DEF OneSeller
<1>4. InvoicesAreGapless'
  <2>1. {doc'[t].invoice : t \in Posted(doc)'} =
          {doc[t].invoice : t \in Posted(doc)} \cup {invoices + 1}
    BY <1>0
  <2>2. 1..invoices + 1 = 1..invoices \cup {invoices + 1}
    BY <1>0
  <2>3. Cardinality(Posted(doc) \cup {s}) = Cardinality(Posted(doc)) + 1
    BY <1>0, PostedIsFinite, FS_AddElement
  <2> QED
    BY <1>0, <2>1, <2>2, <2>3 DEF InvoicesAreGapless
<1>5. CreditWithinLimit'
  <2>1. /\ Exposure(doc) = Cardinality(Credited(doc))
        /\ Exposure(doc)' = Cardinality(Credited(doc)')
    BY DEF Exposure, Credited
  <2>2. CASE r.payments = "credit"
    <3>1. Credited(doc)' = Credited(doc) \cup {s} /\ s \notin Credited(doc)
      BY <1>0, <2>2 DEF Credited
    <3>2. Exposure(doc)' = Exposure(doc) + 1 /\ Exposure(doc) \in Nat
      BY <2>1, <3>1, PostedIsFinite, FS_AddElement, FS_CardinalityType
    <3> QED
      BY <2>2, <3>2, PostingAssumption DEF MayPost, CreditWithinLimit
  <2>3. CASE r.payments # "credit"
    <3>1. Credited(doc)' = Credited(doc)
      BY <1>0, <2>3 DEF Credited
    <3> QED
      BY <2>1, <3>1 DEF CreditWithinLimit
  <2> QED
    BY <2>2, <2>3
<1> QED
  BY <1>1, <1>2, <1>3, <1>4, <1>5

LEMMA CommitKeepsInv ==
  ASSUME PostingInv, NEW c \in Clients, Commit(c)
  PROVE  PostingInv'
<1> DEFINE r == request[c]
           s == r.sale
<1>0. server[c].pc = "commit" /\ UNCHANGED move
  BY DEF Commit
<1>1. CASE UsedBy(doc, r.key) # {}
  BY <1>0, <1>1, FailKeepsInv DEF Commit
<1>2. CASE UsedBy(doc, r.key) = {}
  <2>1. MayPost(s, r) /\ Posts(s, r) /\ Answer(c, "posted")
    BY <1>0, <1>2, ReadyToCommit DEF Commit, MayPost, Posts
  <2>2. RowTypes /\ RowsOK /\ LockTypes /\ ClientTypes
    BY DEF PostingInv, Types
  <2>3. RowTypes' /\ RowsOK'
    BY <2>1, <2>2, PostedNow, PostingKeepsRows DEF RowsOK
  <2>4. LockTypes' /\ OthersKeepLocks(c)
    BY <2>1, <2>2, ReleaseKeeps DEF Answer
  <2>5. NoAttempt \in Attempt /\ NoAttempt.pc = "idle"
    BY DEF NoAttempt, Attempt, MaxRetries
  <2>6. /\ ClientTypes' /\ \A d \in Clients \ {c} : Untouched(d)
        /\ server'[c] = NoAttempt /\ request'[c] = r /\ reply'[c] = "posted"
    BY <2>1, <2>2, <2>5 DEF Answer, ClientTypes, Untouched, Replies, Retryable
  <2>7. Types'
    BY <1>0, <2>3, <2>4, <2>6 DEF PostingInv, Types
  <2>8. /\ doc'[s].status = "posted" /\ doc'[s].version = r.version + 1
        /\ doc'[s].by = r
        /\ \A t \in Sales \ {s} : doc'[t] = doc[t]
        /\ invoices' = invoices + 1 /\ invoices \in Nat
        /\ s \notin Posted(doc) /\ Posted(doc)' = Posted(doc) \cup {s}
        /\ \A u \in Units \ Cart[s] : unit'[u] = unit[u]
    BY <2>1, <2>2, PostedNow DEF RowsOK
  <2>9. /\ r \in Requests /\ s \in Sales /\ saleLock[s] = c /\ sequenceLock = c
        /\ doc[s].status = "draft" /\ doc[s].version = r.version /\ r.version \in Nat
        /\ \A u \in Cart[s] : u \in Units /\ unitLock[u] = c
    BY <1>0, ReadyToCommit, PostingAssumption
  <2>10. AttemptOK(c)'
    BY <2>5, <2>6, <2>8, <2>9
       DEF AttemptOK, ClientOK, SnapshotOK, SaleHeld, UnitsHeld, CreditHeld, Finals
  <2>11. ASSUME NEW d \in Clients \ {c} PROVE AttemptOK(d)'
    <3>1. AttemptOK(d) /\ Untouched(d)
      BY <2>6 DEF PostingInv
    <3>2. ClientOK(d)'
      <4>1. request[d] \in Requests => request[d].version <= doc'[request[d].sale].version
        BY <2>8, <2>9, <3>1 DEF AttemptOK, ClientOK, Requests
      <4>2. reply[d] \in {"posted", "replay"} =>
              /\ doc'[request[d].sale].status = "posted"
              /\ doc'[request[d].sale].by = request[d]
        BY <2>8, <2>9, <3>1 DEF AttemptOK, ClientOK, Requests
      <4>3. reply[d] \in Finals => Hopeless(request[d])'
        <5> DEFINE q == request[d]
        <5> SUFFICES ASSUME reply[d] \in Finals PROVE Hopeless(request[d])'
          OBVIOUS
        <5>1. Hopeless(q) /\ request'[d] = q /\ q \in Requests /\ q.sale \in Sales
          BY <3>1 DEF AttemptOK, ClientOK, Untouched, Requests
        <5>2. CASE q.sale = s
          <6>1. q # r
            BY <1>2, <2>9, <5>1 DEF Hopeless, Requests
          <6> QED
            BY <2>8, <5>1, <5>2, <6>1 DEF Hopeless
        <5>3. CASE q.sale # s
          <6>1. UsedBy(doc, q.key) \subseteq UsedBy(doc, q.key)'
            BY <2>8, <5>1 DEF UsedBy, Posted
          <6> QED
            BY <2>8, <5>1, <5>3, <6>1 DEF Hopeless
        <5> QED
          BY <5>2, <5>3
      <4> QED
        BY <3>1, <4>1, <4>2, <4>3 DEF AttemptOK, ClientOK, Untouched
    <3>3. SnapshotOK(d)'
      BY <2>8, <3>1 DEF AttemptOK, SnapshotOK, Untouched, PostingInv, Types, ClientTypes, Attempt
    <3>4. SaleHeld(d)'
      BY <2>4, <2>8, <2>9, <3>1, PostingAssumption
         DEF AttemptOK, ClientOK, SaleHeld, Untouched, OthersKeepLocks, Requests
    <3>5. UnitsHeld(d)'
      <4>1. server[d].pc # "idle" =>
              \A u \in Cart[request[d].sale] :
                /\ u \in Units
                /\ unitLock[u] = d => unit'[u] = unit[u] /\ unitLock'[u] = d
        BY <2>4, <2>8, <2>9, ActiveRequest, PostingAssumption DEF OthersKeepLocks
      <4>2. server[d].pc \in {"sequence", "commit"} => ~UnitBarred(request[d].sale)'
        <5> SUFFICES ASSUME server[d].pc \in {"sequence", "commit"}
                     PROVE  ~UnitBarred(request[d].sale)'
          OBVIOUS
        <5>1. /\ request'[d] = request[d] /\ ~UnitBarred(request[d].sale)
              /\ \A u \in Cart[request[d].sale] : unitLock[u] = d
          BY <3>1 DEF AttemptOK, UnitsHeld, Untouched
        <5>2. Cart[s] \cap Cart[request[d].sale] = {}
          BY <2>9, <5>1
        <5> QED
          BY <2>8, <5>1, <5>2 DEF UnitBarred
      <4> QED
        BY <3>1, <4>1, <4>2 DEF AttemptOK, UnitsHeld, Untouched
    <3>6. CreditHeld(d)'
      BY <2>8, <2>9, <3>1 DEF AttemptOK, CreditHeld, Untouched, PostingInv, Types, ClientTypes, Attempt
    <3> QED
      BY <3>2, <3>3, <3>4, <3>5, <3>6 DEF AttemptOK
  <2>12. MoveOK'
    BY <1>0, <2>4, <2>8, <2>9, PostingAssumption DEF PostingInv, MoveOK, OthersKeepLocks
  <2> QED
    BY <2>3, <2>7, <2>10, <2>11, <2>12 DEF PostingInv
<1> QED
  BY <1>1, <1>2

-----------------------------------------------------------------------------
(* Everyone else.                                                           *)

\* A draft nobody has locked may change: no attempt relies on it.
LEMMA DraftStepKeepsInv ==
  ASSUME PostingInv, NEW s \in Sales, saleLock[s] = Free, doc[s].status = "draft",
         NEW row \in SaleRow, row.status # "posted", row.by = doc[s].by,
         row.version > doc[s].version, row.status = "draft" => row.version <= MaxVersion,
         doc' = [doc EXCEPT ![s] = row], UNCHANGED <<unit, invoices, locks, client, move>>
  PROVE  PostingInv'
<1>0. /\ doc'[s] = row /\ \A t \in Sales \ {s} : doc'[t] = doc[t]
      /\ doc' \in SaleTable
      /\ UNCHANGED <<unit, invoices, saleLock, unitLock, sequenceLock, server, request,
                     reply, move>>
  BY DEF PostingInv, Types, RowTypes, SaleTable, locks, client
<1>1. Posted(doc)' = Posted(doc) /\ \A t \in Posted(doc) : doc'[t] = doc[t]
  BY <1>0 DEF Posted
<1>2. \A key : UsedBy(doc', key) = UsedBy(doc, key)
  BY <1>1 DEF UsedBy
<1>3. Credited(doc)' = Credited(doc) /\ Exposure(doc)' = Exposure(doc)
  BY <1>1 DEF Credited, Exposure
<1>4. Types'
  BY <1>0 DEF PostingInv, Types, RowTypes, LockTypes, ClientTypes
<1>5. SalesOK'
  BY <1>0 DEF PostingInv, RowsOK, SalesOK
<1>6. OnePerKey' /\ OneSeller'
  <2>1. OnePerKey'
    BY <1>1 DEF PostingInv, RowsOK, OnePerKey
  <2>2. OneSeller'
    BY <1>0, <1>1 DEF PostingInv, RowsOK, OneSeller
  <2> QED
    BY <2>1, <2>2
<1>7. InvoicesAreGapless' /\ CreditWithinLimit'
  <2>1. {doc'[t].invoice : t \in Posted(doc)'} = {doc[t].invoice : t \in Posted(doc)}
    BY <1>1
  <2> QED
    BY <1>0, <1>1, <1>3, <2>1 DEF PostingInv, RowsOK, InvoicesAreGapless, CreditWithinLimit
<1>8. ASSUME NEW d \in Clients PROVE AttemptOK(d)'
  <2>1. AttemptOK(d) /\ Untouched(d)
    BY <1>0 DEF PostingInv, Untouched
  <2>2. ClientOK(d)'
    <3>1. request[d] \in Requests =>
            request[d].sale \in Sales /\ request[d].version \in Nat
      BY PostingAssumption DEF Requests
    <3>2. doc[s].version \in Nat /\ row.version \in Nat
      BY PostingAssumption DEF PostingInv, Types, RowTypes, SaleTable, SaleRow
    <3>3. request[d] \in Requests => request[d].version <= doc'[request[d].sale].version
      BY <1>0, <2>1, <3>1, <3>2 DEF AttemptOK, ClientOK
    <3>4. reply[d] \in {"posted", "replay"} =>
            /\ doc'[request[d].sale].status = "posted"
            /\ doc'[request[d].sale].by = request[d]
      BY <1>0, <2>1, <3>1 DEF AttemptOK, ClientOK
    <3>5. reply[d] \in Finals => Hopeless(request[d])'
      <4> SUFFICES ASSUME reply[d] \in Finals PROVE Hopeless(request[d])'
        OBVIOUS
      <4>1. /\ Hopeless(request[d]) /\ request'[d] = request[d]
            /\ request[d].sale \in Sales /\ request[d].version \in Nat
        BY <2>1, <3>1 DEF AttemptOK, ClientOK, Untouched
      <4>2. CASE request[d].sale = s
        <5>1. doc'[request[d].sale] = row /\ doc[request[d].sale] = doc[s]
          BY <1>0, <4>2
        <5>2. UsedBy(doc', request[d].key) = UsedBy(doc, request[d].key)
          BY <1>2
        <5>3. doc[s].version > request[d].version => row.version > request[d].version
          BY <3>2, <4>1
        <5> QED
          BY <4>1, <5>1, <5>2, <5>3 DEF Hopeless
      <4>3. CASE request[d].sale # s
        <5>1. doc'[request[d].sale] = doc[request[d].sale]
          BY <1>0, <4>1, <4>3
        <5>2. UsedBy(doc', request[d].key) = UsedBy(doc, request[d].key)
          BY <1>2
        <5> QED
          BY <4>1, <5>1, <5>2 DEF Hopeless
      <4> QED
        BY <4>2, <4>3
    <3> QED
      BY <2>1, <3>3, <3>4, <3>5 DEF AttemptOK, ClientOK, Untouched
  <2>3. SnapshotOK(d)'
    BY <1>0, <1>3, <2>1 DEF AttemptOK, SnapshotOK
  <2>4. SaleHeld(d)' /\ UnitsHeld(d)'
    BY <1>0, <1>1, <2>1, ActiveRequest, PostingAssumption
       DEF AttemptOK, SaleHeld, UnitsHeld, UnitBarred
  <2>5. CreditHeld(d)'
    BY <1>0, <1>3, <2>1 DEF AttemptOK, CreditHeld
  <2> QED
    BY <2>2, <2>3, <2>4, <2>5 DEF AttemptOK
<1>9. MoveOK'
  BY <1>0 DEF PostingInv, MoveOK
<1> QED
  BY <1>4, <1>5, <1>6, <1>7, <1>8, <1>9 DEF PostingInv, RowsOK

LEMMA EditKeepsInv ==
  ASSUME PostingInv, NEW s \in Sales, Edit(s) \/ Cancel(s)
  PROVE  PostingInv'
<1>0. /\ saleLock[s] = Free /\ doc[s].status = "draft" /\ doc[s] \in SaleRow
      /\ doc[s].version <= MaxVersion
      /\ UNCHANGED <<unit, invoices, locks, client, move>>
  BY DEF Edit, Cancel, PostingInv, Types, RowTypes, SaleTable, RowsOK, SalesOK
<1>1. CASE Edit(s)
  <2> DEFINE row == [doc[s] EXCEPT !.version = @ + 1]
  <2>1. /\ row \in SaleRow /\ row.status = "draft" /\ row.by = doc[s].by
        /\ row.version > doc[s].version /\ row.version <= MaxVersion
        /\ doc' = [doc EXCEPT ![s] = row]
    BY <1>0, <1>1, PostingAssumption DEF Edit, SaleRow
  <2> HIDE DEF row
  <2> QED
    BY <1>0, <2>1, DraftStepKeepsInv
<1>2. CASE Cancel(s)
  <2>1. PICK old \in SaleRow : old = doc[s]
    BY <1>0
  <2>2. PICK row : row = [old EXCEPT !.status = "cancelled", !.version = old.version + 1]
    OBVIOUS
  <2>3. doc' = [doc EXCEPT ![s] = row]
    BY <1>2, <2>1, <2>2 DEF Cancel
  <2>4. /\ row.status = "cancelled" /\ row.by = old.by /\ row.invoice = old.invoice
        /\ row.version = old.version + 1
        /\ row = [status |-> row.status, version |-> row.version, by |-> row.by,
                  invoice |-> row.invoice]
    BY <2>2 DEF SaleRow
  <2>5. row \in SaleRow /\ row.version > old.version
    BY <1>0, <2>1, <2>4, PostingAssumption DEF SaleRow
  <2> QED
    BY <1>0, <2>1, <2>3, <2>4, <2>5, DraftStepKeepsInv
<1> QED
  BY <1>1, <1>2

\* A unit that no posting has locked may change, except into a sold one; locks
\* of staff may be released with it.
LEMMA UnitStepKeepsInv ==
  ASSUME PostingInv, NEW u \in Units, unitLock[u] \notin Clients,
         NEW row \in UnitRow, row.state # "sold", row.version <= MaxUnitVersion,
         unit' = [unit EXCEPT ![u] = row], UNCHANGED <<doc, invoices, client>>,
         LockTypes', OthersKeepLocks(Staff), MoveOK',
         move' \in [unit: Units \cup {Free}, sales: SUBSET Sales]
  PROVE  PostingInv'
<1>0. /\ unit'[u] = row /\ \A v \in Units \ {u} : unit'[v] = unit[v]
      /\ unit' \in UnitTable
      /\ UNCHANGED <<doc, invoices, server, request, reply>>
  BY DEF PostingInv, Types, RowTypes, UnitTable, client
<1>1. Types'
  BY <1>0 DEF PostingInv, Types, RowTypes, ClientTypes
<1>2. RowsOK'
  BY <1>0 DEF PostingInv, RowsOK, SalesOK, OnePerKey, OneSeller, InvoicesAreGapless,
              CreditWithinLimit, Exposure, Posted
<1>3. ASSUME NEW d \in Clients PROVE AttemptOK(d)'
  <2>1. AttemptOK(d) /\ d # Free /\ d # Staff
    BY PostingAssumption DEF PostingInv
  <2>2. ClientOK(d)'
    BY <1>0, <2>1 DEF AttemptOK, ClientOK, Hopeless, UsedBy, Posted
  <2>3. SnapshotOK(d)'
    BY <1>0, <2>1 DEF AttemptOK, SnapshotOK, Credited, Posted
  <2>4. SaleHeld(d)'
    BY <1>0, <2>1, ActiveRequest DEF AttemptOK, SaleHeld, OthersKeepLocks
  <2>5. UnitsHeld(d)'
    <3>1. server[d].pc # "idle" =>
            \A v \in Cart[request[d].sale] :
              unitLock[v] = d => unit'[v] = unit[v] /\ unitLock'[v] = d
      BY <1>0, <2>1, ActiveRequest DEF OthersKeepLocks
    <3> QED
      BY <1>0, <2>1, <3>1 DEF AttemptOK, UnitsHeld, UnitBarred, Posted
  <2>6. CreditHeld(d)'
    BY <1>0, <2>1 DEF AttemptOK, CreditHeld, OthersKeepLocks, Exposure, Posted
  <2> QED
    BY <2>2, <2>3, <2>4, <2>5, <2>6 DEF AttemptOK
<1> QED
  BY <1>1, <1>2, <1>3 DEF PostingInv

LEMMA ChangeUnitKeepsInv ==
  ASSUME PostingInv, NEW u \in Units, ChangeUnit(u)
  PROVE  PostingInv'
<1> DEFINE row == [state |-> IF unit[u].state = "away" THEN "available" ELSE "away",
                   version |-> unit[u].version + 1]
<1>1. /\ unitLock[u] \notin Clients /\ unit[u] \in UnitRow
      /\ unit[u].version < MaxUnitVersion
      /\ unit' = [unit EXCEPT ![u] = row] /\ UNCHANGED <<doc, invoices, locks, client, move>>
  BY PostingAssumption DEF ChangeUnit, PostingInv, Types, RowTypes, UnitTable
<1>2. row \in UnitRow /\ row.state # "sold" /\ row.version <= MaxUnitVersion
  BY <1>1, PostingAssumption DEF UnitRow
<1>3. LockTypes' /\ OthersKeepLocks(Staff)
  BY <1>1 DEF locks, PostingInv, Types, LockTypes, OthersKeepLocks
<1>4. MoveOK' /\ move' \in [unit: Units \cup {Free}, sales: SUBSET Sales]
  <2>1. move # NoMove => move.unit # u
    BY PostingAssumption DEF ChangeUnit, PostingInv, MoveOK
  <2>2. move # NoMove => unit'[move.unit] = unit[move.unit]
    BY <1>1, <2>1 DEF PostingInv, MoveOK, Types, RowTypes, UnitTable
  <2> QED
    BY <1>1, <2>2 DEF PostingInv, MoveOK, Types, locks
<1> HIDE DEF row
<1> QED
  BY <1>1, <1>2, <1>3, <1>4, UnitStepKeepsInv

LEMMA FinishMoveKeepsInv ==
  ASSUME PostingInv, FinishMove
  PROVE  PostingInv'
<1> DEFINE u == move.unit
           row == [unit[u] EXCEPT !.version = @ + 1]
<1>1. /\ u \in Units /\ unitLock[u] = Staff /\ unit[u].state # "sold"
      /\ unit[u] \in UnitRow /\ unit[u].version < MaxUnitVersion
      /\ unit' = [unit EXCEPT ![u] = row] /\ UNCHANGED <<doc, invoices, client>>
  BY DEF FinishMove, PostingInv, MoveOK, Types, RowTypes, UnitTable
<1>2. row \in UnitRow /\ row.state # "sold" /\ row.version <= MaxUnitVersion
  BY <1>1, PostingAssumption DEF UnitRow
<1>3. LockTypes' /\ OthersKeepLocks(Staff)
  BY ReleaseKeeps DEF FinishMove, PostingInv, Types
<1>4. MoveOK' /\ move' \in [unit: Units \cup {Free}, sales: SUBSET Sales]
  BY DEF FinishMove, MoveOK, NoMove
<1>5. unitLock[u] \notin Clients
  BY <1>1, PostingAssumption
<1> HIDE DEF u, row
<1> QED
  BY <1>1, <1>2, <1>3, <1>4, <1>5, UnitStepKeepsInv

\* A step of staff that only takes or releases their locks.
LEMMA StaffStepKeepsInv ==
  ASSUME PostingInv, UNCHANGED <<rows, client>>, OthersKeepLocks(Staff), LockTypes', MoveOK',
         move' \in [unit: Units \cup {Free}, sales: SUBSET Sales]
  PROVE  PostingInv'
<1>1. Types'
  BY DEF PostingInv, Types, RowTypes, ClientTypes, rows, client
<1>2. RowsOK'
  BY RowsKept DEF PostingInv
<1>3. ASSUME NEW d \in Clients PROVE AttemptOK(d)'
  <2>1. Staff # d /\ Untouched(d) /\ AttemptOK(d) /\ ClientTypes
    BY PostingAssumption DEF client, Untouched, PostingInv, Types
  <2> QED
    BY <2>1, AttemptKept
<1> QED
  BY <1>1, <1>2, <1>3 DEF PostingInv

LEMMA MovingKeepsInv ==
  ASSUME PostingInv,
         \/ \E u \in Units : StartMove(u)
         \/ AbandonMove
         \/ \E s \in Sales : CascadeMove(s)
  PROVE  PostingInv'
<1>1. ASSUME NEW u \in Units, StartMove(u) PROVE PostingInv'
  <2>1. OthersKeepLocks(Staff) /\ LockTypes' /\ UNCHANGED <<rows, client>>
    BY <1>1 DEF StartMove, OthersKeepLocks, PostingInv, Types, LockTypes
  <2>2. /\ move' = [unit |-> u, sales |-> {s \in Sales : u \in Cart[s]}]
        /\ unitLock'[u] = Staff /\ unit'[u] = unit[u]
    BY <1>1 DEF StartMove, rows, PostingInv, Types, LockTypes
  <2>3. MoveOK' /\ move' \in [unit: Units \cup {Free}, sales: SUBSET Sales]
    BY <1>1, <2>2 DEF StartMove, MoveOK
  <2> QED
    BY <2>1, <2>3, StaffStepKeepsInv
<1>2. ASSUME AbandonMove PROVE PostingInv'
  <2>1. OthersKeepLocks(Staff) /\ LockTypes' /\ UNCHANGED <<rows, client>>
    BY <1>2, ReleaseKeeps DEF AbandonMove, PostingInv, Types
  <2>2. MoveOK' /\ move' \in [unit: Units \cup {Free}, sales: SUBSET Sales]
    BY <1>2 DEF AbandonMove, MoveOK, NoMove
  <2> QED
    BY <2>1, <2>2, StaffStepKeepsInv
<1>3. ASSUME NEW s \in Sales, CascadeMove(s), ~AbandonMove PROVE PostingInv'
  <2>1. /\ s \in move.sales /\ saleLock[s] = Free
        /\ saleLock' = [saleLock EXCEPT ![s] = Staff]
        /\ move' = [move EXCEPT !.sales = @ \ {s}]
        /\ UNCHANGED <<rows, unitLock, sequenceLock, client>>
    BY <1>3 DEF CascadeMove
  <2>2. OthersKeepLocks(Staff) /\ LockTypes'
    BY <2>1 DEF OthersKeepLocks, PostingInv, Types, LockTypes
  <2>3. /\ move' \in [unit: Units \cup {Free}, sales: SUBSET Sales]
        /\ move'.unit = move.unit /\ move # NoMove
    BY <2>1 DEF PostingInv, Types, NoMove
  <2>4. MoveOK'
    BY <2>1, <2>3 DEF PostingInv, MoveOK, rows
  <2> QED
    BY <2>1, <2>2, <2>3, <2>4, StaffStepKeepsInv
<1> QED
  BY <1>1, <1>2, <1>3

LEMMA BreakDeadlockKeepsInv ==
  ASSUME PostingInv, BreakDeadlock
  PROVE  PostingInv'
<1>1. ASSUME NEW c \in Clients, Deadlocked(c), FailAttempt(c), UNCHANGED <<rows, move>>
      PROVE  PostingInv'
  <2>1. c # Staff
    BY PostingAssumption
  <2>2. server[c].pc # "idle"
    BY <1>1, <2>1 DEF Deadlocked, WaitsOn
  <2> QED
    BY <1>1, <2>2, FailAttemptKeepsInv
<1> QED
  BY <1>1, MovingKeepsInv DEF BreakDeadlock

-----------------------------------------------------------------------------
(* The theorems.                                                            *)

LEMMA NextKeepsInv == PostingInv /\ [Next]_vars => PostingInv'
<1> SUFFICES ASSUME PostingInv, [Next]_vars PROVE PostingInv'
  OBVIOUS
<1>1. ASSUME NEW c \in Clients, NEW r \in Requests, Send(c, r) PROVE PostingInv'
  BY <1>1, SendKeepsInv
<1>2. ASSUME NEW c \in Clients, ServerStep(c) PROVE PostingInv'
  BY <1>2, BeginKeepsInv, LockSaleKeepsInv, LockUnitKeepsInv, CheckPolicyKeepsInv,
     TakeNumberKeepsInv, CommitKeepsInv, CatchKeepsInv DEF ServerStep
<1>3. ASSUME NEW c \in Clients, SerializationFailure(c) \/ Lose(c) PROVE PostingInv'
  BY <1>3, LossKeepsInv
<1>4. ASSUME NEW s \in Sales, Edit(s) \/ Cancel(s) PROVE PostingInv'
  BY <1>4, EditKeepsInv
<1>5. ASSUME NEW u \in Units, ChangeUnit(u) PROVE PostingInv'
  BY <1>5, ChangeUnitKeepsInv
<1>6. ASSUME NEW u \in Units, StartMove(u) PROVE PostingInv'
  BY <1>6, MovingKeepsInv
<1>7. ASSUME MoveStep PROVE PostingInv'
  BY <1>7, MovingKeepsInv, FinishMoveKeepsInv DEF MoveStep
<1>8. ASSUME BreakDeadlock PROVE PostingInv'
  BY <1>8, BreakDeadlockKeepsInv
<1>9. CASE UNCHANGED vars
  <2>1. UNCHANGED <<rows, client>> /\ UNCHANGED <<locks, move>>
    BY <1>9 DEF vars
  <2>2. OthersKeepLocks(Staff) /\ LockTypes'
    BY <2>1 DEF locks, OthersKeepLocks, LockTypes, PostingInv, Types
  <2>3. MoveOK' /\ move' \in [unit: Units \cup {Free}, sales: SUBSET Sales]
    BY <2>1 DEF locks, rows, MoveOK, PostingInv, Types
  <2> QED
    BY <2>1, <2>2, <2>3, StaffStepKeepsInv
<1> QED
  BY <1>1, <1>2, <1>3, <1>4, <1>5, <1>6, <1>7, <1>8, <1>9 DEF Next

THEOREM PostingInvariant == Spec => []PostingInv
<1>1. PostingInv /\ [Next]_vars => PostingInv'
  BY NextKeepsInv
<1> QED
  BY <1>1, InitOK, PTL DEF Spec

\* Documents, units, locks, attempts and answers keep their types, whatever is
\* retried, lost or refused.
THEOREM PostingTyped == Spec => []TypeOK
<1>1. PostingInv => TypeOK
  <2> SUFFICES ASSUME PostingInv PROVE TypeOK
    OBVIOUS
  <2>1. \A s \in Sales : doc[s] \in SaleRow
    BY DEF PostingInv, Types, RowTypes, SaleTable
  <2>2. \A c \in Clients : server[c] \in Attempt
    BY DEF PostingInv, Types, ClientTypes
  <2> QED
    BY <2>1, <2>2 DEF TypeOK, PostingInv, Types, RowTypes, LockTypes, ClientTypes, SaleRow,
                      UnitTable, UnitRow, Attempt
<1> QED
  BY <1>1, PostingInvariant, PTL

\* A client that is told its sale is posted finds it posted by its own request,
\* and no key posts two sales (post's replies and its catch block).
THEOREM AnswersTrue == Spec => []AnswersAreTrue
<1>1. PostingInv => AnswersAreTrue
  BY DEF PostingInv, AttemptOK, ClientOK, RowsOK, OnePerKey, AnswersAreTrue
<1> QED
  BY <1>1, PostingInvariant, PTL

\* A request that was refused for good has not posted its sale and never does,
\* by no delivery of it.
THEOREM RefusalsFinal == Spec => []RefusalsAreFinal
<1>1. PostingInv => RefusalsAreFinal
  BY DEF PostingInv, AttemptOK, ClientOK, Hopeless, RefusalsAreFinal
<1> QED
  BY <1>1, PostingInvariant, PTL

\* The numbers allocateDocumentNumber gave to the posted sales are 1, 2, 3 and
\* so on, each given once.
THEOREM InvoicesGapless == Spec => []InvoicesAreGapless
<1>1. PostingInv => InvoicesAreGapless
  BY DEF PostingInv, RowsOK
<1> QED
  BY <1>1, PostingInvariant, PTL

\* Postings on credit that ran at the same time, each checked by assertCredit on
\* its own snapshot, do not exceed the limit together.
THEOREM CreditLimited == Spec => []CreditWithinLimit
<1>1. PostingInv => CreditWithinLimit
  BY DEF PostingInv, RowsOK
<1> QED
  BY <1>1, PostingInvariant, PTL

\* No two posted sales list one unit, though postings overlap and staff put sold
\* units back on the shelf; a unit that is sold was sold by a posted sale.
THEOREM UnitsSoldByOneSale == Spec => []UnitsSoldOnce
<1>1. PostingInv => UnitsSoldOnce
  <2> SUFFICES ASSUME PostingInv, NEW u \in Units,
                      NEW sellers, sellers = {s \in Posted(doc) : u \in Cart[s]}
               PROVE  /\ Cardinality(sellers) <= 1
                      /\ unit[u].state = "sold" => sellers # {}
    BY DEF UnitsSoldOnce
  <2>1. unit[u].state = "sold" => sellers # {}
    BY DEF PostingInv, RowsOK, OneSeller
  <2>2. \A s, t \in sellers : s = t
    BY DEF PostingInv, RowsOK, OneSeller
  <2>3. Cardinality(sellers) <= 1
    <3>1. CASE sellers = {}
      BY <3>1, FS_EmptySet
    <3>2. CASE sellers # {}
      <4>1. PICK s : sellers = {s}
        BY <2>2, <3>2
      <4> QED
        BY <4>1, FS_Singleton
    <3> QED
      BY <3>1, <3>2
  <2> QED
    BY <2>1, <2>3
<1> QED
  BY <1>1, PostingInvariant, PTL
-----------------------------------------------------------------------------
(* The refinement of AtomicPosting.                                         *)

shelf == [u \in Units |-> unit[u].state]
AtomicVars == <<doc, shelf, invoices>>

LEMMA InitImplementsInit == Init => Atomic!Init
BY DEF Init, Atomic!Init

LEMMA RowsKeptStutters == UNCHANGED rows => UNCHANGED AtomicVars
BY DEF rows, AtomicVars, shelf

\* The commit of an attempt is the instant of the posting.
LEMMA CommitImplementsPost ==
  ASSUME PostingInv, NEW c \in Clients, Commit(c)
  PROVE  Atomic!Next \/ UNCHANGED AtomicVars
<1>0. server[c].pc = "commit" /\ request[c] \in Requests
  BY ReadyToCommit DEF Commit
<1>r. PICK r \in Requests : r = request[c]
  BY <1>0
<1> DEFINE s == r.sale
<1>1. CASE UsedBy(doc, r.key) # {}
  BY <1>r, <1>1, RowsKeptStutters DEF Commit
<1>2. CASE UsedBy(doc, r.key) = {}
  <2>1. MayPost(s, r) /\ Posts(s, r) /\ RowTypes
    BY <1>0, <1>r, <1>2, ReadyToCommit DEF Commit, MayPost, Posts, PostingInv, Types
  <2>2. \A u \in Cart[s] : shelf[u] = "available"
    BY <2>1 DEF MayPost, shelf
  <2>3. \A t \in Posted(doc) : doc[t].by.key # r.key /\ Cart[t] \cap Cart[s] = {}
    BY <1>2, <2>1 DEF UsedBy, MayPost, UnitBarred
  <2>4. shelf' = [u \in Units |-> IF u \in Cart[s] THEN "sold" ELSE shelf[u]]
    BY <2>1 DEF Posts, shelf
  <2>5. Atomic!Posted(doc) = Posted(doc) /\ Atomic!Exposure(doc) = Exposure(doc)
    BY DEF Atomic!Posted, Atomic!Exposure, Posted, Exposure, Cardinality, Atomic!Cardinality
  <2>6. Atomic!Post(r)
    <3>1. r.payments = "credit" => Atomic!Exposure(doc) < CreditLimit
      BY <2>1, <2>5 DEF MayPost
    <3>2. \A t \in Atomic!Posted(doc) : doc[t].by.key # r.key /\ Cart[t] \cap Cart[s] = {}
      BY <2>3, <2>5
    <3>3. doc[s].status = "draft" /\ doc[s].version = r.version
      BY <2>1 DEF MayPost
    <3>4. /\ doc' = [doc EXCEPT ![s] = [status |-> "posted", version |-> r.version + 1,
                                        by |-> r, invoice |-> invoices + 1]]
          /\ invoices' = invoices + 1
      BY <2>1 DEF Posts
    <3> QED
      BY <2>2, <2>4, <3>1, <3>2, <3>3, <3>4 DEF Atomic!Post, shelf
  <2>7. r \in Atomic!Requests
    BY <2>1 DEF MayPost, Requests, Atomic!Requests
  <2> QED
    BY <2>6, <2>7 DEF Atomic!Next
<1> QED
  BY <1>1, <1>2

LEMMA AttemptStutters ==
  ASSUME NEW c \in Clients,
         \/ \E r \in Requests : Send(c, r)
         \/ Begin(c) \/ LockSale(c) \/ LockUnit(c) \/ CheckPolicy(c) \/ TakeNumber(c)
         \/ Catch(c) \/ SerializationFailure(c) \/ Lose(c)
  PROVE  UNCHANGED rows
BY DEF Send, Begin, LockSale, LockUnit, CheckPolicy, TakeNumber, Catch,
       SerializationFailure, Lose

LEMMA OthersImplement ==
  ASSUME PostingInv,
         \/ \E s \in Sales : Edit(s) \/ Cancel(s)
         \/ \E u \in Units : ChangeUnit(u)
         \/ FinishMove
  PROVE  Atomic!Next \/ UNCHANGED AtomicVars
<1>1. ASSUME NEW s \in Sales, Edit(s) PROVE Atomic!Next
  <2>1. Atomic!Edit(s)
    BY <1>1 DEF Edit, Atomic!Edit
  <2> QED
    BY <2>1 DEF Atomic!Next
<1>2. ASSUME NEW s \in Sales, Cancel(s) PROVE Atomic!Next
  <2>1. Atomic!Cancel(s)
    BY <1>2 DEF Cancel, Atomic!Cancel
  <2> QED
    BY <2>1 DEF Atomic!Next
<1>3. ASSUME NEW u \in Units, ChangeUnit(u) PROVE Atomic!Next
  <2>1. unit \in [Units -> UnitRow]
    BY DEF PostingInv, Types, RowTypes, UnitTable
  <2>2. \A v \in Units : unit'[v].state =
          IF v = u THEN IF unit[u].state = "away" THEN "available" ELSE "away"
          ELSE unit[v].state
    BY <1>3, <2>1 DEF ChangeUnit
  <2>3. shelf' = [shelf EXCEPT ![u] = IF @ = "away" THEN "available" ELSE "away"]
    BY <2>2 DEF shelf
  <2>4. Atomic!MoveUnit(u)
    BY <1>3, <2>3 DEF ChangeUnit, Atomic!MoveUnit, shelf
  <2> QED
    BY <2>4 DEF Atomic!Next
<1>4. ASSUME FinishMove PROVE UNCHANGED AtomicVars
  <2>1. unit \in [Units -> UnitRow]
    BY DEF PostingInv, Types, RowTypes, UnitTable
  <2>2. \A v \in Units : unit'[v].state = unit[v].state
    BY <1>4, <2>1 DEF FinishMove, UnitRow
  <2>3. shelf' = shelf
    BY <2>2 DEF shelf
  <2> QED
    BY <1>4, <2>3 DEF FinishMove, AtomicVars
<1> QED
  BY <1>1, <1>2, <1>3, <1>4

\* Posting a sale behaves as if it happened at one instant, at which the draft
\* had the client's version, the units were on the shelf and in no other posted
\* sale, the key was new and the credit was within the limit; nothing else
\* sells a unit or takes a number.
THEOREM PostingIsAtomic == Spec => PostsAtomically
<1>1. PostingInv /\ [Next]_vars => [Atomic!Next]_AtomicVars
  <2> SUFFICES ASSUME PostingInv, [Next]_vars PROVE Atomic!Next \/ UNCHANGED AtomicVars
    OBVIOUS
  <2>1. ASSUME NEW c \in Clients,
               \/ \E r \in Requests : Send(c, r)
               \/ ServerStep(c) \/ SerializationFailure(c) \/ Lose(c)
        PROVE  Atomic!Next \/ UNCHANGED AtomicVars
    BY <2>1, AttemptStutters, RowsKeptStutters, CommitImplementsPost DEF ServerStep
  <2>2. ASSUME \/ \E s \in Sales : Edit(s) \/ Cancel(s)
               \/ \E u \in Units : ChangeUnit(u)
               \/ FinishMove
        PROVE  Atomic!Next \/ UNCHANGED AtomicVars
    BY <2>2, OthersImplement
  <2>3. ASSUME \/ \E u \in Units : StartMove(u)
               \/ \E s \in Sales : CascadeMove(s)
               \/ BreakDeadlock
               \/ UNCHANGED vars
        PROVE  UNCHANGED rows
    BY <2>3 DEF StartMove, CascadeMove, AbandonMove, BreakDeadlock, vars
  <2> QED
    BY <2>1, <2>2, <2>3, RowsKeptStutters DEF Next, MoveStep
<1> QED
  BY <1>1, PostingInvariant, InitImplementsInit, PTL
     DEF Spec, PostsAtomically, Atomic!Spec, AtomicVars, shelf
=============================================================================
