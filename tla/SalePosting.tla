----------------------------- MODULE SalePosting -----------------------------
(***************************************************************************)
(* Posting a sale under concurrency: sales.service.ts, post.                *)
(*                                                                         *)
(* Clients send posting requests, send them again under the same            *)
(* idempotency key, and send other requests under a used key.  The server   *)
(* runs every attempt as one serializable transaction that locks the sale,  *)
(* then its units in a fixed order, then the invoice sequence; a failed     *)
(* attempt goes through the catch block, which looks the key up again and   *)
(* retries at most twice.  Meanwhile drafts are edited and cancelled, and   *)
(* staff change units, sold ones too, and move them; moving one locks it    *)
(* first and then the sales that list it (the foreign key's cascade and     *)
(* guard_sale_line_draft).                                                  *)
(*                                                                         *)
(* PostgreSQL is modelled by its contract: a serializable transaction reads *)
(* the snapshot of its first statement and fails when it locks a row that   *)
(* was updated since; a wait cycle fails one of its members; these failures *)
(* reach the code as P2034, a violated unique index as P2002.               *)
(***************************************************************************)
EXTENDS Integers, FiniteSets

CONSTANTS Sales, Units, Cart, Keys, Payments, NotPosted, CreditLimit, MaxVersion,
          MaxUnitVersion, \* bound: units are changed and moved up to this version
          Clients,
          Staff,      \* one member of staff moving units
          LockOrder,  \* the place of every unit in the order all postings lock them
          Free        \* the holder of a free lock

ASSUME PostingAssumption ==
  /\ IsFiniteSet(Sales)
  /\ Cart \in [Sales -> SUBSET Units]
  /\ LockOrder \in [Units -> Nat]
  /\ \A u, v \in Units : LockOrder[u] = LockOrder[v] => u = v
  /\ CreditLimit \in Nat /\ MaxVersion \in Nat \ {0}
  /\ MaxUnitVersion \in Nat \ {0}
  /\ Free \notin Clients \cup {Staff} /\ Staff \notin Clients

\* post recurses while retryCount < 2.
MaxRetries == 2

VARIABLES doc, unit, invoices,    \* committed rows
          saleLock, unitLock, sequenceLock,
          server,                 \* per client: the attempt being run
          request, reply,         \* per client: its last request and answer
          move                    \* the unit move in progress

rows   == <<doc, unit, invoices>>
locks  == <<saleLock, unitLock, sequenceLock>>
client == <<server, request, reply>>
vars   == <<rows, locks, client, move>>

Posted(docs) == {s \in Sales : docs[s].status = "posted"}
Exposure(docs) == Cardinality({s \in Posted(docs) : docs[s].by.payments = "credit"})
Requests == [sale: Sales, key: Keys, version: 1..MaxVersion, payments: Payments]

\* The columns a posting fills are null before it.
ASSUME NotPostedAssumption == NotPosted \notin Requests

\* Answers that tell a client to give up, and those that invite another try.
Finals == {"IDEMPOTENCY_KEY_REUSED", "SALE_ALREADY_POSTED", "VERSION_CONFLICT"}
Retryable == {"UNIT_NOT_AVAILABLE", "CREDIT_NOT_AUTHORIZED", "CONFLICT", "lost"}
Replies == Finals \cup Retryable \cup {"none", "posted", "replay"}

NoAttempt == [pc |-> "idle", tries |-> 0, doc |-> <<>>, unit |-> <<>>,
              invoices |-> 0, units |-> {}]
NoMove == [unit |-> Free, sales |-> {}]

TypeOK ==
  /\ \A s \in Sales :
       /\ doc[s].status \in {"draft", "posted", "cancelled"}
       /\ doc[s].version \in 1..MaxVersion+1
       /\ doc[s].by \in Requests \cup {NotPosted}
  /\ unit \in [Units -> [state: {"available", "away", "sold"}, version: 1..MaxUnitVersion+1]]
  /\ saleLock \in [Sales -> Clients \cup {Staff, Free}]
  /\ unitLock \in [Units -> Clients \cup {Staff, Free}]
  /\ sequenceLock \in Clients \cup {Free}
  /\ \A c \in Clients :
       /\ server[c].pc \in {"idle", "begin", "sale", "units", "sequence", "commit",
                           "P2034", "P2002"}
       /\ server[c].tries \in 0..MaxRetries
  /\ reply \in [Clients -> Replies]

Init ==
  /\ doc = [s \in Sales |-> [status |-> "draft", version |-> 1,
                             by |-> NotPosted, invoice |-> 0]]
  /\ unit = [u \in Units |-> [state |-> "available", version |-> 1]]
  /\ invoices = 0
  /\ saleLock = [s \in Sales |-> Free]
  /\ unitLock = [u \in Units |-> Free]
  /\ sequenceLock = Free
  /\ server = [c \in Clients |-> NoAttempt]
  /\ request = [c \in Clients |-> NotPosted]
  /\ reply = [c \in Clients |-> "none"]
  /\ move = NoMove

-----------------------------------------------------------------------------
(* Leaving a transaction.                                                   *)

\* Commit and rollback release every lock of the process.
ReleaseLocks(p) ==
  /\ saleLock' = [s \in Sales |-> IF saleLock[s] = p THEN Free ELSE saleLock[s]]
  /\ unitLock' = [u \in Units |-> IF unitLock[u] = p THEN Free ELSE unitLock[u]]
  /\ sequenceLock' = IF sequenceLock = p THEN Free ELSE sequenceLock

\* A retryable answer says nothing that could turn out false later: its
\* request need not be remembered.
Answer(c, answer) ==
  /\ reply' = [reply EXCEPT ![c] = answer]
  /\ request' = IF answer \in Retryable THEN [request EXCEPT ![c] = NotPosted] ELSE request
  /\ server' = [server EXCEPT ![c] = NoAttempt]
  /\ ReleaseLocks(c)

\* Fault: the retry starts counting again.
FailAttemptUncounted(c) ==
  /\ server' = [server EXCEPT ![c] = [NoAttempt EXCEPT !.pc = "P2034"]]
  /\ ReleaseLocks(c)
  /\ UNCHANGED <<request, reply>>

\* The transaction is rolled back and the catch block runs, on an error code.
FailWith(c, code) ==
  /\ server' = [server EXCEPT ![c] =
       [NoAttempt EXCEPT !.pc = code, !.tries = server[c].tries]]
  /\ ReleaseLocks(c)
  /\ UNCHANGED <<request, reply>>

\* A serialization failure or a deadlock.
FailAttempt(c) == FailWith(c, "P2034")

Goto(c, pc) == server' = [server EXCEPT ![c].pc = pc]

-----------------------------------------------------------------------------
(* The server.                                                              *)

\* A client sends a request, for a version of the sale it has seen.
Send(c, r) ==
  /\ server[c].pc = "idle"
  /\ r.version <= doc[r.sale].version
  /\ request' = [request EXCEPT ![c] = r]
  /\ reply' = [reply EXCEPT ![c] = "none"]
  /\ Goto(c, "begin")
  /\ UNCHANGED <<rows, locks, move>>

UsedBy(docs, key) == {s \in Posted(docs) : docs[s].by.key = key}

\* The transaction's first statement looks the key up, on a fresh snapshot.
Begin(c) ==
  /\ server[c].pc = "begin"
  /\ IF UsedBy(doc, request[c].key) \subseteq {request[c].sale}
       THEN /\ server' = [server EXCEPT ![c] =
                 [@ EXCEPT !.pc = "sale", !.doc = doc, !.unit = unit, !.invoices = invoices]]
            /\ UNCHANGED <<locks, request, reply>>
       ELSE Answer(c, "IDEMPOTENCY_KEY_REUSED")
  /\ UNCHANGED <<rows, move>>

\* Fault: the key alone makes a request a replay.
VerdictByKey(row, r) ==
  CASE row.status = "draft" /\ row.version = r.version      -> "proceed"
    [] row.status = "draft" /\ row.version # r.version      -> "VERSION_CONFLICT"
    [] row.status = "posted" /\ row.by.key = r.key          -> "replay"
    [] OTHER                                                -> "SALE_ALREADY_POSTED"

\* Fault: the version is compared before the status.
VerdictVersionFirst(row, r) ==
  CASE row.version # r.version                              -> "VERSION_CONFLICT"
    [] row.version = r.version /\ row.status = "draft"      -> "proceed"
    [] OTHER                                                -> "SALE_ALREADY_POSTED"

\* The checks of a sale's status, key and version.
Verdict(row, r) ==
  CASE row.status = "draft" /\ row.version = r.version -> "proceed"
    [] row.status = "draft" /\ row.version # r.version -> "VERSION_CONFLICT"
    [] row.status = "posted" /\ row.by = r             -> "replay"
    [] row.status = "posted" /\ row.by # r /\ row.by.key = r.key
                                                       -> "IDEMPOTENCY_KEY_REUSED"
    [] OTHER                                           -> "SALE_ALREADY_POSTED"

LockSale(c) ==
  LET r    == request[c]
      seen == server[c].doc[r.sale]
  IN  /\ server[c].pc = "sale"
      /\ saleLock[r.sale] = Free
      /\ CASE doc[r.sale] # seen           -> FailAttempt(c)
           [] doc[r.sale] = seen /\ Verdict(seen, r) # "proceed"
                                           -> Answer(c, Verdict(seen, r))
           [] OTHER ->
                /\ saleLock' = [saleLock EXCEPT ![r.sale] = c]
                /\ server' = [server EXCEPT ![c] =
                     [@ EXCEPT !.pc = "units", !.units = Cart[r.sale]]]
                /\ UNCHANGED <<unitLock, sequenceLock, request, reply>>
      /\ UNCHANGED <<rows, move>>

\* The unit a posting locks next: the first of those left.
NextToLock(c) ==
  {u \in server[c].units : \A v \in server[c].units : LockOrder[u] <= LockOrder[v]}

\* Fault: the snapshot's state is trusted after the lock.
LockUnitTrusted(c) ==
  /\ server[c].pc = "units"
  /\ \E u \in NextToLock(c) :
       /\ unitLock[u] = Free
       /\ unitLock' = [unitLock EXCEPT ![u] = c]
       /\ server' = [server EXCEPT ![c].units = @ \ {u}]
       /\ UNCHANGED <<saleLock, sequenceLock, request, reply>>
  /\ UNCHANGED <<rows, move>>

\* resolveRecordLines locks unit after unit.
LockUnit(c) ==
  /\ server[c].pc = "units"
  /\ \E u \in NextToLock(c) :
       /\ unitLock[u] = Free
       /\ IF unit[u] # server[c].unit[u] THEN FailAttempt(c)
          ELSE /\ unitLock' = [unitLock EXCEPT ![u] = c]
               /\ server' = [server EXCEPT ![c].units = @ \ {u}]
               /\ UNCHANGED <<saleLock, sequenceLock, request, reply>>
  /\ UNCHANGED <<rows, move>>

\* Fault: no index.
NeverBarred(s) == FALSE

\* sale_lines_active_serialized_unit_uq: the lines of a posted sale hold their
\* units' entries for good, wherever the units are by now.
UnitBarred(s) == \E t \in Posted(doc) : Cart[t] \cap Cart[s] # {}

\* assertPostAllowed and assertCredit, on the snapshot, then the writes to the
\* units and lines; of the snapshot, only the sequence row is read again.
CheckPolicy(c) ==
  LET r == request[c]
      available == \A u \in Cart[r.sale] : server[c].unit[u].state = "available"
      credited  == r.payments = "credit" => Exposure(server[c].doc) < CreditLimit
  IN  /\ server[c].pc = "units" /\ server[c].units = {}
      /\ CASE ~available              -> Answer(c, "UNIT_NOT_AVAILABLE")
           [] available /\ ~credited  -> Answer(c, "CREDIT_NOT_AUTHORIZED")
           [] available /\ credited /\ UnitBarred(r.sale) -> FailWith(c, "P2002")
           [] OTHER ->
                /\ server' = [server EXCEPT ![c] =
                     [@ EXCEPT !.pc = "sequence", !.doc = <<>>, !.unit = <<>>]]
                /\ UNCHANGED <<locks, request, reply>>
      /\ UNCHANGED <<rows, move>>

\* Fault: the sequence row is read without a lock.
TakeNumberUnlocked(c) ==
  /\ server[c].pc = "sequence"
  /\ Goto(c, "commit")
  /\ UNCHANGED <<locks, request, reply>>
  /\ UNCHANGED <<rows, move>>

\* Fault: the number is read again at READ COMMITTED.
TakeNumberFresh(c) ==
  /\ server[c].pc = "sequence"
  /\ sequenceLock = Free
  /\ sequenceLock' = c
  /\ server' = [server EXCEPT ![c].pc = "commit", ![c].invoices = invoices]
  /\ UNCHANGED <<saleLock, unitLock, request, reply>>
  /\ UNCHANGED <<rows, move>>

\* allocateDocumentNumber: the advisory lock, then the sequence row.
TakeNumber(c) ==
  /\ server[c].pc = "sequence"
  /\ sequenceLock = Free
  /\ IF invoices # server[c].invoices THEN FailAttempt(c)
     ELSE /\ sequenceLock' = c
          /\ Goto(c, "commit")
          /\ UNCHANGED <<saleLock, unitLock, request, reply>>
  /\ UNCHANGED <<rows, move>>

\* All writes become visible at once.  The unique index on the key is last.
Commit(c) ==
  LET r == request[c]
      s == r.sale
  IN  /\ server[c].pc = "commit"
      /\ IF UsedBy(doc, r.key) # {} THEN FailWith(c, "P2002") /\ UNCHANGED rows
         ELSE /\ doc' = [doc EXCEPT ![s] =
                   [status |-> "posted", version |-> r.version + 1,
                    by |-> r, invoice |-> server[c].invoices + 1]]
              /\ unit' = [u \in Units |->
                   IF u \in Cart[s] THEN [state |-> "sold", version |-> unit[u].version + 1]
                   ELSE unit[u]]
              /\ invoices' = server[c].invoices + 1
              /\ Answer(c, "posted")
      /\ UNCHANGED move

\* Fault: off by one.
MayRetryOnceMore(c) == server[c].pc = "P2034" /\ server[c].tries <= MaxRetries

MayRetry(c) == server[c].pc = "P2034" /\ server[c].tries < MaxRetries

\* The catch block: someone may have committed under this key meanwhile.
Catch(c) ==
  LET r    == request[c]
      used == UsedBy(doc, r.key)
  IN  /\ server[c].pc \in {"P2034", "P2002"}
      /\ CASE used = {r.sale} /\ doc[r.sale].by = r -> Answer(c, "replay")
           [] used # {} /\ ~(used = {r.sale} /\ doc[r.sale].by = r)
                                     -> Answer(c, "IDEMPOTENCY_KEY_REUSED")
           [] used = {} /\ MayRetry(c) ->
                /\ server' = [server EXCEPT ![c] =
                     [@ EXCEPT !.pc = "begin", !.tries = server[c].tries + 1]]
                /\ UNCHANGED <<locks, request, reply>>
           [] OTHER                  -> Answer(c, "CONFLICT")
      /\ UNCHANGED <<rows, move>>

InTransaction(c) == server[c].pc \in {"sale", "units", "sequence", "commit"}

\* A serialization failure of which the code sees no cause.
SerializationFailure(c) ==
  /\ InTransaction(c)
  /\ FailAttempt(c)
  /\ UNCHANGED <<rows, move>>

\* The server or its connection dies; the client knows nothing.
Lose(c) ==
  /\ server[c].pc # "idle"
  /\ Answer(c, "lost")
  /\ UNCHANGED <<rows, move>>

-----------------------------------------------------------------------------
(* Everyone else, at READ COMMITTED.                                        *)

\* hold and replaceDraft: one guarded UPDATE of the sale's row.
Edit(s) ==
  /\ saleLock[s] = Free
  /\ doc[s].status = "draft" /\ doc[s].version < MaxVersion
  /\ doc' = [doc EXCEPT ![s].version = @ + 1]
  /\ UNCHANGED <<unit, invoices, locks, client, move>>

Cancel(s) ==
  /\ saleLock[s] = Free
  /\ doc[s].status = "draft"
  /\ doc' = [doc EXCEPT ![s].status = "cancelled", ![s].version = @ + 1]
  /\ UNCHANGED <<unit, invoices, locks, client, move>>

\* transitionSerializedUnit, to and from the shelf; a sold unit leaves for the
\* inspection of returned units, and may come back to the shelf from there.
ChangeUnit(u) ==
  /\ unitLock[u] = Free
  /\ unit[u].version < MaxUnitVersion
  /\ unit' = [unit EXCEPT ![u] =
       [state |-> IF @.state = "away" THEN "available" ELSE "away",
        version |-> @.version + 1]]
  /\ UNCHANGED <<doc, invoices, locks, client, move>>

\* transferSerializedUnit locks the unit and updates it ...
StartMove(u) ==
  /\ move = NoMove
  /\ unitLock[u] = Free
  /\ unit[u].state # "sold" /\ unit[u].version < MaxUnitVersion
  /\ unitLock' = [unitLock EXCEPT ![u] = Staff]
  /\ move' = [unit |-> u, sales |-> {s \in Sales : u \in Cart[s]}]
  /\ UNCHANGED <<rows, saleLock, sequenceLock, client>>

AbandonMove ==
  /\ move' = NoMove
  /\ ReleaseLocks(Staff)
  /\ UNCHANGED <<rows, client>>

\* ... the cascade then locks every sale that lists it, and stops at one that
\* is no draft any more ...
CascadeMove(s) ==
  /\ s \in move.sales
  /\ saleLock[s] = Free
  /\ IF doc[s].status # "draft" THEN AbandonMove
     ELSE /\ saleLock' = [saleLock EXCEPT ![s] = Staff]
          /\ move' = [move EXCEPT !.sales = @ \ {s}]
          /\ UNCHANGED <<rows, unitLock, sequenceLock, client>>

\* ... and commits.
FinishMove ==
  /\ move # NoMove /\ move.sales = {}
  /\ unit' = [unit EXCEPT ![move.unit].version = @ + 1]
  /\ move' = NoMove
  /\ ReleaseLocks(Staff)
  /\ UNCHANGED <<doc, invoices, client>>

-----------------------------------------------------------------------------
(* Deadlock detection.                                                      *)

\* The holders a process is waiting for right now.
WaitsOn(p) ==
  { q \in Clients \cup {Staff} :
      \/ /\ p \in Clients /\ server[p].pc = "sale"
         /\ saleLock[request[p].sale] = q
      \/ /\ p \in Clients /\ server[p].pc = "units"
         /\ \E u \in NextToLock(p) : unitLock[u] = q
      \/ p \in Clients /\ server[p].pc = "sequence" /\ sequenceLock = q
      \/ p = Staff /\ \E s \in move.sales : saleLock[s] = q }

\* A wait cycle of two or three processes, all there can be with two clients.
Deadlocked(p) ==
  \E q \in WaitsOn(p) : \/ p \in WaitsOn(q)
                        \/ \E r \in WaitsOn(q) : p \in WaitsOn(r)

\* The victim of a posting sees P2034, a unit move is refused.
BreakDeadlock ==
  \/ \E c \in Clients : /\ Deadlocked(c) /\ FailAttempt(c)
                        /\ UNCHANGED <<rows, move>>
  \/ Deadlocked(Staff) /\ AbandonMove

-----------------------------------------------------------------------------
ServerStep(c) ==
  \/ Begin(c) \/ LockSale(c) \/ LockUnit(c) \/ CheckPolicy(c)
  \/ TakeNumber(c) \/ Commit(c) \/ Catch(c)

MoveStep == (\E s \in Sales : CascadeMove(s)) \/ FinishMove

Next ==
  \/ \E c \in Clients :
       \/ \E r \in Requests : Send(c, r)
       \/ ServerStep(c)
       \/ SerializationFailure(c)
       \/ Lose(c)
  \/ \E s \in Sales : Edit(s) \/ Cancel(s)
  \/ \E u \in Units : ChangeUnit(u) \/ StartMove(u)
  \/ MoveStep
  \/ BreakDeadlock

\* The server runs what it started; PostgreSQL grants a lock to its waiters in
\* the order they came and breaks every wait cycle.  Nobody has to send, edit
\* or move anything.
Fairness ==
  /\ \A c \in Clients : SF_vars(ServerStep(c))
  /\ SF_vars(MoveStep)
  /\ WF_vars(BreakDeadlock)

Spec == Init /\ [][Next]_vars
FairSpec == Spec /\ Fairness

-----------------------------------------------------------------------------
(* Properties.                                                              *)

\* A client that is told its sale is posted, now or earlier, has that sale
\* posted by exactly the request it sent; and one key posts one sale.
AnswersAreTrue ==
  /\ \A c \in Clients : reply[c] \in {"posted", "replay"} =>
       LET s == request[c].sale
       IN  doc[s].status = "posted" /\ doc[s].by = request[c]
  /\ \A s, t \in Posted(doc) : doc[s].by.key = doc[t].by.key => s = t

\* A refusal that tells the client to give up is never a mistake: the request
\* it refuses has not posted the sale, by this or by another delivery, and
\* never will.
RefusalsAreFinal ==
  \A c \in Clients :
    reply[c] \in Finals => doc[request[c].sale].by # request[c]

\* No unit is sold by two sales, though postings overlap and staff may put a
\* sold unit back on the shelf; and no unit is sold but by a posted sale.
UnitsSoldOnce ==
  \A u \in Units :
    LET sellers == {s \in Posted(doc) : u \in Cart[s]}
    IN  /\ Cardinality(sellers) <= 1
        /\ unit[u].state = "sold" => sellers # {}

\* "Allocate one gapless human-facing number": the invoices of the posted
\* sales are 1, 2, 3, ... without gap or repetition, though attempts fail
\* after taking a number and postings overlap.
InvoicesAreGapless ==
  /\ {doc[s].invoice : s \in Posted(doc)} = 1..invoices
  /\ Cardinality(Posted(doc)) = invoices

\* Postings that do not see each other never exceed the credit limit together.
CreditWithinLimit == Exposure(doc) <= CreditLimit

\* Postings, edits, cancellations and staff taken together are as if every
\* posting happened at one instant.
Atomic == INSTANCE AtomicPosting WITH
            shelf <- [u \in Units |-> unit[u].state]
PostsAtomically == Atomic!Spec

\* Every request is answered: no wait cycle, retry or conflict keeps a client
\* waiting for ever.
EveryRequestIsAnswered ==
  \A c \in Clients : server[c].pc # "idle" ~> server[c].pc = "idle"
=============================================================================
