------------------------------ MODULE Purchasing ------------------------------
(***************************************************************************)
(* Purchase orders and goods receipts under concurrency: purchasing and     *)
(* quick-stock-in of backend/src/modules.                                   *)
(*                                                                         *)
(* Orders are drafted, edited, approved, ordered, received in parts, closed *)
(* or cancelled.  Every request is one READ COMMITTED transaction.  A       *)
(* receipt takes the advisory lock of its idempotency key and looks the key *)
(* up, then locks the order and checks what is left to receive, then posts: *)
(* stock, identities, average cost, order status and payable become visible *)
(* at once.  The number sequence orders the postings of one branch, so      *)
(* posting is one step here.  The other requests read the order without a   *)
(* lock and then update it guarded by the status and version they know.     *)
(* A quick stock-in is one transaction that makes an order of its own,      *)
(* approves and receives it, pays the supplier and sets the selling price.  *)
(*                                                                         *)
(* An order has a line of goods counted by quantity and a line of devices,  *)
(* either of which may be empty.  All goods lie at one open location.       *)
(***************************************************************************)
EXTENDS Integers, FiniteSets, Sums

CONSTANTS Orders, Workers, Keys,
          Devices,      \* identities a serialized unit may have
          Terms,        \* what an order may say: goods, their cost, devices
          Contents,     \* what a receipt may bring: goods and devices
          QuickBuys,    \* what a quick stock-in may bring: goods, cost, paid
          DevicePrice,
          NoKey, NoRequest, Free,
          MaxVersion,   \* bound: orders are edited up to this version
          MaxIssued     \* bound: goods that leave the batch

ASSUME PurchasingAssumption ==
  /\ NoKey \notin Keys /\ Free \notin Workers
  /\ Terms \subseteq [goods: Nat, cost: Nat, devices: Nat]
  /\ \A t \in Terms : t.goods + t.devices > 0
  /\ Contents \subseteq [goods: Nat, devices: SUBSET Devices]
  /\ \A c \in Contents : IsFiniteSet(c.devices) /\ (c.goods > 0 \/ c.devices # {})
  /\ QuickBuys \subseteq [goods: Nat \ {0}, cost: Nat, paid: Nat]
  /\ \A q \in QuickBuys : q.paid <= q.goods * q.cost
  /\ DevicePrice \in Nat
  /\ MaxVersion \in Nat /\ MaxIssued \in Nat

VARIABLES order,      \* purchase_orders with their lines
          receipt,    \* goods_receipts and payables, by idempotency key
          unit,       \* the receipt that brought each device
          batch,      \* stock_batches: quantity and average cost of the goods
          price,      \* version of the variant's row, which holds its price
          keyLock, orderLock,
          job         \* the request of every worker, and its answer

rows  == <<order, receipt, unit, batch, price>>
locks == <<keyLock, orderLock>>
vars  == <<rows, locks, job>>

Statuses == {"draft", "approved", "ordered", "partially_received", "received",
             "closed", "cancelled"}

\* PURCHASE_ORDER_TRANSITIONS
Allowed == [draft              |-> {"approved", "cancelled"},
            approved           |-> {"ordered", "partially_received", "received", "cancelled"},
            ordered            |-> {"partially_received", "received", "cancelled"},
            partially_received |-> {"received", "closed"},
            received           |-> {"closed"},
            closed             |-> {},
            cancelled          |-> {}]

Receivable == {"approved", "ordered", "partially_received"}
Targets == {"approved", "ordered", "closed", "cancelled"}

NoTerms == [goods |-> 0, cost |-> 0, devices |-> 0]

\* `agreed' is what the approver had on the screen.
NoOrder == [status |-> "none", version |-> 0, terms |-> NoTerms, agreed |-> NoTerms,
            gotGoods |-> 0, gotDevices |-> 0]

\* The keys a receipt is recorded under.
Recorded == {k \in Keys : receipt[k].request # NoRequest}
NoReceipt == [request |-> NoRequest, order |-> NoKey, goods |-> 0, cost |-> 0,
              devices |-> {}, owed |-> 0, paid |-> 0]

Idle == [pc |-> "idle", request |-> NoRequest, seen |-> "none", price |-> 0,
         answer |-> "none"]

OrderTerms == [goods: Nat, cost: Nat, devices: Nat]

Requests ==
  [kind: {"receive"}, key: Keys, order: Orders, goods: Nat, cost: Nat,
   devices: SUBSET Devices]
  \cup [kind: {"quick"}, key: Keys, buy: QuickBuys]
  \cup [kind: Targets, order: Orders, version: Nat, terms: OrderTerms]
  \cup [kind: {"edit"}, order: Orders, version: Nat, terms: OrderTerms]

ASSUME RequestAssumption == NoRequest \notin Requests

RowsTypeOK ==
  /\ order \in [Orders -> [status: Statuses \cup {"none"}, version: Nat,
                           terms: OrderTerms, agreed: OrderTerms,
                           gotGoods: Nat, gotDevices: Nat]]
  /\ receipt \in [Keys -> [request: Requests \cup {NoRequest}, order: Orders \cup {NoKey},
                           goods: Nat, cost: Nat, devices: SUBSET Devices,
                           owed: Nat, paid: Nat]]
  /\ unit \in [Devices -> Keys \cup {NoKey}]
  /\ batch \in [onHand: Nat, cost: Nat, issued: 0..MaxIssued]
  /\ price \in Nat

JobsTypeOK ==
  /\ keyLock \in [Keys -> Workers \cup {Free}]
  /\ orderLock \in [Orders -> Workers \cup {Free}]
  /\ job \in [Workers -> [pc: {"idle", "key", "order", "post", "quick", "quickPost",
                               "read", "write"},
                          request: Requests \cup {NoRequest},
                          seen: Statuses \cup {"none"}, price: Nat,
                          answer: {"none", "received", "replay", "KEY_REUSED"}]]

PurchasingTypeOK == RowsTypeOK /\ JobsTypeOK

Init ==
  /\ order = [o \in Orders |-> NoOrder]
  /\ receipt = [k \in Keys |-> NoReceipt]
  /\ unit = [d \in Devices |-> NoKey]
  /\ batch = [onHand |-> 0, cost |-> 0, issued |-> 0]
  /\ price = 1
  /\ keyLock = [k \in Keys |-> Free]
  /\ orderLock = [o \in Orders |-> Free]
  /\ job = [w \in Workers |-> Idle]

-----------------------------------------------------------------------------
(* Requests and answers.                                                    *)

\* "none" stands for the answers nothing is claimed about: a decision taken,
\* and every refusal that invites another try.
Answer(w, answer) ==
  /\ job' = [job EXCEPT ![w] =
       [Idle EXCEPT !.answer = answer,
                    !.request = IF answer = "none" THEN NoRequest ELSE job[w].request]]
  /\ keyLock' = [k \in Keys |-> IF keyLock[k] = w THEN Free ELSE keyLock[k]]
  /\ orderLock' = [o \in Orders |-> IF orderLock[o] = w THEN Free ELSE orderLock[o]]

Goto(w, pc) == job' = [job EXCEPT ![w].pc = pc]

Submit(w, request, pc) ==
  /\ job[w].pc = "idle"
  /\ job' = [job EXCEPT ![w] = [Idle EXCEPT !.pc = pc, !.request = request]]
  /\ UNCHANGED <<rows, locks>>

\* A request states the unit cost of the order its sender saw, or of another
\* one.  A client may send it again, and may use a key for another request.
SendReceipt(w, k, o, c) ==
  /\ order[o].status \in Receivable \/ (k \in Recorded /\ receipt[k].order = o)
  /\ \E cost \in {t.cost : t \in Terms} :
       Submit(w, [kind |-> "receive", key |-> k, order |-> o, goods |-> c.goods,
                  cost |-> cost, devices |-> c.devices], "key")

SendQuick(w, k, q) == Submit(w, [kind |-> "quick", key |-> k, buy |-> q], "key")

\* What the page offers for the order it shows.
Offered == [none               |-> {},
            draft              |-> {"approved", "cancelled"},
            approved           |-> {"ordered", "cancelled"},
            ordered            |-> {"cancelled"},
            partially_received |-> {"closed"},
            received           |-> {"closed"},
            closed             |-> {},
            cancelled          |-> {}]

\* A decision about an order carries the version its reader saw.
SendDecision(w, o, target) ==
  /\ target \in Offered[order[o].status]
  /\ Submit(w, [kind |-> target, order |-> o, version |-> order[o].version,
                terms |-> order[o].terms], "read")

SendEdit(w, o, t) ==
  /\ order[o].status = "draft" /\ order[o].version < MaxVersion
  /\ Submit(w, [kind |-> "edit", order |-> o, version |-> order[o].version,
                terms |-> t], "read")

\* The server or its connection dies before the commit, or something the model
\* leaves out (an inactive supplier or location, a bad IMEI) refuses.
Abort(w) ==
  /\ job[w].pc # "idle"
  /\ Answer(w, "none")
  /\ UNCHANGED rows

-----------------------------------------------------------------------------
(* Receiving.                                                               *)

\* Fault: a used key is a replay, whatever was sent under it.
LookUpKeyOnly(w) ==
  LET r == job[w].request
  IN  /\ job[w].pc = "key"
      /\ keyLock[r.key] = Free
      /\ IF receipt[r.key].request = NoRequest
           THEN /\ keyLock' = [keyLock EXCEPT ![r.key] = w]
                /\ Goto(w, IF r.kind = "quick" THEN "quick" ELSE "order")
                /\ UNCHANGED orderLock
           ELSE Answer(w, "replay")
      /\ UNCHANGED rows

\* The advisory lock of the key, then the receipt recorded under it.
LookUpKey(w) ==
  LET r    == job[w].request
      used == receipt[r.key].request
  IN  /\ job[w].pc = "key"
      /\ keyLock[r.key] = Free
      /\ CASE used = NoRequest ->
                /\ keyLock' = [keyLock EXCEPT ![r.key] = w]
                /\ Goto(w, IF r.kind = "quick" THEN "quick" ELSE "order")
                /\ UNCHANGED orderLock
           [] used = r                       -> Answer(w, "replay")
           [] used # NoRequest /\ used # r   -> Answer(w, "KEY_REUSED")
      /\ UNCHANGED rows

\* prepareReceiptLines and assertIdentifiersAvailable
Fits(r) ==
  LET o == order[r.order]
  IN  /\ o.gotGoods + r.goods <= o.terms.goods
      /\ o.gotDevices + Cardinality(r.devices) <= o.terms.devices
      /\ r.cost = o.terms.cost
      /\ \A d \in r.devices : unit[d] = NoKey

\* Fault: the order is read without being locked.
ReadOrder(w) ==
  LET r == job[w].request
  IN  /\ job[w].pc = "order"
      /\ IF order[r.order].status \in Receivable /\ Fits(r)
           THEN Goto(w, "post") /\ UNCHANGED locks
           ELSE Answer(w, "none")
      /\ UNCHANGED rows

\* The row lock of the order, then everything that is checked under it.
LockOrder(w) ==
  LET r == job[w].request
  IN  /\ job[w].pc = "order"
      /\ orderLock[r.order] = Free
      /\ IF order[r.order].status \in Receivable /\ Fits(r)
           THEN /\ orderLock' = [orderLock EXCEPT ![r.order] = w]
                /\ Goto(w, "post")
                /\ UNCHANGED keyLock
           ELSE Answer(w, "none")
      /\ UNCHANGED rows

\* Fault: the average is rounded up.
AverageRoundedUp(old, held, total, added) ==
  (old * held + total + held + added) \div (held + added)

\* movingWeightedAverageUnitCost: rounded half up.
Average(old, held, total, added) ==
  LET sum   == old * held + total
      count == held + added
      rest  == sum % count
  IN  (sum \div count) + IF 2 * rest >= count THEN 1 ELSE 0

\* postReceiptLine for the goods.
Stocked(b, goods, cost) ==
  IF goods = 0 THEN b
  ELSE [b EXCEPT !.onHand = @ + goods,
                 !.cost = Average(@, b.onHand, goods * cost, goods)]

\* Fault: a line that is not on this receipt counts as complete.
FullyReceivedHere(o, goods, devices) ==
  /\ goods = 0 \/ o.gotGoods + goods = o.terms.goods
  /\ devices = {} \/ o.gotDevices + Cardinality(devices) = o.terms.devices

FullyReceived(o, goods, devices) ==
  /\ o.gotGoods + goods = o.terms.goods
  /\ o.gotDevices + Cardinality(devices) = o.terms.devices

\* The order after one more receipt.
Received(o, goods, devices) ==
  [o EXCEPT !.gotGoods = @ + goods,
            !.gotDevices = @ + Cardinality(devices),
            !.status = IF FullyReceived(o, goods, devices) THEN "received"
                       ELSE "partially_received",
            !.version = @ + 1]

\* The unique index on the identities: another receipt may have brought one
\* since they were looked up.
IdentitiesFree(devices) == \A d \in devices : unit[d] = NoKey

Post(w) ==
  LET r == job[w].request
      o == order[r.order]
      owed == r.goods * r.cost + Cardinality(r.devices) * DevicePrice
  IN  /\ job[w].pc = "post"
      /\ IF IdentitiesFree(r.devices)
           THEN /\ order' = [order EXCEPT ![r.order] = Received(o, r.goods, r.devices)]
                /\ receipt' = [receipt EXCEPT ![r.key] =
                     [request |-> r, order |-> r.order, goods |-> r.goods, cost |-> r.cost,
                      devices |-> r.devices, owed |-> owed, paid |-> 0]]
                /\ unit' = [d \in Devices |-> IF d \in r.devices THEN r.key ELSE unit[d]]
                /\ batch' = Stocked(batch, r.goods, r.cost)
                /\ UNCHANGED price
                /\ Answer(w, "received")
           ELSE Answer(w, "none") /\ UNCHANGED rows

\* resolveVariant reads the version of the variant's row.
PrepareQuick(w) ==
  /\ job[w].pc = "quick"
  /\ job' = [job EXCEPT ![w].pc = "quickPost", ![w].price = price]
  /\ UNCHANGED <<rows, locks>>

\* An order that was approved and received by the transaction that made it.
QuickOrder(b) ==
  LET terms == [goods |-> b.goods, cost |-> b.cost, devices |-> 0]
  IN  [NoOrder EXCEPT !.status = "received", !.version = 3, !.terms = terms,
                      !.agreed = terms, !.gotGoods = b.goods]

\* The selling price is set last, guarded by the version read before: when
\* somebody else set it meanwhile, everything is undone.
PostQuick(w) ==
  LET r == job[w].request
      b == r.buy
  IN  /\ job[w].pc = "quickPost"
      /\ IF price = job[w].price
           THEN \E o \in Orders :
                  /\ order[o].status = "none"
                  /\ order' = [order EXCEPT ![o] = QuickOrder(b)]
                  /\ receipt' = [receipt EXCEPT ![r.key] =
                       [request |-> r, order |-> o, goods |-> b.goods, cost |-> b.cost,
                        devices |-> {}, owed |-> b.goods * b.cost, paid |-> b.paid]]
                  /\ batch' = Stocked(batch, b.goods, b.cost)
                  /\ price' = price + 1
                  /\ UNCHANGED unit
                  /\ Answer(w, "received")
           ELSE Answer(w, "none") /\ UNCHANGED rows

-----------------------------------------------------------------------------
(* The life of an order.                                                    *)

\* createPurchaseOrder; the new row is nobody else's concern.
CreateOrder(o, t) ==
  /\ order[o].status = "none"
  /\ order' = [order EXCEPT ![o] =
       [NoOrder EXCEPT !.status = "draft", !.version = 1, !.terms = t]]
  /\ UNCHANGED <<receipt, unit, batch, price, locks, job>>

\* Decisions and edits look at the order without a lock ...
ReadStatus(w) ==
  LET r == job[w].request
      status == order[r.order].status
      proper == IF r.kind = "edit" THEN status = "draft" ELSE r.kind \in Allowed[status]
  IN  /\ job[w].pc = "read"
      /\ IF proper
           THEN job' = [job EXCEPT ![w].pc = "write", ![w].seen = status] /\ UNCHANGED locks
           ELSE Answer(w, "none")
      /\ UNCHANGED rows

\* Fault: only the status is compared, not the version.
UnchangedStatus(w) == order[job[w].request.order].status = job[w].seen

\* The guard of the update: the status read, the version the client knows.
UnchangedSince(w) ==
  LET o == order[job[w].request.order]
  IN  o.status = job[w].seen /\ o.version = job[w].request.version

\* ... and write it, guarded, once its row is free.
Write(w) ==
  LET r == job[w].request
      o == order[r.order]
  IN  /\ job[w].pc = "write"
      /\ orderLock[r.order] = Free
      /\ IF UnchangedSince(w)
           THEN /\ order' = [order EXCEPT ![r.order] =
                     IF r.kind = "edit" THEN [o EXCEPT !.terms = r.terms, !.version = @ + 1]
                     ELSE [o EXCEPT !.status = r.kind, !.version = @ + 1,
                             !.agreed = IF r.kind = "approved" THEN r.terms ELSE @]]
                /\ UNCHANGED <<receipt, unit, batch, price>>
                /\ Answer(w, "none")
           ELSE Answer(w, "none") /\ UNCHANGED rows

-----------------------------------------------------------------------------
(* Everyone else.                                                           *)

\* Goods leave the batch, by a sale or an adjustment.
Issue ==
  /\ batch.onHand > 0 /\ batch.issued < MaxIssued
  /\ batch' = [batch EXCEPT !.onHand = @ - 1, !.issued = @ + 1]
  /\ UNCHANGED <<order, receipt, unit, price, locks, job>>

ServerStep(w) ==
  \/ LookUpKey(w) \/ LockOrder(w) \/ Post(w)
  \/ PrepareQuick(w) \/ PostQuick(w)
  \/ ReadStatus(w) \/ Write(w)

Next ==
  \/ \E w \in Workers :
       \/ \E k \in Keys, o \in Orders, c \in Contents : SendReceipt(w, k, o, c)
       \/ \E k \in Keys, q \in QuickBuys : SendQuick(w, k, q)
       \/ \E o \in Orders, target \in Targets : SendDecision(w, o, target)
       \/ \E o \in Orders, t \in Terms : SendEdit(w, o, t)
       \/ ServerStep(w)
       \/ Abort(w)
  \/ \E o \in Orders, t \in Terms : CreateOrder(o, t)
  \/ Issue

Spec == Init /\ [][Next]_vars

-----------------------------------------------------------------------------
(* What it implements.                                                      *)

\* An order and a receipt as AtomicReceiving sees them.
Purchase(o) == [status |-> o.status, terms |-> o.terms, agreed |-> o.agreed,
                goods |-> o.gotGoods, devices |-> o.gotDevices]
Came(r) == [order |-> r.order, goods |-> r.goods, devices |-> r.devices,
            owed |-> r.owed, paid |-> r.paid]

Atomic == INSTANCE AtomicReceiving WITH
            purchase <- [o \in Orders |-> Purchase(order[o])],
            came <- [k \in Keys |-> Came(receipt[k])],
            holder <- unit, stock <- batch.onHand

-----------------------------------------------------------------------------
(* Properties.                                                              *)

\* An order's status says how much of it came: nothing before the first
\* receipt, everything when it is received, something in between while it is
\* partially received, and something when it is closed; a cancelled order
\* brought nothing, whichever of a receipt and a cancellation came first.
StatusTellsReceipts ==
  \A o \in Orders :
    LET row     == order[o]
        nothing == row.gotGoods = 0 /\ row.gotDevices = 0
        all     == row.gotGoods = row.terms.goods /\ row.gotDevices = row.terms.devices
    IN  CASE row.status \in {"none", "draft", "approved", "ordered", "cancelled"} -> nothing
          [] row.status = "partially_received" -> ~nothing /\ ~all
          [] row.status = "received"           -> all
          [] row.status = "closed"             -> ~nothing

ReceiptsOf(o) == {k \in Recorded : receipt[k].order = o}

\* Whatever interleaves, fails and is repeated: every decision takes effect on
\* the terms and the status of one instant, and every receipt arrives at one
\* instant, whole, within what was ordered and approved.
ReceivesAtomically == Atomic!Spec

\* Receipts add up: an order never receives more than was ordered and counts
\* exactly its receipts, a device belongs to the one receipt that lists it, and
\* what is or was in the batch is what the receipts brought.
ReceiptsAddUp ==
  LET goods   == [k \in Keys |-> receipt[k].goods]
      devices == [k \in Keys |-> Cardinality(receipt[k].devices)]
  IN  /\ \A o \in Orders :
           /\ order[o].gotGoods <= order[o].terms.goods
           /\ order[o].gotDevices <= order[o].terms.devices
           /\ order[o].gotGoods = SumOver(goods, ReceiptsOf(o))
           /\ order[o].gotDevices = SumOver(devices, ReceiptsOf(o))
      /\ \A d \in Devices, k \in Keys : d \in receipt[k].devices <=> unit[d] = k
      /\ batch.onHand + batch.issued = SumOver(goods, Recorded)

\* Goods arrive, and suppliers are owed, only on the terms that the approver
\* had before him, however edits, approvals and receipts interleave.
TermsAsApproved ==
  /\ \A o \in Orders :
       order[o].status \notin {"none", "draft", "cancelled"} => order[o].terms = order[o].agreed
  /\ \A k \in Recorded :
       LET agreed == order[receipt[k].order].agreed
       IN  /\ receipt[k].cost = agreed.cost
           /\ receipt[k].owed = receipt[k].goods * agreed.cost
                                + Cardinality(receipt[k].devices) * DevicePrice
           /\ receipt[k].paid <= receipt[k].owed

\* A client that is told its goods were received, now or earlier, has exactly
\* its request recorded under its key; one told that its key was used for
\* something else has not.
AnswersAreTrue ==
  \A w \in Workers :
    /\ job[w].answer \in {"received", "replay"} =>
         receipt[job[w].request.key].request = job[w].request
    /\ job[w].answer = "KEY_REUSED" =>
         receipt[job[w].request.key].request # job[w].request

\* The average cost of the goods lies between the lowest and the highest cost
\* they were ever bought at, however often it was rounded.
AverageWithinPrices ==
  LET costs == {receipt[k].cost : k \in {j \in Recorded : receipt[j].goods > 0}}
  IN  batch.onHand > 0 =>
        /\ \E c \in costs : c <= batch.cost
        /\ \E c \in costs : batch.cost <= c
=============================================================================
