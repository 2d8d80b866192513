--------------------------- MODULE PurchasingProofs ---------------------------
(***************************************************************************)
(* Proofs about Purchasing, for any orders, keys, devices and any number of *)
(* requests at a time: what a status tells, the terms goods arrive on, what *)
(* clients are told, the bounds of the average cost, that receipts add up,  *)
(* and that Purchasing implements AtomicReceiving.                          *)
(***************************************************************************)
EXTENDS Purchasing, SumProofs

\* An order that some receipt belongs to has one of these.
Posted == {"partially_received", "received", "closed"}

\* An order on its own: how its status, quantities and terms belong together.
OrderOK(o) ==
  LET row     == order[o]
      nothing == row.gotGoods = 0 /\ row.gotDevices = 0
      all     == row.gotGoods = row.terms.goods /\ row.gotDevices = row.terms.devices
  IN  /\ row.gotGoods <= row.terms.goods /\ row.gotDevices <= row.terms.devices
      /\ IF row.status = "none" THEN row.version = 0
         ELSE row.terms.goods + row.terms.devices > 0
      /\ row.status \notin Posted => nothing
      /\ row.status = "partially_received" => ~nothing /\ ~all
      /\ row.status = "received" => all
      /\ row.status = "closed" => ~nothing
      /\ row.status \notin {"none", "draft", "cancelled"} => row.terms = row.agreed

\* A receipt and the order it belongs to.
ReceiptOK(k) ==
  k \in Recorded =>
    /\ receipt[k].order \in Orders
    /\ order[receipt[k].order].status \in Posted
    /\ receipt[k].cost = order[receipt[k].order].agreed.cost
    /\ receipt[k].owed = receipt[k].goods * receipt[k].cost
                         + Cardinality(receipt[k].devices) * DevicePrice
    /\ receipt[k].paid <= receipt[k].owed

\* Which requests are served where, and what they bring.
RequestOK(w) ==
  LET j == job[w]
      r == j.request
  IN  /\ j.pc # "idle" \/ j.answer # "none" => r \in Requests
      /\ j.pc # "idle" => j.answer = "none"
      /\ j.pc = "key" \/ j.answer # "none" => r.kind \in {"receive", "quick"}
      /\ j.pc \in {"order", "post"} => r.kind = "receive"
      /\ j.pc \in {"quick", "quickPost"} => r.kind = "quick"
      /\ j.pc \in {"read", "write"} => r.kind \in Targets \cup {"edit"}
      /\ r \in Requests /\ r.kind = "receive" =>
           \E c \in Contents : r.goods = c.goods /\ r.devices = c.devices
      /\ r \in Requests /\ r.kind = "edit" => r.terms \in Terms

\* What the lookup found stays true until the commit: while a request is served
\* nobody else records its key.
HoldsKey(w) ==
  job[w].pc \in {"order", "post", "quick", "quickPost"} =>
    keyLock[job[w].request.key] = w /\ job[w].request.key \notin Recorded

\* What was checked under the lock of the order stays true until the commit.
HoldsOrder(w) ==
  LET r == job[w].request
      o == order[r.order]
  IN  job[w].pc = "post" =>
        /\ orderLock[r.order] = w
        /\ o.status \in Receivable
        /\ o.gotGoods + r.goods <= o.terms.goods
        /\ o.gotDevices + Cardinality(r.devices) <= o.terms.devices
        /\ r.cost = o.terms.cost

\* A decision whose version is still the order's was taken on its terms.
Decides(w) ==
  LET r == job[w].request
      o == order[r.order]
  IN  job[w].pc \in {"read", "write"} =>
        /\ o.status # "none"
        /\ r.version <= o.version
        /\ r.kind # "edit" /\ r.version = o.version => r.terms = o.terms
        /\ job[w].pc = "write" =>
             IF r.kind = "edit" THEN job[w].seen = "draft"
             ELSE job[w].seen \in Statuses /\ r.kind \in Allowed[job[w].seen]

\* What a client was told.
AnswerOK(w) ==
  /\ job[w].answer \in {"received", "replay"} =>
       receipt[job[w].request.key].request = job[w].request
  /\ job[w].answer = "KEY_REUSED" =>
       /\ job[w].request.key \in Recorded
       /\ receipt[job[w].request.key].request # job[w].request

JobOK(w) == RequestOK(w) /\ HoldsKey(w) /\ HoldsOrder(w) /\ Decides(w) /\ AnswerOK(w)

\* The inductive invariant.
PurchasingInv ==
  /\ PurchasingTypeOK
  /\ \A o \in Orders : OrderOK(o)
  /\ \A k \in Keys : ReceiptOK(k)
  /\ \A w \in Workers : JobOK(w)
  /\ AverageWithinPrices

-----------------------------------------------------------------------------
(* Requests.                                                                *)

LEMMA ReceiveRequest ==
  ASSUME NEW r \in Requests, r.kind = "receive"
  PROVE  /\ r.key \in Keys /\ r.order \in Orders /\ r.goods \in Nat /\ r.cost \in Nat
         /\ r.devices \in SUBSET Devices
BY DEF Requests, Targets

LEMMA QuickRequest ==
  ASSUME NEW r \in Requests, r.kind = "quick"
  PROVE  /\ r.key \in Keys
         /\ r.buy.goods \in Nat \ {0} /\ r.buy.cost \in Nat /\ r.buy.paid \in Nat
         /\ r.buy.paid <= r.buy.goods * r.buy.cost
<1>1. r.key \in Keys /\ r.buy \in QuickBuys
  BY DEF Requests, Targets
<1> QED BY <1>1, PurchasingAssumption DEF PurchasingAssumption

LEMMA KeyedRequest ==
  ASSUME NEW r \in Requests, r.kind \in {"receive", "quick"}
  PROVE  r.key \in Keys
BY ReceiveRequest, QuickRequest

LEMMA OrderRequest ==
  ASSUME NEW r \in Requests, r.kind \in Targets \cup {"edit"}
  PROVE  r.order \in Orders /\ r.version \in Nat /\ r.terms \in OrderTerms
BY DEF Requests, Targets

\* Whoever is not concerned by a step: orders change only while they are not
\* locked by others or cannot be received, and then get a new version; receipts
\* are only made, and only under a key that is held.
LEMMA OthersKeep ==
  ASSUME PurchasingInv, NEW w,
         \A v \in Workers \ {w} : job'[v] = job[v],
         \A k \in Keys : keyLock[k] \notin {w, Free} => keyLock'[k] = keyLock[k],
         \A o \in Orders : orderLock[o] \notin {w, Free} => orderLock'[o] = orderLock[o],
         \A o \in Orders :
           \/ order'[o] = order[o]
           \/ /\ orderLock[o] \in {w, Free} \/ order[o].status \notin Receivable
              /\ order'[o].status # "none" /\ order'[o].version > order[o].version,
         \A k \in Keys :
           receipt'[k] = receipt[k] \/ (k \notin Recorded /\ keyLock[k] = w),
         PurchasingTypeOK'
  PROVE  \A v \in Workers \ {w} : JobOK(v)'
<1> SUFFICES ASSUME NEW v \in Workers \ {w} PROVE JobOK(v)'
  OBVIOUS
<1> DEFINE r == job[v].request
<1>1. JobOK(v) /\ job'[v] = job[v]
  BY DEF PurchasingInv
<1>2. v # Free
  BY PurchasingAssumption DEF PurchasingAssumption
<1>3. RequestOK(v)'
  BY <1>1 DEF JobOK, RequestOK
<1>4. HoldsKey(v)'
  <2> SUFFICES ASSUME job[v].pc \in {"order", "post", "quick", "quickPost"}
               PROVE  keyLock'[r.key] = v /\ receipt'[r.key].request = NoRequest
    BY <1>1 DEF HoldsKey, Recorded
  <2>1. r.key \in Keys
    BY <1>1, KeyedRequest DEF JobOK, RequestOK
  <2> QED BY <1>1, <1>2, <2>1 DEF JobOK, HoldsKey, Recorded
<1>5. HoldsOrder(v)'
  <2> SUFFICES ASSUME job[v].pc = "post"
               PROVE  orderLock'[r.order] = v /\ order'[r.order] = order[r.order]
    BY <1>1 DEF JobOK, HoldsOrder
  <2>1. r.order \in Orders
    BY <1>1, ReceiveRequest DEF JobOK, RequestOK
  <2> QED BY <1>1, <1>2, <2>1 DEF JobOK, HoldsOrder
<1>6. Decides(v)'
  <2> SUFFICES ASSUME job[v].pc \in {"read", "write"} PROVE Decides(v)'
    BY <1>1 DEF Decides
  <2>1. r.order \in Orders /\ r.version \in Nat
    BY <1>1, OrderRequest DEF JobOK, RequestOK
  <2>2. order[r.order].version \in Nat /\ order'[r.order].version \in Nat
    BY <2>1 DEF PurchasingInv, PurchasingTypeOK, RowsTypeOK
  <2> QED BY <1>1, <2>1, <2>2 DEF JobOK, Decides
<1>7. AnswerOK(v)'
  <2> SUFFICES ASSUME job[v].answer # "none" PROVE AnswerOK(v)'
    BY <1>1 DEF AnswerOK
  <2>1. r \in Requests /\ r.key \in Keys
    BY <1>1, KeyedRequest DEF JobOK, RequestOK
  <2>2. r.key \in Recorded
    BY <1>1, <2>1, RequestAssumption
    DEF JobOK, AnswerOK, Recorded, RequestAssumption, PurchasingInv, PurchasingTypeOK, JobsTypeOK
  <2>3. receipt'[r.key] = receipt[r.key]
    BY <2>1, <2>2
  <2> QED BY <1>1, <2>1, <2>2, <2>3 DEF JobOK, AnswerOK, Recorded
<1> QED BY <1>3, <1>4, <1>5, <1>6, <1>7 DEF JobOK

-----------------------------------------------------------------------------
(* Steps of one request that leave the rows as they are.                    *)

LEMMA AnswerFrame ==
  ASSUME JobsTypeOK, NEW w \in Workers,
         NEW answer \in {"none", "received", "replay", "KEY_REUSED"}, Answer(w, answer)
  PROVE  /\ JobsTypeOK'
         /\ job'[w].pc = "idle" /\ job'[w].answer = answer
         /\ job'[w].request = IF answer = "none" THEN NoRequest ELSE job[w].request
         /\ \A v \in Workers \ {w} : job'[v] = job[v]
         /\ \A k \in Keys : keyLock[k] \notin {w, Free} => keyLock'[k] = keyLock[k]
         /\ \A o \in Orders : orderLock[o] \notin {w, Free} => orderLock'[o] = orderLock[o]
BY DEF JobsTypeOK, Answer, Idle

\* An answer that says nothing leaves a worker in order.
LEMMA SilentJob ==
  ASSUME NEW w \in Workers, job'[w].pc = "idle", job'[w].answer = "none",
         job'[w].request = NoRequest
  PROVE  JobOK(w)'
BY RequestAssumption
   DEF JobOK, RequestOK, HoldsKey, HoldsOrder, Decides, AnswerOK, RequestAssumption

LEMMA RowsKept ==
  ASSUME PurchasingInv, UNCHANGED <<order, receipt, batch>>
  PROVE  /\ \A o \in Orders : OrderOK(o)'
         /\ \A k \in Keys : ReceiptOK(k)'
         /\ AverageWithinPrices'
BY DEF PurchasingInv, OrderOK, ReceiptOK, AverageWithinPrices, Recorded

LEMMA JobStep ==
  ASSUME PurchasingInv, NEW w \in Workers, UNCHANGED rows, JobsTypeOK', JobOK(w)',
         \A v \in Workers \ {w} : job'[v] = job[v],
         \A k \in Keys : keyLock[k] \notin {w, Free} => keyLock'[k] = keyLock[k],
         \A o \in Orders : orderLock[o] \notin {w, Free} => orderLock'[o] = orderLock[o]
  PROVE  PurchasingInv'
<1>1. PurchasingTypeOK'
  BY DEF PurchasingInv, PurchasingTypeOK, RowsTypeOK, rows
<1>2. \A v \in Workers \ {w} : JobOK(v)'
  BY <1>1, OthersKeep DEF rows
<1>3. /\ \A o \in Orders : OrderOK(o)'
      /\ \A k \in Keys : ReceiptOK(k)'
      /\ AverageWithinPrices'
  BY RowsKept DEF rows
<1> QED BY <1>1, <1>2, <1>3 DEF PurchasingInv

LEMMA RefusalKeepsInv ==
  ASSUME PurchasingInv, NEW w \in Workers, Answer(w, "none"), UNCHANGED rows
  PROVE  PurchasingInv'
<1>1. JobsTypeOK
  BY DEF PurchasingInv, PurchasingTypeOK
<1> QED BY <1>1, AnswerFrame, SilentJob, JobStep

\* A new request is in order if it is of the kind that is served where it goes.
LEMMA SubmitKeepsInv ==
  ASSUME PurchasingInv, NEW w \in Workers, NEW request \in Requests,
         NEW pc \in {"key", "read"}, Submit(w, request, pc),
         pc = "key" => request.kind \in {"receive", "quick"},
         request.kind = "receive" =>
           \E c \in Contents : request.goods = c.goods /\ request.devices = c.devices,
         pc = "read" =>
           /\ request.kind \in Targets \cup {"edit"}
           /\ order[request.order].status # "none"
           /\ request.version = order[request.order].version
           /\ request.kind # "edit" => request.terms = order[request.order].terms,
         request.kind = "edit" => request.terms \in Terms
  PROVE  PurchasingInv'
<1>1. /\ job'[w] = [Idle EXCEPT !.pc = pc, !.request = request]
      /\ \A v \in Workers \ {w} : job'[v] = job[v]
      /\ JobsTypeOK'
  BY DEF PurchasingInv, PurchasingTypeOK, JobsTypeOK, Submit, locks, rows, Idle
<1>2. RequestOK(w)'
  BY <1>1 DEF RequestOK, Idle
<1>3. HoldsKey(w)' /\ HoldsOrder(w)' /\ AnswerOK(w)'
  BY <1>1 DEF HoldsKey, HoldsOrder, AnswerOK, Idle
<1>4. Decides(w)'
  <2> SUFFICES ASSUME pc = "read" PROVE Decides(w)'
    BY <1>1 DEF Decides, Idle
  <2>1. request.order \in Orders /\ order[request.order].version \in Nat
    BY OrderRequest DEF PurchasingInv, PurchasingTypeOK, RowsTypeOK
  <2> QED BY <1>1, <2>1 DEF Decides, Idle, Submit, rows
<1> QED BY <1>1, <1>2, <1>3, <1>4, JobStep DEF JobOK, Submit, locks, rows

LEMMA SendKeepsInv ==
  ASSUME PurchasingInv, NEW w \in Workers,
         \/ \E k \in Keys, o \in Orders, c \in Contents : SendReceipt(w, k, o, c)
         \/ \E k \in Keys, q \in QuickBuys : SendQuick(w, k, q)
         \/ \E o \in Orders, target \in Targets : SendDecision(w, o, target)
         \/ \E o \in Orders, t \in Terms : SendEdit(w, o, t)
  PROVE  PurchasingInv'
<1>1. CASE \E k \in Keys, o \in Orders, c \in Contents : SendReceipt(w, k, o, c)
  <2>1. PICK k \in Keys, o \in Orders, c \in Contents : SendReceipt(w, k, o, c)
    BY <1>1
  <2>2. PICK sent \in Terms :
          Submit(w, [kind |-> "receive", key |-> k, order |-> o, goods |-> c.goods,
                     cost |-> sent.cost, devices |-> c.devices], "key")
    BY <2>1 DEF SendReceipt
  <2> DEFINE request == [kind |-> "receive", key |-> k, order |-> o, goods |-> c.goods,
                         cost |-> sent.cost, devices |-> c.devices]
  <2>3. request \in Requests
    BY PurchasingAssumption DEF Requests, PurchasingAssumption
  <2> QED BY <2>2, <2>3, SubmitKeepsInv
<1>2. CASE \E k \in Keys, q \in QuickBuys : SendQuick(w, k, q)
  <2>1. PICK k \in Keys, q \in QuickBuys : SendQuick(w, k, q)
    BY <1>2
  <2> DEFINE request == [kind |-> "quick", key |-> k, buy |-> q]
  <2>2. request \in Requests
    BY DEF Requests
  <2>3. Submit(w, request, "key")
    BY <2>1 DEF SendQuick
  <2> QED BY <2>2, <2>3, SubmitKeepsInv
<1>3. CASE \E o \in Orders, target \in Targets : SendDecision(w, o, target)
  <2>1. PICK o \in Orders, target \in Targets : SendDecision(w, o, target)
    BY <1>3
  <2> DEFINE request == [kind |-> target, order |-> o, version |-> order[o].version,
                         terms |-> order[o].terms]
  <2>2. request \in Requests
    BY DEF Requests, PurchasingInv, PurchasingTypeOK, RowsTypeOK
  <2>3. Submit(w, request, "read") /\ order[o].status # "none"
    BY <2>1 DEF SendDecision, Offered
  <2>4. request.kind \in Targets /\ target \notin {"receive", "quick", "edit"}
    BY DEF Targets
  <2> QED BY <2>2, <2>3, <2>4, SubmitKeepsInv
<1>4. CASE \E o \in Orders, t \in Terms : SendEdit(w, o, t)
  <2>1. PICK o \in Orders, t \in Terms : SendEdit(w, o, t)
    BY <1>4
  <2> DEFINE request == [kind |-> "edit", order |-> o, version |-> order[o].version,
                         terms |-> t]
  <2>2. request \in Requests
    BY PurchasingAssumption DEF Requests, PurchasingAssumption, PurchasingInv,
       PurchasingTypeOK, RowsTypeOK, OrderTerms
  <2>3. Submit(w, request, "read") /\ order[o].status # "none"
    BY <2>1 DEF SendEdit
  <2> QED BY <2>2, <2>3, SubmitKeepsInv
<1> QED BY <1>1, <1>2, <1>3, <1>4

LEMMA LookUpKeepsInv ==
  ASSUME PurchasingInv, NEW w \in Workers, LookUpKey(w)
  PROVE  PurchasingInv'
<1> DEFINE r == job[w].request
<1>1. r \in Requests /\ r.kind \in {"receive", "quick"} /\ r.key \in Keys
  BY KeyedRequest DEF LookUpKey, PurchasingInv, JobOK, RequestOK
<1>2. JobsTypeOK /\ JobOK(w) /\ job[w].pc = "key"
  BY DEF LookUpKey, PurchasingInv, PurchasingTypeOK
<1>3. CASE receipt[r.key].request = NoRequest
  <2>1. /\ keyLock' = [keyLock EXCEPT ![r.key] = w]
        /\ Goto(w, IF r.kind = "quick" THEN "quick" ELSE "order")
        /\ UNCHANGED orderLock /\ keyLock[r.key] = Free
    BY <1>1, <1>3, RequestAssumption DEF LookUpKey, RequestAssumption
  <2>2. /\ JobsTypeOK'
        /\ job'[w] = [job[w] EXCEPT !.pc = IF r.kind = "quick" THEN "quick" ELSE "order"]
        /\ \A v \in Workers \ {w} : job'[v] = job[v]
    <3>1. job' = [job EXCEPT ![w].pc = IF r.kind = "quick" THEN "quick" ELSE "order"]
      BY <2>1 DEF Goto
    <3>2. keyLock' \in [Keys -> Workers \cup {Free}] /\ orderLock' = orderLock
      BY <1>1, <1>2, <2>1 DEF JobsTypeOK
    <3> QED BY <1>2, <3>1, <3>2 DEF JobsTypeOK
  <2>3. RequestOK(w)'
    BY <1>1, <1>2, <2>2 DEF JobOK, RequestOK
  <2>4. HoldsKey(w)'
    BY <1>1, <1>2, <1>3, <2>1, <2>2 DEF HoldsKey, Recorded, JobsTypeOK, LookUpKey, rows
  <2>5. HoldsOrder(w)' /\ Decides(w)' /\ AnswerOK(w)'
    BY <1>2, <2>2 DEF HoldsOrder, Decides, AnswerOK, JobOK, RequestOK
  <2>6. /\ \A k \in Keys : keyLock[k] \notin {w, Free} => keyLock'[k] = keyLock[k]
        /\ \A o \in Orders : orderLock[o] \notin {w, Free} => orderLock'[o] = orderLock[o]
    BY <1>2, <2>1 DEF JobsTypeOK
  <2> QED BY <2>2, <2>3, <2>4, <2>5, <2>6, JobStep DEF JobOK, LookUpKey
<1>4. CASE receipt[r.key].request # NoRequest
  <2>1. PICK answer \in {"replay", "KEY_REUSED"} :
          /\ Answer(w, answer) /\ UNCHANGED rows
          /\ answer = "replay" <=> receipt[r.key].request = r
    BY <1>1, <1>4 DEF LookUpKey
  <2>2. /\ JobsTypeOK'
        /\ job'[w].pc = "idle" /\ job'[w].answer = answer /\ job'[w].request = r
        /\ \A v \in Workers \ {w} : job'[v] = job[v]
        /\ \A k \in Keys : keyLock[k] \notin {w, Free} => keyLock'[k] = keyLock[k]
        /\ \A o \in Orders : orderLock[o] \notin {w, Free} => orderLock'[o] = orderLock[o]
    BY <1>2, <2>1, AnswerFrame
  <2>3. RequestOK(w)'
    BY <1>1, <1>2, <2>2 DEF JobOK, RequestOK
  <2>4. HoldsKey(w)' /\ HoldsOrder(w)' /\ Decides(w)'
    BY <2>2 DEF HoldsKey, HoldsOrder, Decides
  <2>5. AnswerOK(w)'
    BY <1>1, <1>4, <2>1, <2>2 DEF AnswerOK, Recorded, rows
  <2> QED BY <2>1, <2>2, <2>3, <2>4, <2>5, JobStep DEF JobOK
<1> QED BY <1>3, <1>4

LEMMA LockOrderKeepsInv ==
  ASSUME PurchasingInv, NEW w \in Workers, LockOrder(w)
  PROVE  PurchasingInv'
<1> DEFINE r == job[w].request
<1>1. r \in Requests /\ r.kind = "receive" /\ r.key \in Keys /\ r.order \in Orders
  BY ReceiveRequest DEF LockOrder, PurchasingInv, JobOK, RequestOK
<1>2. JobsTypeOK /\ JobOK(w) /\ job[w].pc = "order"
  BY DEF LockOrder, PurchasingInv, PurchasingTypeOK
<1>3. CASE order[r.order].status \in Receivable /\ Fits(r)
  <2>1. /\ orderLock' = [orderLock EXCEPT ![r.order] = w] /\ orderLock[r.order] = Free
        /\ Goto(w, "post") /\ UNCHANGED keyLock /\ UNCHANGED rows
    BY <1>3 DEF LockOrder
  <2>2. /\ JobsTypeOK' /\ job'[w] = [job[w] EXCEPT !.pc = "post"]
        /\ \A v \in Workers \ {w} : job'[v] = job[v]
    <3>1. job' = [job EXCEPT ![w].pc = "post"]
      BY <2>1 DEF Goto
    <3>2. orderLock' \in [Orders -> Workers \cup {Free}] /\ keyLock' = keyLock
      BY <1>1, <1>2, <2>1 DEF JobsTypeOK
    <3> QED BY <1>2, <3>1, <3>2 DEF JobsTypeOK
  <2>3. RequestOK(w)'
    BY <1>1, <1>2, <2>2 DEF JobOK, RequestOK
  <2>4. HoldsKey(w)'
    BY <1>2, <2>1, <2>2 DEF JobOK, HoldsKey, Recorded, rows
  <2>5. HoldsOrder(w)'
    BY <1>1, <1>2, <1>3, <2>1, <2>2 DEF HoldsOrder, Fits, JobsTypeOK, rows
  <2>6. Decides(w)' /\ AnswerOK(w)'
    BY <1>2, <2>2 DEF Decides, AnswerOK, JobOK, RequestOK
  <2>7. \A o \in Orders : orderLock[o] \notin {w, Free} => orderLock'[o] = orderLock[o]
    BY <1>2, <2>1 DEF JobsTypeOK
  <2> QED BY <2>1, <2>2, <2>3, <2>4, <2>5, <2>6, <2>7, JobStep DEF JobOK
<1>4. CASE ~(order[r.order].status \in Receivable /\ Fits(r))
  BY <1>4, RefusalKeepsInv DEF LockOrder
<1> QED BY <1>3, <1>4

LEMMA PrepareQuickKeepsInv ==
  ASSUME PurchasingInv, NEW w \in Workers, PrepareQuick(w)
  PROVE  PurchasingInv'
<1>1. JobsTypeOK /\ JobOK(w) /\ price \in Nat
  BY DEF PurchasingInv, PurchasingTypeOK, RowsTypeOK
<1>2. /\ JobsTypeOK' /\ job'[w].pc = "quickPost"
      /\ job'[w].request = job[w].request /\ job'[w].answer = job[w].answer
      /\ \A v \in Workers \ {w} : job'[v] = job[v]
  BY <1>1 DEF PrepareQuick, JobsTypeOK, locks
<1>3. RequestOK(w)'
  BY <1>1, <1>2 DEF JobOK, RequestOK, PrepareQuick
<1>4. HoldsKey(w)'
  BY <1>1, <1>2 DEF JobOK, HoldsKey, Recorded, rows, locks, PrepareQuick
<1>5. HoldsOrder(w)' /\ Decides(w)' /\ AnswerOK(w)'
  BY <1>1, <1>2 DEF HoldsOrder, Decides, AnswerOK, JobOK, RequestOK, PrepareQuick
<1> QED BY <1>2, <1>3, <1>4, <1>5, JobStep DEF JobOK, PrepareQuick, locks

LEMMA ReadStatusKeepsInv ==
  ASSUME PurchasingInv, NEW w \in Workers, ReadStatus(w)
  PROVE  PurchasingInv'
<1> DEFINE r == job[w].request
           status == order[r.order].status
           proper == IF r.kind = "edit" THEN status = "draft" ELSE r.kind \in Allowed[status]
<1>1. r \in Requests /\ r.kind \in Targets \cup {"edit"} /\ r.order \in Orders
  BY OrderRequest DEF ReadStatus, PurchasingInv, JobOK, RequestOK
<1>2. JobsTypeOK /\ JobOK(w) /\ job[w].pc = "read" /\ status \in Statuses
  BY <1>1 DEF ReadStatus, PurchasingInv, PurchasingTypeOK, RowsTypeOK, JobOK, Decides
<1>3. CASE proper
  <2>1. job' = [job EXCEPT ![w].pc = "write", ![w].seen = status] /\ UNCHANGED <<rows, locks>>
    BY <1>3 DEF ReadStatus
  <2>2. /\ JobsTypeOK' /\ job'[w].pc = "write" /\ job'[w].seen = status
        /\ job'[w].request = r /\ job'[w].answer = job[w].answer
        /\ \A v \in Workers \ {w} : job'[v] = job[v]
    BY <1>2, <2>1 DEF JobsTypeOK, locks
  <2>3. RequestOK(w)'
    BY <1>1, <1>2, <2>2 DEF JobOK, RequestOK
  <2>4. Decides(w)'
    BY <1>2, <1>3, <2>1, <2>2 DEF JobOK, Decides, rows
  <2>5. HoldsKey(w)' /\ HoldsOrder(w)' /\ AnswerOK(w)'
    BY <1>2, <2>2 DEF HoldsKey, HoldsOrder, AnswerOK, JobOK, RequestOK
  <2> QED BY <2>1, <2>2, <2>3, <2>4, <2>5, JobStep DEF JobOK, locks
<1>4. CASE ~proper
  BY <1>4, RefusalKeepsInv DEF ReadStatus
<1> QED BY <1>3, <1>4

-----------------------------------------------------------------------------
(* The average cost.                                                        *)

LEMMA DivMod ==
  ASSUME NEW s \in Nat, NEW n \in Nat \ {0}
  PROVE  /\ s \div n \in Nat /\ s % n \in 0..(n - 1)
         /\ s = (s \div n) * n + (s % n)
OBVIOUS

LEMMA TimesMonotonic ==
  ASSUME NEW a \in Nat, NEW b \in Nat, NEW n \in Nat, a <= b
  PROVE  a * n <= b * n
OBVIOUS

\* A quotient rounded half up lies within bounds whose multiples enclose the sum.
LEMMA RoundedWithin ==
  ASSUME NEW s \in Nat, NEW n \in Nat \ {0}, NEW low \in Nat, NEW high \in Nat,
         low * n <= s, s <= high * n,
         NEW q, q = (s \div n) + IF 2 * (s % n) >= n THEN 1 ELSE 0
  PROVE  q \in Nat /\ low <= q /\ q <= high
<1> DEFINE d == s \div n
           m == s % n
<1>1. d \in Nat /\ m \in 0..(n - 1) /\ s = d * n + m
  BY DivMod
<1> HIDE DEF d, m
<1>2. low <= d
  <2> SUFFICES ASSUME d + 1 <= low PROVE FALSE
    BY <1>1
  <2>1. (d + 1) * n <= low * n
    BY <1>1, TimesMonotonic
  <2>2. (d + 1) * n = d * n + n
    BY <1>1
  <2> QED BY <1>1, <2>1, <2>2
<1>3. d <= high
  <2> SUFFICES ASSUME high + 1 <= d PROVE FALSE
    BY <1>1
  <2>1. (high + 1) * n <= d * n
    BY <1>1, TimesMonotonic
  <2>2. (high + 1) * n = high * n + n
    OBVIOUS
  <2> QED BY <1>1, <2>1, <2>2
<1>4. d = high => m = 0
  BY <1>1
<1> QED BY <1>1, <1>2, <1>3, <1>4 DEF d, m

Batch == [onHand: Nat, cost: Nat, issued: 0..MaxIssued]

\* Goods that arrive move the average, rounded or not, towards their cost and
\* not beyond it.
LEMMA AverageBetween ==
  ASSUME NEW b \in Batch, NEW cost \in Nat, NEW added \in Nat \ {0},
         NEW stocked, stocked = Stocked(b, added, cost)
  PROVE  /\ stocked \in Batch
         /\ stocked.cost <= b.cost \/ stocked.cost <= cost
         /\ b.cost <= stocked.cost \/ cost <= stocked.cost
         /\ b.onHand = 0 => stocked.cost = cost
<1> DEFINE old == b.cost
           held == b.onHand
           new == Average(old, held, added * cost, added)
           s == old * held + added * cost
           n == held + added
<1>1. old \in Nat /\ held \in Nat /\ b.issued \in 0..MaxIssued
  BY DEF Batch
<1>2. new = (s \div n) + IF 2 * (s % n) >= n THEN 1 ELSE 0
  BY DEF Average
<1>3. stocked = [b EXCEPT !.onHand = held + added, !.cost = new]
  BY DEF Stocked
<1> HIDE DEF new
<1>4. stocked = [onHand |-> held + added, cost |-> new, issued |-> b.issued]
  BY <1>3 DEF Batch
<1> SUFFICES /\ new \in Nat
             /\ new <= old \/ new <= cost
             /\ old <= new \/ cost <= new
             /\ held = 0 => new = cost
  <2> HIDE DEF held, s, n
  <2>1. held + added \in Nat
    BY <1>1
  <2> QED BY <1>1, <1>4, <2>1 DEF Batch, held
<1> HIDE DEF old, held
<1>5. s \in Nat /\ n \in Nat \ {0}
  BY <1>1
<1>6. /\ old * n = old * held + old * added
      /\ cost * n = cost * held + cost * added
      /\ added * cost = cost * added
  BY <1>1
<1>7. CASE held = 0
  <2>1. s = cost * n
    BY <1>1, <1>6, <1>7
  <2>2. cost * n <= s /\ s <= cost * n
    BY <1>1, <2>1
  <2> HIDE DEF s, n
  <2>3. cost <= new /\ new <= cost /\ new \in Nat
    BY <1>1, <1>2, <1>5, <2>2, RoundedWithin
  <2> QED BY <2>3
<1>8. CASE held # 0 /\ old <= cost
  <2>1. old * held <= cost * held /\ old * added <= cost * added
    BY <1>1, <1>8, TimesMonotonic
  <2>2. old * n <= s /\ s <= cost * n
    BY <1>1, <1>6, <2>1
  <2> HIDE DEF s, n
  <2>3. new \in Nat /\ old <= new /\ new <= cost
    BY <1>1, <1>2, <1>5, <2>2, RoundedWithin
  <2> QED BY <1>8, <2>3
<1>9. CASE held # 0 /\ cost <= old
  <2>1. cost * held <= old * held /\ cost * added <= old * added
    BY <1>1, <1>9, TimesMonotonic
  <2>2. cost * n <= s /\ s <= old * n
    BY <1>1, <1>6, <2>1
  <2> HIDE DEF s, n
  <2>3. new \in Nat /\ cost <= new /\ new <= old
    BY <1>1, <1>2, <1>5, <2>2, RoundedWithin
  <2> QED BY <1>9, <2>3
<1> QED BY <1>1, <1>7, <1>8, <1>9

\* Whether goods come or not, the average stays between costs of receipts.
LEMMA StockedWithin ==
  ASSUME PurchasingInv, NEW k \in Keys, k \notin Recorded,
         NEW goods \in Nat, NEW cost \in Nat, batch' = Stocked(batch, goods, cost),
         NEW made, made.request # NoRequest, made.goods = goods, made.cost = cost,
         receipt' = [receipt EXCEPT ![k] = made]
  PROVE  batch' \in Batch /\ AverageWithinPrices'
<1> DEFINE costs == {receipt[j].cost : j \in {i \in Recorded : receipt[i].goods > 0}}
<1>1. /\ batch \in Batch
      /\ receipt'[k] = made /\ \A j \in Recorded : receipt'[j] = receipt[j]
      /\ Recorded' = Recorded \cup {k}
  BY DEF PurchasingInv, PurchasingTypeOK, RowsTypeOK, Recorded, Batch
<1>2. costs \subseteq costs' /\ (goods > 0 => cost \in costs')
  BY <1>1
<1>3. batch.onHand > 0 =>
        (\E c \in costs : c <= batch.cost) /\ (\E c \in costs : batch.cost <= c)
  BY DEF PurchasingInv, AverageWithinPrices
<1>4. \A c \in costs : c \in Nat
  BY DEF PurchasingInv, PurchasingTypeOK, RowsTypeOK, Recorded
<1>5. CASE goods = 0
  <2>1. batch' = batch
    BY <1>5 DEF Stocked
  <2> QED BY <1>1, <1>2, <1>3, <2>1 DEF AverageWithinPrices
<1>6. CASE goods > 0
  <2>1. goods \in Nat \ {0}
    BY <1>6
  <2>2. /\ batch' \in Batch
        /\ batch'.cost <= batch.cost \/ batch'.cost <= cost
        /\ batch.cost <= batch'.cost \/ cost <= batch'.cost
        /\ batch.onHand = 0 => batch'.cost = cost
    BY <1>1, <2>1, AverageBetween
  <2> HIDE DEF costs
  <2>3. (\E c \in costs' : c <= batch'.cost) /\ (\E c \in costs' : batch'.cost <= c)
    BY <1>1, <1>2, <1>3, <1>4, <1>6, <2>2 DEF Batch
  <2> QED BY <2>2, <2>3 DEF AverageWithinPrices, costs
<1> QED BY <1>5, <1>6

-----------------------------------------------------------------------------
(* Steps that change orders.                                                *)

LEMMA ReceivedJob ==
  ASSUME NEW w \in Workers, job'[w].pc = "idle", job'[w].answer = "received",
         RequestOK(w), job[w].pc \in {"post", "quickPost"}, job'[w].request = job[w].request,
         receipt'[job[w].request.key].request = job[w].request
  PROVE  JobOK(w)'
BY DEF JobOK, RequestOK, HoldsKey, HoldsOrder, Decides, AnswerOK

LEMMA CreateKeepsInv ==
  ASSUME PurchasingInv, NEW o \in Orders, NEW t \in Terms, CreateOrder(o, t)
  PROVE  PurchasingInv'
<1>1. t \in OrderTerms /\ t.goods + t.devices > 0
  BY PurchasingAssumption DEF PurchasingAssumption, OrderTerms
<1>2. /\ order'[o].status = "draft" /\ order'[o].version = 1 /\ order'[o].terms = t
      /\ order'[o].gotGoods = 0 /\ order'[o].gotDevices = 0
      /\ \A p \in Orders \ {o} : order'[p] = order[p]
      /\ order[o].status = "none" /\ order[o].version = 0
  BY DEF CreateOrder, NoOrder, PurchasingInv, PurchasingTypeOK, RowsTypeOK, OrderOK
<1>3. PurchasingTypeOK'
  <2>1. [NoOrder EXCEPT !.status = "draft", !.version = 1, !.terms = t] \in
          [status: Statuses \cup {"none"}, version: Nat, terms: OrderTerms,
           agreed: OrderTerms, gotGoods: Nat, gotDevices: Nat]
    BY <1>1 DEF NoOrder, NoTerms, Statuses, OrderTerms
  <2> QED BY <2>1 DEF PurchasingInv, PurchasingTypeOK, RowsTypeOK, JobsTypeOK, CreateOrder, locks
<1>4. \A p \in Orders : OrderOK(p)'
  BY <1>1, <1>2 DEF PurchasingInv, OrderOK, Posted, OrderTerms
<1>5. \A k \in Keys : ReceiptOK(k)'
  BY <1>2 DEF PurchasingInv, ReceiptOK, Recorded, Posted, CreateOrder
<1>6. \A w \in Workers : JobOK(w)'
  <2>1. Free \notin Workers
    BY PurchasingAssumption DEF PurchasingAssumption
  <2>2. \A p \in Orders :
          \/ order'[p] = order[p]
          \/ /\ order[p].status \notin Receivable
             /\ order'[p].status # "none" /\ order'[p].version > order[p].version
    BY <1>2 DEF Receivable
  <2>3. \A w \in Workers \ {Free} : JobOK(w)'
    BY <1>3, <2>2, OthersKeep DEF CreateOrder, locks
  <2> QED BY <2>1, <2>3
<1>7. AverageWithinPrices'
  BY DEF PurchasingInv, AverageWithinPrices, Recorded, CreateOrder
<1> QED BY <1>3, <1>4, <1>5, <1>6, <1>7 DEF PurchasingInv

LEMMA IssueKeepsInv ==
  ASSUME PurchasingInv, Issue
  PROVE  PurchasingInv'
<1>1. PurchasingTypeOK'
  <2>1. batch \in [onHand: Nat, cost: Nat, issued: 0..MaxIssued]
    BY DEF PurchasingInv, PurchasingTypeOK, RowsTypeOK
  <2>2. batch' = [onHand |-> batch.onHand - 1, cost |-> batch.cost, issued |-> batch.issued + 1]
    BY <2>1 DEF Issue
  <2>3. batch' \in [onHand: Nat, cost: Nat, issued: 0..MaxIssued]
    BY <2>1, <2>2, PurchasingAssumption DEF Issue, PurchasingAssumption
  <2> QED BY <2>3 DEF PurchasingInv, PurchasingTypeOK, RowsTypeOK, JobsTypeOK, Issue, locks
<1>2. (\A o \in Orders : OrderOK(o)') /\ (\A k \in Keys : ReceiptOK(k)')
  BY DEF PurchasingInv, OrderOK, ReceiptOK, Recorded, Issue
<1>3. \A w \in Workers : JobOK(w)'
  BY DEF PurchasingInv, JobOK, RequestOK, HoldsKey, HoldsOrder, Decides, AnswerOK, Recorded,
     Issue, locks
<1>4. AverageWithinPrices'
  <2>1. batch'.cost = batch.cost /\ batch.onHand > 0
    BY DEF PurchasingInv, PurchasingTypeOK, RowsTypeOK, Issue
  <2> QED BY <2>1 DEF PurchasingInv, AverageWithinPrices, Recorded, Issue
<1> QED BY <1>1, <1>2, <1>3, <1>4 DEF PurchasingInv

OrderRow == [status: Statuses \cup {"none"}, version: Nat, terms: OrderTerms,
             agreed: OrderTerms, gotGoods: Nat, gotDevices: Nat]

LEMMA ReceivedRow ==
  ASSUME NEW o \in OrderRow, NEW goods \in Nat, NEW devices, Cardinality(devices) \in Nat,
         NEW new, new = Received(o, goods, devices)
  PROVE  /\ new \in OrderRow
         /\ new.version = o.version + 1 /\ new.terms = o.terms /\ new.agreed = o.agreed
         /\ new.gotGoods = o.gotGoods + goods
         /\ new.gotDevices = o.gotDevices + Cardinality(devices)
         /\ new.status = IF FullyReceived(o, goods, devices) THEN "received"
                         ELSE "partially_received"
<1> DEFINE status == IF FullyReceived(o, goods, devices) THEN "received"
                     ELSE "partially_received"
           count == Cardinality(devices)
<1>1. new = [o EXCEPT !.gotGoods = o.gotGoods + goods, !.gotDevices = o.gotDevices + count,
                      !.status = status, !.version = o.version + 1]
  BY DEF Received, OrderRow
<1> HIDE DEF status, count
<1>2. new = [status |-> status, version |-> o.version + 1, terms |-> o.terms,
             agreed |-> o.agreed, gotGoods |-> o.gotGoods + goods,
             gotDevices |-> o.gotDevices + count]
  BY <1>1 DEF OrderRow
<1>3. status \in Statuses /\ count \in Nat
  BY DEF status, count, Statuses
<1> QED BY <1>2, <1>3 DEF status, count, OrderRow

\* What a receipt brings can be counted, and is not nothing.
LEMMA ReceivedDevices ==
  ASSUME PurchasingInv, NEW w \in Workers, job[w].request \in Requests,
         job[w].request.kind = "receive"
  PROVE  LET r == job[w].request
         IN  /\ Cardinality(r.devices) \in Nat
             /\ r.goods > 0 \/ Cardinality(r.devices) > 0
<1>1. PICK c \in Contents : job[w].request.goods = c.goods /\ job[w].request.devices = c.devices
  BY DEF PurchasingInv, JobOK, RequestOK
<1>2. IsFiniteSet(c.devices) /\ (c.goods > 0 \/ c.devices # {})
  BY PurchasingAssumption DEF PurchasingAssumption
<1>3. Cardinality(c.devices) \in Nat /\ (Cardinality(c.devices) = 0 <=> c.devices = {})
  BY <1>2, FS_CardinalityType, FS_EmptySet
<1> QED BY <1>1, <1>2, <1>3

LEMMA PostKeepsInv ==
  ASSUME PurchasingInv, NEW w \in Workers, Post(w)
  PROVE  PurchasingInv'
<1> DEFINE r == job[w].request
           o == order[r.order]
           count == Cardinality(r.devices)
           owed == r.goods * r.cost + count * DevicePrice
           made == [request |-> r, order |-> r.order, goods |-> r.goods, cost |-> r.cost,
                    devices |-> r.devices, owed |-> owed, paid |-> 0]
<1>1. r \in Requests /\ r.kind = "receive" /\ r.key \in Keys /\ r.order \in Orders
      /\ r.goods \in Nat /\ r.cost \in Nat /\ r.devices \in SUBSET Devices
  BY ReceiveRequest DEF Post, PurchasingInv, JobOK, RequestOK
<1>2. RowsTypeOK /\ JobsTypeOK /\ JobOK(w) /\ job[w].pc = "post" /\ OrderOK(r.order)
  BY <1>1 DEF Post, PurchasingInv, PurchasingTypeOK
<1>3. count \in Nat /\ (r.goods > 0 \/ count > 0)
  BY <1>1, ReceivedDevices
<1>4. /\ keyLock[r.key] = w /\ r.key \notin Recorded
      /\ orderLock[r.order] = w
      /\ o.status \in Receivable
      /\ o.gotGoods + r.goods <= o.terms.goods
      /\ o.gotDevices + count <= o.terms.devices
      /\ r.cost = o.terms.cost /\ o.terms = o.agreed
  BY <1>1, <1>2 DEF JobOK, HoldsKey, HoldsOrder, OrderOK, Receivable
<1>5. /\ o.version \in Nat /\ o.terms \in OrderTerms /\ o.agreed \in OrderTerms
      /\ o.gotGoods \in Nat /\ o.gotDevices \in Nat
      /\ o.terms.goods \in Nat /\ o.terms.devices \in Nat
  BY <1>1, <1>2 DEF RowsTypeOK, OrderTerms
<1>6. CASE IdentitiesFree(r.devices)
  <2> DEFINE new == Received(o, r.goods, r.devices)
  <2>1. /\ order' = [order EXCEPT ![r.order] = new]
        /\ receipt' = [receipt EXCEPT ![r.key] = made]
        /\ unit' = [d \in Devices |-> IF d \in r.devices THEN r.key ELSE unit[d]]
        /\ batch' = Stocked(batch, r.goods, r.cost)
        /\ price' = price /\ Answer(w, "received")
    BY <1>6 DEF Post
  <2>2. /\ new \in OrderRow
        /\ new.version = o.version + 1 /\ new.terms = o.terms /\ new.agreed = o.agreed
        /\ new.gotGoods = o.gotGoods + r.goods
        /\ new.gotDevices = o.gotDevices + count
        /\ new.status = IF FullyReceived(o, r.goods, r.devices) THEN "received"
                        ELSE "partially_received"
    <3>1. o \in OrderRow /\ new = Received(o, r.goods, r.devices)
      BY <1>1, <1>2 DEF RowsTypeOK, OrderRow
    <3> HIDE DEF new, o
    <3> QED BY <1>1, <1>3, <3>1, ReceivedRow
  <2>3. /\ new.status = "received" => o.gotGoods + r.goods = o.terms.goods
                                      /\ o.gotDevices + count = o.terms.devices
        /\ new.status = "partially_received" => ~(o.gotGoods + r.goods = o.terms.goods
                                                  /\ o.gotDevices + count = o.terms.devices)
        /\ new.status \in {"received", "partially_received"}
    <3> HIDE DEF new, o
    <3> QED BY <2>2 DEF FullyReceived
  <2>4. owed \in Nat
    <3>1. r.goods * r.cost \in Nat /\ count * DevicePrice \in Nat
      BY <1>1, <1>3, PurchasingAssumption DEF PurchasingAssumption
    <3> QED BY <3>1
  <2> HIDE DEF new, owed, count, o
  <2>5. order'[r.order] = new /\ \A p \in Orders \ {r.order} : order'[p] = order[p]
    BY <1>1, <1>2, <2>1 DEF RowsTypeOK
  <2>6. receipt'[r.key] = made /\ \A k \in Keys \ {r.key} : receipt'[k] = receipt[k]
    BY <1>1, <1>2, <2>1 DEF RowsTypeOK
  <2>7. batch' \in Batch /\ AverageWithinPrices'
    <3>1. made.request # NoRequest /\ made.goods = r.goods /\ made.cost = r.cost
      BY <1>1, RequestAssumption DEF RequestAssumption
    <3> HIDE DEF made, r
    <3>2. r.key \in Keys /\ r.key \notin Recorded /\ r.goods \in Nat /\ r.cost \in Nat
      BY <1>1, <1>4
    <3>3. /\ batch' = Stocked(batch, r.goods, r.cost)
          /\ receipt' = [receipt EXCEPT ![r.key] = made]
      BY <2>1
    <3> QED BY <3>1, <3>2, <3>3, StockedWithin
  <2>8. RowsTypeOK'
    <3>2. made \in [request: Requests \cup {NoRequest}, order: Orders \cup {NoKey},
                    goods: Nat, cost: Nat, devices: SUBSET Devices, owed: Nat, paid: Nat]
      BY <1>1, <2>4
    <3>3. order' \in [Orders -> [status: Statuses \cup {"none"}, version: Nat,
                           terms: OrderTerms, agreed: OrderTerms,
                           gotGoods: Nat, gotDevices: Nat]]
      BY <1>1, <1>2, <2>1, <2>2 DEF RowsTypeOK, OrderRow
    <3> HIDE DEF made
    <3>4. receipt' \in [Keys -> [request: Requests \cup {NoRequest}, order: Orders \cup {NoKey},
                           goods: Nat, cost: Nat, devices: SUBSET Devices,
                           owed: Nat, paid: Nat]]
      BY <1>1, <1>2, <2>1, <3>2 DEF RowsTypeOK
    <3>5. unit' \in [Devices -> Keys \cup {NoKey}] /\ price' \in Nat
      BY <1>1, <1>2, <2>1 DEF RowsTypeOK
    <3> QED BY <3>3, <3>4, <3>5, <2>7 DEF RowsTypeOK, Batch
  <2>9. /\ JobsTypeOK'
        /\ job'[w].pc = "idle" /\ job'[w].answer = "received" /\ job'[w].request = r
        /\ \A v \in Workers \ {w} : job'[v] = job[v]
        /\ \A k \in Keys : keyLock[k] \notin {w, Free} => keyLock'[k] = keyLock[k]
        /\ \A p \in Orders : orderLock[p] \notin {w, Free} => orderLock'[p] = orderLock[p]
    BY <1>2, <2>1, AnswerFrame
  <2>10. JobOK(w)'
    <3>1. receipt'[r.key].request = r
      BY <2>6
    <3> QED BY <1>2, <2>9, <3>1, ReceivedJob DEF JobOK
  <2>11. \A p \in Orders : OrderOK(p)'
    <3>1. ASSUME NEW p \in Orders, p = r.order PROVE OrderOK(p)'
      <4>1. order'[p] = new
        BY <2>5, <3>1
      <4> SUFFICES /\ new.gotGoods <= new.terms.goods /\ new.gotDevices <= new.terms.devices
                   /\ new.terms.goods + new.terms.devices > 0
                   /\ new.gotGoods > 0 \/ new.gotDevices > 0
                   /\ new.terms = new.agreed
        BY <1>4, <2>2, <2>3, <4>1 DEF OrderOK, Posted
      <4> QED BY <1>1, <1>2, <1>3, <1>4, <1>5, <2>2 DEF OrderOK, Receivable, o
    <3>2. \A p \in Orders \ {r.order} : OrderOK(p)'
      BY <2>5 DEF PurchasingInv, OrderOK
    <3> QED BY <3>1, <3>2
  <2>12. \A k \in Keys : ReceiptOK(k)'
    <3>1. ASSUME NEW k \in Keys, k = r.key PROVE ReceiptOK(k)'
      <4>1. /\ order'[r.order].agreed.cost = r.cost
            /\ order'[r.order].status \in Posted
        BY <1>4, <2>2, <2>3, <2>5 DEF Posted
      <4>2. /\ made.order = r.order /\ made.cost = r.cost /\ made.paid <= made.owed
            /\ made.owed = made.goods * made.cost + Cardinality(made.devices) * DevicePrice
        BY <2>4 DEF owed, count
      <4> HIDE DEF made
      <4> QED BY <1>1, <2>6, <3>1, <4>1, <4>2 DEF ReceiptOK
    <3> SUFFICES ASSUME NEW k \in Keys \ {r.key} PROVE ReceiptOK(k)'
      BY <3>1
    <3>2. receipt'[k] = receipt[k] /\ ReceiptOK(k)
      BY <2>6 DEF PurchasingInv
    <3>3. \A p \in Orders : /\ order'[p].agreed = order[p].agreed
                            /\ order[p].status \in Posted => order'[p].status \in Posted
      BY <2>2, <2>3, <2>5 DEF Posted, o
    <3> QED BY <3>2, <3>3 DEF ReceiptOK, Recorded
  <2>13. \A v \in Workers \ {w} : JobOK(v)'
    <3>1. PurchasingTypeOK'
      BY <2>8, <2>9 DEF PurchasingTypeOK
    <3>2. \A p \in Orders :
            \/ order'[p] = order[p]
            \/ /\ orderLock[p] \in {w, Free} \/ order[p].status \notin Receivable
               /\ order'[p].status # "none" /\ order'[p].version > order[p].version
      BY <1>4, <1>5, <2>2, <2>3, <2>5 DEF o
    <3>3. \A k \in Keys : receipt'[k] = receipt[k] \/ (k \notin Recorded /\ keyLock[k] = w)
      BY <1>4, <2>6
    <3> QED BY <2>9, <3>1, <3>2, <3>3, OthersKeep
  <2> QED BY <2>7, <2>8, <2>9, <2>10, <2>11, <2>12, <2>13 DEF PurchasingInv, PurchasingTypeOK
<1>7. CASE ~IdentitiesFree(r.devices)
  BY <1>7, RefusalKeepsInv DEF Post
<1> QED BY <1>6, <1>7

LEMMA PostQuickKeepsInv ==
  ASSUME PurchasingInv, NEW w \in Workers, PostQuick(w)
  PROVE  PurchasingInv'
<1> DEFINE r == job[w].request
           b == r.buy
<1>1. r \in Requests /\ r.kind = "quick" /\ r.key \in Keys
      /\ b.goods \in Nat \ {0} /\ b.cost \in Nat /\ b.paid \in Nat
      /\ b.paid <= b.goods * b.cost
  BY QuickRequest DEF PostQuick, PurchasingInv, JobOK, RequestOK
<1>2. RowsTypeOK /\ JobsTypeOK /\ JobOK(w) /\ job[w].pc = "quickPost"
  BY DEF PostQuick, PurchasingInv, PurchasingTypeOK
<1>3. keyLock[r.key] = w /\ r.key \notin Recorded
  BY <1>2 DEF JobOK, HoldsKey
<1>4. CASE price = job[w].price
  <2> DEFINE new == QuickOrder(b)
  <2>1. PICK o \in Orders :
          /\ order[o].status = "none" /\ order' = [order EXCEPT ![o] = new]
          /\ receipt' = [receipt EXCEPT ![r.key] =
               [request |-> r, order |-> o, goods |-> b.goods, cost |-> b.cost,
                devices |-> {}, owed |-> b.goods * b.cost, paid |-> b.paid]]
          /\ batch' = Stocked(batch, b.goods, b.cost)
          /\ price' = price + 1 /\ unit' = unit /\ Answer(w, "received")
    BY <1>4 DEF PostQuick
  <2> DEFINE owed == b.goods * b.cost
             made == [request |-> r, order |-> o, goods |-> b.goods, cost |-> b.cost,
                      devices |-> {}, owed |-> owed, paid |-> b.paid]
  <2>2. /\ new \in OrderRow
        /\ new.status = "received" /\ new.version = 3 /\ new.agreed = new.terms
        /\ new.terms.goods = b.goods /\ new.terms.devices = 0 /\ new.terms.cost = b.cost
        /\ new.gotGoods = b.goods /\ new.gotDevices = 0
    <3> HIDE DEF b
    <3> DEFINE terms == [goods |-> b.goods, cost |-> b.cost, devices |-> 0]
               bought == b.goods
    <3>1. new = [NoOrder EXCEPT !.status = "received", !.version = 3, !.terms = terms,
                                !.agreed = terms, !.gotGoods = bought]
      BY DEF QuickOrder
    <3>2. terms \in OrderTerms /\ bought \in Nat
      BY <1>1 DEF OrderTerms
    <3>3. terms.goods = b.goods /\ terms.cost = b.cost /\ terms.devices = 0
      OBVIOUS
    <3> HIDE DEF new, terms, bought
    <3>4. new = [status |-> "received", version |-> 3, terms |-> terms, agreed |-> terms,
                 gotGoods |-> bought, gotDevices |-> 0]
      BY <3>1 DEF NoOrder
    <3> QED BY <3>2, <3>3, <3>4 DEF OrderRow, Statuses, bought
  <2>3. owed \in Nat /\ Cardinality({}) = 0 /\ b.goods * b.cost + 0 * DevicePrice = owed
    BY <1>1, FS_EmptySet, PurchasingAssumption DEF PurchasingAssumption
  <2>4. receipt' = [receipt EXCEPT ![r.key] = made]
    BY <2>1
  <2> HIDE DEF new, b, owed
  <2>5. order'[o] = new /\ \A p \in Orders \ {o} : order'[p] = order[p]
    BY <1>2, <2>1 DEF RowsTypeOK
  <2>6. receipt'[r.key] = made /\ \A k \in Keys \ {r.key} : receipt'[k] = receipt[k]
    BY <1>1, <1>2, <2>4 DEF RowsTypeOK
  <2>7. batch' \in Batch /\ AverageWithinPrices'
    <3>1. made.request # NoRequest /\ made.goods = b.goods /\ made.cost = b.cost
      BY <1>1, RequestAssumption DEF RequestAssumption
    <3> HIDE DEF made, r
    <3>2. r.key \in Keys /\ r.key \notin Recorded /\ b.goods \in Nat /\ b.cost \in Nat
      BY <1>1, <1>3 DEF b
    <3>3. batch' = Stocked(batch, b.goods, b.cost)
      BY <2>1
    <3> QED BY <2>4, <3>1, <3>2, <3>3, StockedWithin
  <2>8. RowsTypeOK'
    <3>1. made \in [request: Requests \cup {NoRequest}, order: Orders \cup {NoKey},
                    goods: Nat, cost: Nat, devices: SUBSET Devices, owed: Nat, paid: Nat]
      BY <1>1, <2>3
    <3>2. order' \in [Orders -> [status: Statuses \cup {"none"}, version: Nat,
                           terms: OrderTerms, agreed: OrderTerms,
                           gotGoods: Nat, gotDevices: Nat]]
      BY <1>2, <2>1, <2>2 DEF RowsTypeOK, OrderRow
    <3> HIDE DEF made
    <3>3. receipt' \in [Keys -> [request: Requests \cup {NoRequest}, order: Orders \cup {NoKey},
                           goods: Nat, cost: Nat, devices: SUBSET Devices,
                           owed: Nat, paid: Nat]]
      BY <1>1, <1>2, <2>4, <3>1 DEF RowsTypeOK
    <3>4. unit' \in [Devices -> Keys \cup {NoKey}] /\ price' \in Nat
      BY <1>2, <2>1 DEF RowsTypeOK
    <3> QED BY <3>2, <3>3, <3>4, <2>7 DEF RowsTypeOK, Batch
  <2>9. /\ JobsTypeOK'
        /\ job'[w].pc = "idle" /\ job'[w].answer = "received" /\ job'[w].request = r
        /\ \A v \in Workers \ {w} : job'[v] = job[v]
        /\ \A k \in Keys : keyLock[k] \notin {w, Free} => keyLock'[k] = keyLock[k]
        /\ \A p \in Orders : orderLock[p] \notin {w, Free} => orderLock'[p] = orderLock[p]
    BY <1>2, <2>1, AnswerFrame
  <2>10. JobOK(w)'
    <3>1. receipt'[r.key].request = r
      BY <2>6
    <3> QED BY <1>2, <2>9, <3>1, ReceivedJob DEF JobOK
  <2>11. order[o].version = 0 /\ \A p \in Orders : OrderOK(p)'
    <3>1. order[o].version = 0 /\ \A p \in Orders : OrderOK(p)
      BY <2>1 DEF PurchasingInv, OrderOK
    <3>2. OrderOK(o)'
      BY <1>1, <2>2, <2>5 DEF OrderOK, Posted
    <3>3. \A p \in Orders \ {o} : OrderOK(p)'
      BY <2>5, <3>1 DEF OrderOK
    <3> QED BY <3>1, <3>2, <3>3
  <2>12. \A k \in Keys : ReceiptOK(k)'
    <3>1. ASSUME NEW k \in Keys, k = r.key PROVE ReceiptOK(k)'
      <4>1. order'[o].agreed.cost = b.cost /\ order'[o].status \in Posted
        BY <2>2, <2>5 DEF Posted
      <4>2. /\ made.order = o /\ made.cost = b.cost /\ made.paid <= made.owed
            /\ made.owed = made.goods * made.cost + Cardinality(made.devices) * DevicePrice
        BY <1>1, <2>3 DEF owed, b
      <4> HIDE DEF made
      <4> QED BY <1>1, <2>6, <3>1, <4>1, <4>2 DEF ReceiptOK
    <3> SUFFICES ASSUME NEW k \in Keys \ {r.key} PROVE ReceiptOK(k)'
      BY <3>1
    <3>2. receipt'[k] = receipt[k] /\ ReceiptOK(k)
      BY <2>6 DEF PurchasingInv
    <3>3. \A p \in Orders : order[p].status \in Posted => order'[p] = order[p]
      BY <2>1, <2>5 DEF Posted
    <3> QED BY <3>2, <3>3 DEF ReceiptOK, Recorded
  <2>13. \A v \in Workers \ {w} : JobOK(v)'
    <3>1. PurchasingTypeOK'
      BY <2>8, <2>9 DEF PurchasingTypeOK
    <3>2. \A p \in Orders :
            \/ order'[p] = order[p]
            \/ /\ orderLock[p] \in {w, Free} \/ order[p].status \notin Receivable
               /\ order'[p].status # "none" /\ order'[p].version > order[p].version
      BY <2>1, <2>2, <2>5, <2>11 DEF Receivable
    <3>3. \A k \in Keys : receipt'[k] = receipt[k] \/ (k \notin Recorded /\ keyLock[k] = w)
      BY <1>3, <2>6
    <3> QED BY <2>9, <3>1, <3>2, <3>3, OthersKeep
  <2> QED BY <2>7, <2>8, <2>9, <2>10, <2>11, <2>12, <2>13 DEF PurchasingInv, PurchasingTypeOK
<1>5. CASE price # job[w].price
  BY <1>5, RefusalKeepsInv DEF PostQuick
<1> QED BY <1>4, <1>5

\* What Write stores.
Written(o, r) ==
  IF r.kind = "edit" THEN [o EXCEPT !.terms = r.terms, !.version = @ + 1]
  ELSE [o EXCEPT !.status = r.kind, !.version = @ + 1,
                 !.agreed = IF r.kind = "approved" THEN r.terms ELSE @]

\* What a write makes of an order that is still the one the client saw.
LEMMA WrittenRow ==
  ASSUME PurchasingInv, NEW w \in Workers, job[w].pc = "write", UnchangedSince(w),
         NEW r, r = job[w].request, NEW o, o = order[r.order],
         NEW new, new = Written(o, r)
  PROVE  /\ r.order \in Orders /\ o \in OrderRow /\ OrderOK(r.order)
         /\ new \in OrderRow /\ new.version = o.version + 1
         /\ new.gotGoods = o.gotGoods /\ new.gotDevices = o.gotDevices
         /\ \/ /\ o.status = "draft" /\ new.status = "draft"
               /\ new.terms.goods + new.terms.devices > 0
            \/ /\ o.status = "draft" /\ new.status = "approved"
               /\ new.terms = o.terms /\ new.agreed = o.terms
            \/ /\ o.status \in Statuses /\ o.status # "closed" /\ o.status # "cancelled"
               /\ new.status \in Allowed[o.status] \cap {"ordered", "closed", "cancelled"}
               /\ new.terms = o.terms /\ new.agreed = o.agreed
<1>1. r \in Requests /\ r.kind \in Targets \cup {"edit"} /\ r.order \in Orders
      /\ r.terms \in OrderTerms /\ JobOK(w)
  BY OrderRequest DEF PurchasingInv, JobOK, RequestOK
<1>2. o \in OrderRow /\ OrderOK(r.order) /\ o.status = job[w].seen /\ o.version = r.version
  BY <1>1 DEF PurchasingInv, PurchasingTypeOK, RowsTypeOK, OrderRow, UnchangedSince
<1>3. CASE r.kind = "edit"
  <2>1. r.terms \in Terms /\ r.terms.goods + r.terms.devices > 0 /\ o.status = "draft"
    BY <1>1, <1>2, <1>3, PurchasingAssumption
    DEF JobOK, RequestOK, Decides, PurchasingAssumption
  <2>2. new = [status |-> o.status, version |-> o.version + 1, terms |-> r.terms,
               agreed |-> o.agreed, gotGoods |-> o.gotGoods, gotDevices |-> o.gotDevices]
    BY <1>2, <1>3 DEF OrderRow, Written
  <2>3. new \in OrderRow /\ new.version = o.version + 1 /\ new.status = o.status
        /\ new.gotGoods = o.gotGoods /\ new.gotDevices = o.gotDevices /\ new.terms = r.terms
    BY <1>1, <1>2, <2>2 DEF OrderRow
  <2> QED BY <1>1, <1>2, <2>1, <2>3
<1>4. CASE r.kind # "edit"
  <2> DEFINE agreed == IF r.kind = "approved" THEN r.terms ELSE o.agreed
  <2>1. o.status \in Statuses /\ r.kind \in Allowed[o.status] /\ r.terms = o.terms
    BY <1>1, <1>2, <1>4 DEF JobOK, Decides
  <2>2. new = [status |-> r.kind, version |-> o.version + 1, terms |-> o.terms,
               agreed |-> agreed, gotGoods |-> o.gotGoods, gotDevices |-> o.gotDevices]
    <3>1. new = [o EXCEPT !.status = r.kind, !.version = o.version + 1, !.agreed = agreed]
      BY <1>2, <1>4 DEF OrderRow, Written
    <3> HIDE DEF agreed
    <3> QED BY <1>2, <3>1 DEF OrderRow
  <2>3. r.kind = "approved" => o.status = "draft"
    BY <2>1 DEF Allowed, Statuses
  <2>4. o.status \notin {"closed", "cancelled"}
    BY <2>1 DEF Allowed
  <2>5. agreed \in OrderTerms /\ r.kind \in Statuses
    BY <1>1, <1>2, <1>4 DEF OrderRow, Targets, Statuses
  <2> HIDE DEF agreed
  <2>6. new \in OrderRow /\ new.version = o.version + 1 /\ new.status = r.kind
        /\ new.gotGoods = o.gotGoods /\ new.gotDevices = o.gotDevices
        /\ new.terms = o.terms /\ new.agreed = agreed
    BY <1>2, <2>2, <2>5 DEF OrderRow
  <2> QED BY <1>1, <1>2, <1>4, <2>1, <2>3, <2>4, <2>6 DEF agreed, Targets
<1> QED BY <1>3, <1>4

LEMMA WriteKeepsInv ==
  ASSUME PurchasingInv, NEW w \in Workers, Write(w)
  PROVE  PurchasingInv'
<1>1. CASE UnchangedSince(w)
  <2>1. PICK r, o, new :
          /\ r = job[w].request /\ o = order[r.order] /\ new = Written(o, r)
          /\ order' = [order EXCEPT ![r.order] = new]
          /\ orderLock[r.order] = Free /\ job[w].pc = "write"
          /\ UNCHANGED <<receipt, unit, batch, price>> /\ Answer(w, "none")
    BY <1>1 DEF Write, Written
  <2>2. /\ r.order \in Orders /\ o \in OrderRow /\ OrderOK(r.order)
        /\ new \in OrderRow /\ new.version = o.version + 1
        /\ new.gotGoods = o.gotGoods /\ new.gotDevices = o.gotDevices
        /\ \/ /\ o.status = "draft" /\ new.status = "draft"
              /\ new.terms.goods + new.terms.devices > 0
           \/ /\ o.status = "draft" /\ new.status = "approved"
              /\ new.terms = o.terms /\ new.agreed = o.terms
           \/ /\ o.status \in Statuses /\ o.status # "closed" /\ o.status # "cancelled"
              /\ new.status \in Allowed[o.status] \cap {"ordered", "closed", "cancelled"}
              /\ new.terms = o.terms /\ new.agreed = o.agreed
    BY <1>1, <2>1, WrittenRow
  <2>3. RowsTypeOK /\ JobsTypeOK
    BY DEF PurchasingInv, PurchasingTypeOK
  <2>4. order'[r.order] = new /\ \A p \in Orders \ {r.order} : order'[p] = order[p]
    BY <2>1, <2>2, <2>3 DEF RowsTypeOK
  <2>5. /\ JobsTypeOK' /\ JobOK(w)'
        /\ \A v \in Workers \ {w} : job'[v] = job[v]
        /\ \A k \in Keys : keyLock[k] \notin {w, Free} => keyLock'[k] = keyLock[k]
        /\ \A p \in Orders : orderLock[p] \notin {w, Free} => orderLock'[p] = orderLock[p]
    BY <2>1, <2>3, AnswerFrame, SilentJob
  <2>6. RowsTypeOK'
    BY <2>1, <2>2, <2>3 DEF RowsTypeOK, OrderRow
  <2>7. \A p \in Orders : OrderOK(p)'
    <3>1. OrderOK(r.order)'
      <4>1. /\ o.gotGoods \in Nat /\ o.gotDevices \in Nat
            /\ o.terms.goods \in Nat /\ o.terms.devices \in Nat
            /\ new.terms.goods \in Nat /\ new.terms.devices \in Nat
        BY <2>2 DEF OrderRow, OrderTerms
      <4>2. /\ o.gotGoods <= o.terms.goods /\ o.gotDevices <= o.terms.devices
            /\ o.status # "none" => o.terms.goods + o.terms.devices > 0
            /\ o.status \notin Posted => o.gotGoods = 0 /\ o.gotDevices = 0
            /\ o.status \in Posted => o.gotGoods > 0 \/ o.gotDevices > 0
            /\ o.status \notin {"none", "draft", "cancelled"} => o.terms = o.agreed
        <5>1. OrderOK(r.order) /\ order[r.order] = o /\ o.status \in Statuses \cup {"none"}
          BY <2>1, <2>2 DEF OrderRow
        <5> QED BY <4>1, <5>1 DEF OrderOK, Posted, Statuses
      <4>0. /\ order'[r.order] = new
            /\ new.gotGoods = o.gotGoods /\ new.gotDevices = o.gotDevices
        BY <2>2, <2>4
      <4>3. CASE /\ o.status = "draft" /\ new.status = "draft"
                 /\ new.terms.goods + new.terms.devices > 0
        BY <4>0, <4>1, <4>2, <4>3 DEF OrderOK, Posted
      <4>4. CASE /\ o.status = "draft" /\ new.status = "approved"
                 /\ new.terms = o.terms /\ new.agreed = o.terms
        BY <4>0, <4>1, <4>2, <4>4 DEF OrderOK, Posted
      <4>5. CASE /\ o.status \in Statuses
                 /\ new.status \in Allowed[o.status] \cap {"ordered", "closed", "cancelled"}
                 /\ new.terms = o.terms /\ new.agreed = o.agreed
        <5>1. \/ new.status = "ordered" /\ o.status = "approved"
              \/ new.status = "closed" /\ o.status \in Posted
              \/ new.status = "cancelled" /\ o.status \in {"draft", "approved", "ordered"}
          BY <4>5 DEF Allowed, Statuses, Posted
        <5> QED BY <4>0, <4>1, <4>2, <4>5, <5>1 DEF OrderOK, Posted
      <4> QED BY <2>2, <4>3, <4>4, <4>5 DEF Posted
    <3>2. \A p \in Orders \ {r.order} : OrderOK(p)'
      BY <2>4 DEF PurchasingInv, OrderOK
    <3> QED BY <3>1, <3>2
  <2>8. \A k \in Keys : ReceiptOK(k)'
    <3>1. o.status \in Posted => new.status \in Posted /\ new.agreed = o.agreed
      BY <2>2 DEF Posted, Allowed
    <3>2. \A p \in Orders : order[p].status \in Posted =>
            order'[p].status \in Posted /\ order'[p].agreed = order[p].agreed
      BY <2>1, <2>4, <3>1
    <3> QED BY <2>1, <3>2 DEF PurchasingInv, ReceiptOK, Recorded
  <2>9. \A v \in Workers \ {w} : JobOK(v)'
    <3>1. PurchasingTypeOK'
      BY <2>5, <2>6 DEF PurchasingTypeOK
    <3>2. new.status # "none" /\ new.version > o.version
      BY <2>2 DEF OrderRow
    <3>3. \A p \in Orders :
            \/ order'[p] = order[p]
            \/ /\ orderLock[p] \in {w, Free} \/ order[p].status \notin Receivable
               /\ order'[p].status # "none" /\ order'[p].version > order[p].version
      BY <2>1, <2>4, <3>2
    <3> QED BY <2>1, <2>5, <3>1, <3>3, OthersKeep
  <2>10. AverageWithinPrices'
    BY <2>1 DEF PurchasingInv, AverageWithinPrices, Recorded
  <2> QED BY <2>5, <2>6, <2>7, <2>8, <2>9, <2>10 DEF PurchasingInv, PurchasingTypeOK
<1>2. CASE ~UnchangedSince(w)
  BY <1>2, RefusalKeepsInv DEF Write
<1> QED BY <1>1, <1>2

-----------------------------------------------------------------------------
(* The invariant, and what follows from it.                                 *)

LEMMA InitInv == Init => PurchasingInv
<1> SUFFICES ASSUME Init PROVE PurchasingInv
  OBVIOUS
<1>1. PurchasingTypeOK
  <2>1. NoOrder \in OrderRow
    BY DEF NoOrder, NoTerms, OrderRow, OrderTerms
  <2>2. NoReceipt \in [request: Requests \cup {NoRequest}, order: Orders \cup {NoKey},
                       goods: Nat, cost: Nat, devices: SUBSET Devices, owed: Nat, paid: Nat]
    BY DEF NoReceipt
  <2> QED BY <2>1, <2>2, PurchasingAssumption
    DEF Init, PurchasingTypeOK, RowsTypeOK, JobsTypeOK, OrderRow, Idle, PurchasingAssumption
<1>2. \A o \in Orders : OrderOK(o)
  BY DEF Init, OrderOK, NoOrder, NoTerms, Posted
<1>3. Recorded = {}
  BY DEF Init, Recorded, NoReceipt
<1>4. \A w \in Workers : JobOK(w)
  BY RequestAssumption
  DEF Init, Idle, JobOK, RequestOK, HoldsKey, HoldsOrder, Decides, AnswerOK, RequestAssumption
<1>5. AverageWithinPrices
  BY DEF Init, AverageWithinPrices
<1> QED BY <1>1, <1>2, <1>3, <1>4, <1>5 DEF PurchasingInv, ReceiptOK

LEMMA StepInv == PurchasingInv /\ [Next]_vars => PurchasingInv'
<1> SUFFICES ASSUME PurchasingInv, [Next]_vars PROVE PurchasingInv'
  OBVIOUS
<1>1. ASSUME NEW w \in Workers,
             \/ \E k \in Keys, o \in Orders, c \in Contents : SendReceipt(w, k, o, c)
             \/ \E k \in Keys, q \in QuickBuys : SendQuick(w, k, q)
             \/ \E o \in Orders, target \in Targets : SendDecision(w, o, target)
             \/ \E o \in Orders, t \in Terms : SendEdit(w, o, t)
      PROVE  PurchasingInv'
  BY <1>1, SendKeepsInv
<1>2. ASSUME NEW w \in Workers, ServerStep(w) PROVE PurchasingInv'
  BY <1>2, LookUpKeepsInv, LockOrderKeepsInv, PostKeepsInv, PrepareQuickKeepsInv,
     PostQuickKeepsInv, ReadStatusKeepsInv, WriteKeepsInv DEF ServerStep
<1>3. ASSUME NEW w \in Workers, Abort(w) PROVE PurchasingInv'
  BY <1>3, RefusalKeepsInv DEF Abort
<1>4. ASSUME NEW o \in Orders, NEW t \in Terms, CreateOrder(o, t) PROVE PurchasingInv'
  BY <1>4, CreateKeepsInv
<1>5. ASSUME UNCHANGED vars PROVE PurchasingInv'
  BY <1>5 DEF vars, rows, locks, PurchasingInv, PurchasingTypeOK, RowsTypeOK, JobsTypeOK,
     OrderOK, ReceiptOK, JobOK, RequestOK, HoldsKey, HoldsOrder, Decides, AnswerOK, Recorded,
     AverageWithinPrices
<1> QED BY <1>1, <1>2, <1>3, <1>4, <1>5, IssueKeepsInv DEF Next

\* The invariant of purchasing: rows and requests have their types, a status
\* agrees with what came, receipts with their orders, what a request checked
\* under its locks stays true until it commits, and the average with the costs.
THEOREM PurchasingInvariant == Spec => []PurchasingInv
<1> QED BY InitInv, StepInv, PTL DEF Spec

\* Every row, lock and request has its type.
THEOREM PurchasingTypes == Spec => []PurchasingTypeOK
<1>1. PurchasingInv => PurchasingTypeOK
  BY DEF PurchasingInv
<1> QED BY <1>1, PurchasingInvariant, PTL

\* The status of an order tells how much of it has been received, however its
\* receipts, approval, closing and cancellation interleave.
THEOREM StatusTells == Spec => []StatusTellsReceipts
<1>1. PurchasingInv => StatusTellsReceipts
  <2> SUFFICES ASSUME PurchasingInv, NEW o \in Orders
               PROVE  LET row     == order[o]
                          nothing == row.gotGoods = 0 /\ row.gotDevices = 0
                          all     == /\ row.gotGoods = row.terms.goods
                                     /\ row.gotDevices = row.terms.devices
                      IN  CASE row.status \in {"none", "draft", "approved", "ordered",
                                               "cancelled"} -> nothing
                            [] row.status = "partially_received" -> ~nothing /\ ~all
                            [] row.status = "received"           -> all
                            [] row.status = "closed"             -> ~nothing
    BY DEF StatusTellsReceipts
  <2>1. OrderOK(o) /\ order[o].status \in Statuses \cup {"none"}
    BY DEF PurchasingInv, PurchasingTypeOK, RowsTypeOK
  <2> QED BY <2>1 DEF OrderOK, Posted, Statuses
<1> QED BY <1>1, PurchasingInvariant, PTL

\* Goods arrive and suppliers are owed only on the terms the approver had
\* before him.
THEOREM ArrivesAsApproved == Spec => []TermsAsApproved
<1>1. PurchasingInv => TermsAsApproved
  BY DEF PurchasingInv, TermsAsApproved, OrderOK, ReceiptOK, Recorded
<1> QED BY <1>1, PurchasingInvariant, PTL

\* Whoever is told that goods were received has them recorded as sent, under
\* the key sent; whoever is told that a key was used has not.
THEOREM AnswersTrue == Spec => []AnswersAreTrue
<1>1. PurchasingInv => AnswersAreTrue
  BY DEF PurchasingInv, AnswersAreTrue, JobOK, AnswerOK
<1> QED BY <1>1, PurchasingInvariant, PTL

\* The average cost of the goods on hand stays within the costs they were
\* bought at, for any quantities and any number of receipts.
THEOREM AverageBounded == Spec => []AverageWithinPrices
<1>1. PurchasingInv => AverageWithinPrices
  BY DEF PurchasingInv
<1> QED BY <1>1, PurchasingInvariant, PTL

-----------------------------------------------------------------------------
(* Receipts add up: sums over finitely many receipts, one more at a time.  *)

GoodsBy == [k \in Keys |-> receipt[k].goods]
CountBy == [k \in Keys |-> Cardinality(receipt[k].devices)]

\* There are finitely many receipts, each of finitely many devices.
Listed ==
  /\ IsFiniteSet(Recorded)
  /\ \A k \in Keys : IsFiniteSet(receipt[k].devices)
  /\ \A k \in Keys \ Recorded : receipt[k].devices = {}

OrderAddsUp(o) ==
  /\ order[o].gotGoods = SumOver(GoodsBy, ReceiptsOf(o))
  /\ order[o].gotDevices = SumOver(CountBy, ReceiptsOf(o))

DevicesOnce ==
  \A d \in Devices, k \in Keys : d \in receipt[k].devices <=> unit[d] = k

BatchAddsUp == batch.onHand + batch.issued = SumOver(GoodsBy, Recorded)

\* What receipts brought, against the orders, the devices and the batch.
ReceiptsInv ==
  /\ Listed
  /\ \A o \in Orders : OrderAddsUp(o)
  /\ DevicesOnce
  /\ BatchAddsUp

LEMMA ReceiptNumbers ==
  ASSUME PurchasingTypeOK, Listed
  PROVE  \A k \in Keys : GoodsBy[k] \in Int /\ CountBy[k] \in Int
BY FS_CardinalityType DEF GoodsBy, CountBy, Listed, PurchasingTypeOK, RowsTypeOK

\* No receipt belongs to an order that is not in use yet.
LEMMA UnusedOrder ==
  ASSUME PurchasingInv, NEW o \in Orders, order[o].status = "none"
  PROVE  ReceiptsOf(o) = {}
BY DEF PurchasingInv, ReceiptOK, ReceiptsOf, Recorded, Posted

\* A step that makes no receipt, moves no device and keeps the counts.
LEMMA NoReceiptMade ==
  ASSUME ReceiptsInv, receipt' = receipt, unit' = unit,
         batch'.onHand + batch'.issued = batch.onHand + batch.issued,
         \A o \in Orders : /\ order'[o].gotGoods = order[o].gotGoods
                           /\ order'[o].gotDevices = order[o].gotDevices
  PROVE  ReceiptsInv'
<1>1. Recorded' = Recorded /\ GoodsBy' = GoodsBy /\ CountBy' = CountBy
  BY DEF Recorded, GoodsBy, CountBy
<1>2. \A o \in Orders : ReceiptsOf(o)' = ReceiptsOf(o)
  BY <1>1 DEF ReceiptsOf
<1>3. Listed' /\ DevicesOnce' /\ BatchAddsUp'
  BY <1>1 DEF ReceiptsInv, Listed, DevicesOnce, BatchAddsUp
<1>4. \A o \in Orders : OrderAddsUp(o)'
  BY <1>1, <1>2 DEF ReceiptsInv, OrderAddsUp
<1> QED BY <1>3, <1>4 DEF ReceiptsInv

\* The sums over some of the receipts, before and after one more is made.
LEMMA SumsMade ==
  ASSUME NEW R, IsFiniteSet(R), NEW k, k \notin R, NEW S \in SUBSET R, NEW f, NEW h,
         (\A j \in S : f[j] \in Int /\ h[j] = f[j]) /\ h[k] \in Int
  PROVE  /\ SumOver(h, S \cup {k}) = SumOver(f, S) + h[k]
         /\ SumOver(h, S) = SumOver(f, S)
<1>1. IsFiniteSet(S) /\ k \notin S
  BY FS_Subset
<1>2. SumOver(h, S \cup {k}) = SumOver(f, S) + h[k]
  BY <1>1, SumGrows
<1>3. SumOver(h, S) = SumOver(f, S)
  BY <1>1, SumSame
<1> QED BY <1>2, <1>3

\* One receipt more: its order, its devices and the batch count it, and
\* nothing else changes.
LEMMA ReceiptMade ==
  ASSUME PurchasingInv, PurchasingTypeOK', ReceiptsInv,
         NEW k \in Keys, k \notin Recorded, NEW made, made.request # NoRequest,
         NEW p \in Orders, made.order = p, IsFiniteSet(made.devices),
         receipt' = [receipt EXCEPT ![k] = made],
         \A o \in Orders \ {p} : order'[o] = order[o],
         order'[p].gotGoods = SumOver(GoodsBy, ReceiptsOf(p)) + made.goods,
         order'[p].gotDevices = SumOver(CountBy, ReceiptsOf(p)) + Cardinality(made.devices),
         \A d \in made.devices : unit[d] = NoKey,
         unit' = [d \in Devices |-> IF d \in made.devices THEN k ELSE unit[d]],
         batch'.onHand + batch'.issued = batch.onHand + batch.issued + made.goods
  PROVE  ReceiptsInv'
<1>1. /\ receipt'[k] = made /\ \A j \in Keys \ {k} : receipt'[j] = receipt[j]
      /\ Recorded' = Recorded \cup {k}
      /\ Recorded \subseteq Keys /\ IsFiniteSet(Recorded)
  BY DEF PurchasingInv, PurchasingTypeOK, RowsTypeOK, Recorded, ReceiptsInv, Listed
<1>2. Listed'
  <2>1. IsFiniteSet(Recorded')
    BY <1>1, FS_AddElement
  <2> QED BY <1>1, <2>1 DEF ReceiptsInv, Listed
<1>3. \A j \in Keys : /\ GoodsBy[j] \in Int /\ CountBy[j] \in Int
                      /\ GoodsBy'[j] \in Int /\ CountBy'[j] \in Int
  <2>1. \A j \in Keys : GoodsBy[j] \in Int /\ CountBy[j] \in Int
    BY ReceiptNumbers DEF PurchasingInv, ReceiptsInv
  <2>2. \A j \in Keys : GoodsBy'[j] \in Int /\ CountBy'[j] \in Int
    BY <1>2, FS_CardinalityType DEF GoodsBy, CountBy, Listed, PurchasingTypeOK, RowsTypeOK
  <2> QED BY <2>1, <2>2
<1>4. /\ \A j \in Recorded : GoodsBy'[j] = GoodsBy[j] /\ CountBy'[j] = CountBy[j]
      /\ GoodsBy'[k] = made.goods /\ CountBy'[k] = Cardinality(made.devices)
  BY <1>1 DEF GoodsBy, CountBy
<1>5. \A S \in SUBSET Recorded :
        /\ SumOver(GoodsBy', S \cup {k}) = SumOver(GoodsBy, S) + made.goods
        /\ SumOver(CountBy', S \cup {k}) = SumOver(CountBy, S) + Cardinality(made.devices)
        /\ SumOver(GoodsBy', S) = SumOver(GoodsBy, S)
        /\ SumOver(CountBy', S) = SumOver(CountBy, S)
  <2>1. ASSUME NEW S \in SUBSET Recorded
        PROVE  /\ SumOver(GoodsBy', S \cup {k}) = SumOver(GoodsBy, S) + GoodsBy'[k]
               /\ SumOver(GoodsBy', S) = SumOver(GoodsBy, S)
    <3>1. PICK f, h, R : f = GoodsBy /\ h = GoodsBy' /\ R = Recorded
      OBVIOUS
    <3>2. (\A j \in S : f[j] \in Int /\ h[j] = f[j]) /\ h[k] \in Int
      BY <1>1, <1>3, <1>4, <3>1
    <3>3. IsFiniteSet(R) /\ k \notin R /\ S \in SUBSET R
      BY <1>1, <3>1
    <3>4. /\ SumOver(h, S \cup {k}) = SumOver(f, S) + h[k]
          /\ SumOver(h, S) = SumOver(f, S)
      BY <3>2, <3>3, SumsMade
    <3> QED BY <3>1, <3>4
  <2>2. ASSUME NEW S \in SUBSET Recorded
        PROVE  /\ SumOver(CountBy', S \cup {k}) = SumOver(CountBy, S) + CountBy'[k]
               /\ SumOver(CountBy', S) = SumOver(CountBy, S)
    <3>1. PICK f, h, R : f = CountBy /\ h = CountBy' /\ R = Recorded
      OBVIOUS
    <3>2. (\A j \in S : f[j] \in Int /\ h[j] = f[j]) /\ h[k] \in Int
      BY <1>1, <1>3, <1>4, <3>1
    <3>3. IsFiniteSet(R) /\ k \notin R /\ S \in SUBSET R
      BY <1>1, <3>1
    <3>4. /\ SumOver(h, S \cup {k}) = SumOver(f, S) + h[k]
          /\ SumOver(h, S) = SumOver(f, S)
      BY <3>2, <3>3, SumsMade
    <3> QED BY <3>1, <3>4
  <2> QED BY <1>4, <2>1, <2>2
<1>6. \A o \in Orders : OrderAddsUp(o)'
  <2>1. ReceiptsOf(p)' = ReceiptsOf(p) \cup {k}
    BY <1>1 DEF ReceiptsOf
  <2>2. \A o \in Orders \ {p} : ReceiptsOf(o)' = ReceiptsOf(o)
    BY <1>1 DEF ReceiptsOf
  <2>3. \A o \in Orders : ReceiptsOf(o) \in SUBSET Recorded
    BY DEF ReceiptsOf
  <2>4. OrderAddsUp(p)'
    BY <1>5, <2>1, <2>3 DEF OrderAddsUp
  <2>5. \A o \in Orders \ {p} : OrderAddsUp(o)'
    BY <1>5, <2>2, <2>3 DEF ReceiptsInv, OrderAddsUp
  <2> QED BY <2>4, <2>5
<1>7. DevicesOnce'
  <2> SUFFICES ASSUME NEW d \in Devices, NEW j \in Keys
               PROVE  d \in receipt'[j].devices <=> unit'[d] = j
    BY DEF DevicesOnce
  <2>1. d \in receipt[j].devices <=> unit[d] = j
    BY DEF ReceiptsInv, DevicesOnce
  <2>2. unit[d] # k
    BY DEF ReceiptsInv, DevicesOnce, Listed
  <2>3. unit'[d] = IF d \in made.devices THEN k ELSE unit[d]
    OBVIOUS
  <2>4. NoKey \notin Keys
    BY PurchasingAssumption DEF PurchasingAssumption
  <2> QED BY <1>1, <2>1, <2>2, <2>3, <2>4
<1>8. BatchAddsUp'
  BY <1>1, <1>5 DEF ReceiptsInv, BatchAddsUp
<1> QED BY <1>2, <1>6, <1>7, <1>8 DEF ReceiptsInv

\* The goods of a receipt are added to the batch.
LEMMA StockedGoods ==
  ASSUME NEW b \in Batch, NEW goods \in Nat, NEW cost, NEW stocked,
         stocked = Stocked(b, goods, cost)
  PROVE  stocked.onHand + stocked.issued = b.onHand + b.issued + goods
<1>1. CASE goods = 0
  BY <1>1 DEF Stocked, Batch
<1>2. CASE goods # 0
  <2> DEFINE average == Average(b.cost, b.onHand, goods * cost, goods)
  <2>1. stocked = [b EXCEPT !.onHand = b.onHand + goods, !.cost = average]
    BY <1>2 DEF Stocked, Batch
  <2> HIDE DEF average
  <2>2. stocked.onHand = b.onHand + goods /\ stocked.issued = b.issued
    BY <2>1 DEF Batch
  <2> QED BY <2>2 DEF Batch
<1> QED BY <1>1, <1>2

LEMMA PostAddsUp ==
  ASSUME PurchasingInv, PurchasingTypeOK', ReceiptsInv, NEW w \in Workers, Post(w)
  PROVE  ReceiptsInv'
<1> DEFINE r == job[w].request
           o == order[r.order]
           count == Cardinality(r.devices)
<1>1. r \in Requests /\ r.kind = "receive" /\ r.key \in Keys /\ r.order \in Orders
      /\ r.goods \in Nat /\ r.cost \in Nat
  BY ReceiveRequest DEF Post, PurchasingInv, JobOK, RequestOK
<1>2. r.key \notin Recorded
  BY DEF Post, PurchasingInv, JobOK, HoldsKey
<1>3. IsFiniteSet(r.devices) /\ count \in Nat
  <2>1. PICK c \in Contents : r.devices = c.devices
    BY <1>1 DEF PurchasingInv, JobOK, RequestOK
  <2> QED BY <2>1, PurchasingAssumption, FS_CardinalityType DEF PurchasingAssumption
<1>4. CASE IdentitiesFree(r.devices)
  <2>1. PICK owed :
          /\ order' = [order EXCEPT ![r.order] = Received(o, r.goods, r.devices)]
          /\ receipt' = [receipt EXCEPT ![r.key] =
               [request |-> r, order |-> r.order, goods |-> r.goods, cost |-> r.cost,
                devices |-> r.devices, owed |-> owed, paid |-> 0]]
          /\ unit' = [d \in Devices |-> IF d \in r.devices THEN r.key ELSE unit[d]]
          /\ batch' = Stocked(batch, r.goods, r.cost)
    BY <1>4 DEF Post
  <2>2. PICK made :
          made = [request |-> r, order |-> r.order, goods |-> r.goods, cost |-> r.cost,
                  devices |-> r.devices, owed |-> owed, paid |-> 0]
    OBVIOUS
  <2>3. /\ made.request # NoRequest /\ made.order = r.order
        /\ made.goods = r.goods /\ made.devices = r.devices
    BY <1>1, <2>2, RequestAssumption DEF RequestAssumption
  <2>4. PICK new : new = Received(o, r.goods, r.devices)
    OBVIOUS
  <2>5. /\ o.gotGoods = SumOver(GoodsBy, ReceiptsOf(r.order))
        /\ o.gotDevices = SumOver(CountBy, ReceiptsOf(r.order))
    BY <1>1 DEF ReceiptsInv, OrderAddsUp
  <2>6. order \in [Orders -> OrderRow] /\ o \in OrderRow
    BY <1>1 DEF PurchasingInv, PurchasingTypeOK, RowsTypeOK, OrderRow
  <2> HIDE DEF o
  <2>7. new.gotGoods = o.gotGoods + r.goods /\ new.gotDevices = o.gotDevices + count
    BY <1>1, <1>3, <2>4, <2>6, ReceivedRow
  <2>8. order'[r.order] = new /\ \A p \in Orders \ {r.order} : order'[p] = order[p]
    BY <1>1, <2>1, <2>4, <2>6
  <2>9. batch'.onHand + batch'.issued = batch.onHand + batch.issued + r.goods
    <3>1. batch \in Batch
      BY DEF PurchasingInv, PurchasingTypeOK, RowsTypeOK, Batch
    <3> QED BY <1>1, <2>1, <3>1, StockedGoods
  <2>10. receipt' = [receipt EXCEPT ![r.key] = made]
    BY <2>1, <2>2
  <2>11. unit' = [d \in Devices |-> IF d \in made.devices THEN r.key ELSE unit[d]]
    BY <2>1, <2>3
  <2>12. \A d \in made.devices : unit[d] = NoKey
    BY <1>4, <2>3 DEF IdentitiesFree
  <2>13. /\ order'[r.order].gotGoods = SumOver(GoodsBy, ReceiptsOf(r.order)) + made.goods
         /\ order'[r.order].gotDevices =
              SumOver(CountBy, ReceiptsOf(r.order)) + Cardinality(made.devices)
    BY <2>3, <2>5, <2>7, <2>8
  <2> HIDE DEF r, count
  <2> QED BY <1>1, <1>2, <1>3, <2>3, <2>8, <2>9, <2>10, <2>11, <2>12, <2>13, ReceiptMade
<1>5. CASE ~IdentitiesFree(r.devices)
  BY <1>5, NoReceiptMade DEF Post, rows
<1> QED BY <1>4, <1>5

LEMMA PostQuickAddsUp ==
  ASSUME PurchasingInv, PurchasingTypeOK', ReceiptsInv, NEW w \in Workers, PostQuick(w)
  PROVE  ReceiptsInv'
<1> DEFINE r == job[w].request
           b == r.buy
<1>1. r \in Requests /\ r.kind = "quick" /\ r.key \in Keys /\ b.goods \in Nat /\ b.cost \in Nat
  BY QuickRequest DEF PostQuick, PurchasingInv, JobOK, RequestOK
<1>2. r.key \notin Recorded
  BY DEF PostQuick, PurchasingInv, JobOK, HoldsKey
<1>3. CASE price = job[w].price
  <2>1. PICK o \in Orders :
          /\ order[o].status = "none" /\ order' = [order EXCEPT ![o] = QuickOrder(b)]
          /\ receipt' = [receipt EXCEPT ![r.key] =
               [request |-> r, order |-> o, goods |-> b.goods, cost |-> b.cost,
                devices |-> {}, owed |-> b.goods * b.cost, paid |-> b.paid]]
          /\ batch' = Stocked(batch, b.goods, b.cost)
          /\ unit' = unit
    BY <1>3 DEF PostQuick
  <2>2. PICK made :
          made = [request |-> r, order |-> o, goods |-> b.goods, cost |-> b.cost,
                  devices |-> {}, owed |-> b.goods * b.cost, paid |-> b.paid]
    OBVIOUS
  <2>3. /\ made.request # NoRequest /\ made.order = o
        /\ made.goods = b.goods /\ made.devices = {}
    BY <1>1, <2>2, RequestAssumption DEF RequestAssumption
  <2>4. receipt' = [receipt EXCEPT ![r.key] = made]
    BY <2>1, <2>2
  <2>5. /\ order'[o].gotGoods = b.goods /\ order'[o].gotDevices = 0
        /\ \A p \in Orders \ {o} : order'[p] = order[p]
    <3>1. QuickOrder(b).gotGoods = b.goods /\ QuickOrder(b).gotDevices = 0
      BY DEF QuickOrder, NoOrder
    <3> QED BY <2>1, <3>1 DEF PurchasingInv, PurchasingTypeOK, RowsTypeOK
  <2>6. /\ SumOver(GoodsBy, ReceiptsOf(o)) = 0 /\ SumOver(CountBy, ReceiptsOf(o)) = 0
        /\ IsFiniteSet(made.devices) /\ Cardinality(made.devices) = 0
    BY <2>1, <2>3, UnusedOrder, SumEmpty, FS_EmptySet
  <2>7. batch'.onHand + batch'.issued = batch.onHand + batch.issued + b.goods
    <3>1. batch \in Batch
      BY DEF PurchasingInv, PurchasingTypeOK, RowsTypeOK, Batch
    <3> QED BY <1>1, <2>1, <3>1, StockedGoods
  <2>8. unit' = [d \in Devices |-> IF d \in made.devices THEN r.key ELSE unit[d]]
    BY <2>1, <2>3 DEF PurchasingInv, PurchasingTypeOK, RowsTypeOK
  <2>9. /\ order'[o].gotGoods = SumOver(GoodsBy, ReceiptsOf(o)) + made.goods
        /\ order'[o].gotDevices =
             SumOver(CountBy, ReceiptsOf(o)) + Cardinality(made.devices)
    BY <1>1, <2>3, <2>5, <2>6
  <2> HIDE DEF r
  <2> QED BY <1>1, <1>2, <2>3, <2>4, <2>5, <2>6, <2>7, <2>8, <2>9, ReceiptMade
<1>4. CASE price # job[w].price
  BY <1>4, NoReceiptMade DEF PostQuick, rows
<1> QED BY <1>3, <1>4

LEMMA WriteAddsUp ==
  ASSUME PurchasingInv, ReceiptsInv, NEW w \in Workers, Write(w)
  PROVE  ReceiptsInv'
<1>1. CASE UnchangedSince(w)
  <2>1. PICK r, o, new :
          /\ r = job[w].request /\ o = order[r.order] /\ new = Written(o, r)
          /\ order' = [order EXCEPT ![r.order] = new] /\ job[w].pc = "write"
          /\ UNCHANGED <<receipt, unit, batch>>
    BY <1>1 DEF Write, Written
  <2>2. /\ r.order \in Orders
        /\ new.gotGoods = o.gotGoods /\ new.gotDevices = o.gotDevices
    BY <1>1, <2>1, WrittenRow
  <2>3. \A p \in Orders : /\ order'[p].gotGoods = order[p].gotGoods
                          /\ order'[p].gotDevices = order[p].gotDevices
    BY <2>1, <2>2 DEF PurchasingInv, PurchasingTypeOK, RowsTypeOK
  <2> QED BY <2>1, <2>3, NoReceiptMade
<1>2. CASE ~UnchangedSince(w)
  BY <1>2, NoReceiptMade DEF Write, rows
<1> QED BY <1>1, <1>2

LEMMA CreateAddsUp ==
  ASSUME PurchasingInv, ReceiptsInv, NEW o \in Orders, NEW t \in Terms, CreateOrder(o, t)
  PROVE  ReceiptsInv'
<1>1. order[o].gotGoods = 0 /\ order[o].gotDevices = 0
  BY DEF CreateOrder, PurchasingInv, OrderOK, Posted
<1>2. \A p \in Orders : /\ order'[p].gotGoods = order[p].gotGoods
                        /\ order'[p].gotDevices = order[p].gotDevices
  BY <1>1 DEF CreateOrder, NoOrder, PurchasingInv, PurchasingTypeOK, RowsTypeOK
<1> QED BY <1>2, NoReceiptMade DEF CreateOrder

LEMMA IssueAddsUp ==
  ASSUME PurchasingInv, ReceiptsInv, Issue
  PROVE  ReceiptsInv'
<1>1. batch \in Batch /\ \A n \in 0..MaxIssued : n \in Int
  BY PurchasingAssumption
  DEF PurchasingInv, PurchasingTypeOK, RowsTypeOK, Batch, PurchasingAssumption
<1>2. batch'.onHand = batch.onHand - 1 /\ batch'.issued = batch.issued + 1
  BY <1>1 DEF Issue, Batch
<1>3. batch'.onHand + batch'.issued = batch.onHand + batch.issued
  BY <1>1, <1>2 DEF Batch
<1> QED BY <1>3, NoReceiptMade DEF Issue

\* Nothing has come yet.
LEMMA InitAddsUp == Init => ReceiptsInv
<1> SUFFICES ASSUME Init PROVE ReceiptsInv
  OBVIOUS
<1>1. Recorded = {} /\ \A o \in Orders : ReceiptsOf(o) = {}
  BY DEF Init, Recorded, ReceiptsOf, NoReceipt
<1>2. Listed
  BY <1>1, FS_EmptySet DEF Init, Listed, NoReceipt
<1>3. BatchAddsUp /\ \A o \in Orders : OrderAddsUp(o)
  BY <1>1, SumEmpty DEF Init, BatchAddsUp, OrderAddsUp, NoOrder
<1>4. DevicesOnce
  BY PurchasingAssumption DEF Init, DevicesOnce, NoReceipt, PurchasingAssumption
<1> QED BY <1>2, <1>3, <1>4 DEF ReceiptsInv

LEMMA StepAddsUp ==
  PurchasingInv /\ PurchasingInv' /\ ReceiptsInv /\ [Next]_vars => ReceiptsInv'
<1> SUFFICES ASSUME PurchasingInv, PurchasingTypeOK', ReceiptsInv, [Next]_vars
             PROVE  ReceiptsInv'
  BY DEF PurchasingInv
<1>1. ASSUME UNCHANGED rows PROVE ReceiptsInv'
  BY <1>1, NoReceiptMade DEF rows
<1>2. ASSUME NEW w \in Workers, ServerStep(w) PROVE ReceiptsInv'
  <2>1. CASE LookUpKey(w) \/ LockOrder(w) \/ PrepareQuick(w) \/ ReadStatus(w)
    BY <1>1, <2>1 DEF LookUpKey, LockOrder, PrepareQuick, ReadStatus
  <2> QED BY <1>2, <2>1, PostAddsUp, PostQuickAddsUp, WriteAddsUp DEF ServerStep
<1>3. ASSUME NEW w \in Workers,
             \/ \E k \in Keys, o \in Orders, c \in Contents : SendReceipt(w, k, o, c)
             \/ \E k \in Keys, q \in QuickBuys : SendQuick(w, k, q)
             \/ \E o \in Orders, target \in Targets : SendDecision(w, o, target)
             \/ \E o \in Orders, t \in Terms : SendEdit(w, o, t)
             \/ Abort(w)
      PROVE  ReceiptsInv'
  BY <1>1, <1>3 DEF SendReceipt, SendQuick, SendDecision, SendEdit, Submit, Abort
<1>4. CASE UNCHANGED vars
  BY <1>1, <1>4 DEF vars
<1> QED BY <1>2, <1>3, <1>4, CreateAddsUp, IssueAddsUp DEF Next

\* Receipts add up: to their orders, to the batch, and over the devices, for
\* any number of orders, receipts and devices.
THEOREM AddUp == Spec => []ReceiptsAddUp
<1>1. PurchasingInv /\ ReceiptsInv => ReceiptsAddUp
  BY DEF PurchasingInv, OrderOK, ReceiptsInv, OrderAddsUp, DevicesOnce, BatchAddsUp,
     ReceiptsAddUp, GoodsBy, CountBy
<1>2. Spec => []ReceiptsInv
  BY InitAddsUp, StepAddsUp, PurchasingInvariant, PTL DEF Spec
<1> QED BY <1>1, <1>2, PurchasingInvariant, PTL
-----------------------------------------------------------------------------
(* The refinement of AtomicReceiving.                                       *)

Purchases == [o \in Orders |-> Purchase(order[o])]
Arrivals == [k \in Keys |-> Came(receipt[k])]
AtomicVars == <<Purchases, Arrivals, unit, batch.onHand>>

\* Under a key without a receipt nothing is written.
Unwritten == \A k \in Keys \ Recorded : receipt[k] = NoReceipt

LEMMA InitImplementsInit == Init => Atomic!Init /\ Unwritten
BY DEF Init, Atomic!Init, Unwritten, NoOrder, NoTerms, NoReceipt, Purchase, Came,
       Atomic!NoPurchase, Atomic!NoTerms, Atomic!NothingCame

LEMMA RowsKeptStutters == UNCHANGED rows => UNCHANGED AtomicVars
BY DEF rows, AtomicVars, Purchases, Arrivals

LEMMA OrderView ==
  ASSUME PurchasingInv, NEW p \in Orders, NEW new, order' = [order EXCEPT ![p] = new]
  PROVE  Purchases' = [Purchases EXCEPT ![p] = Purchase(new)]
BY DEF PurchasingInv, PurchasingTypeOK, RowsTypeOK, Purchases

LEMMA ReceiptView ==
  ASSUME PurchasingInv, NEW k \in Keys, NEW made, receipt' = [receipt EXCEPT ![k] = made]
  PROVE  Arrivals' = [Arrivals EXCEPT ![k] = Came(made)]
BY DEF PurchasingInv, PurchasingTypeOK, RowsTypeOK, Arrivals

LEMMA UnwrittenView ==
  ASSUME Unwritten, NEW k \in Keys, k \notin Recorded
  PROVE  Arrivals[k] = Atomic!NothingCame
<1>1. Arrivals[k] = Came(NoReceipt)
  BY DEF Unwritten, Arrivals
<1>2. Came(NoReceipt) = Atomic!NothingCame
  BY DEF Came, NoReceipt, Atomic!NothingCame
<1> QED BY <1>1, <1>2

LEMMA StockedOnHand ==
  ASSUME NEW b \in Batch, NEW goods \in Nat, NEW cost, NEW stocked,
         stocked = Stocked(b, goods, cost)
  PROVE  stocked.onHand = b.onHand + goods
<1>1. CASE goods = 0
  BY <1>1 DEF Stocked, Batch
<1>2. CASE goods # 0
  <2> DEFINE average == Average(b.cost, b.onHand, goods * cost, goods)
  <2>1. stocked = [b EXCEPT !.onHand = b.onHand + goods, !.cost = average]
    BY <1>2 DEF Stocked, Batch
  <2> HIDE DEF average
  <2> QED BY <2>1 DEF Batch
<1> QED BY <1>1, <1>2

LEMMA SameCount == \A S : Atomic!Cardinality(S) = Cardinality(S)
BY DEF Cardinality, Atomic!Cardinality

\* The order after a receipt is the same seen from either side.
LEMMA ReceivedView ==
  ASSUME NEW o \in OrderRow, NEW goods \in Nat, NEW devices, Cardinality(devices) \in Nat,
         NEW new, new = Received(o, goods, devices)
  PROVE  Purchase(new) = Atomic!After(Purchase(o), goods, Cardinality(devices))
<1> DEFINE count == Cardinality(devices)
<1>1. /\ new.terms = o.terms /\ new.agreed = o.agreed
      /\ new.gotGoods = o.gotGoods + goods
      /\ new.gotDevices = o.gotDevices + count
      /\ new.status = IF /\ o.gotGoods + goods = o.terms.goods
                         /\ o.gotDevices + count = o.terms.devices
                      THEN "received" ELSE "partially_received"
  BY ReceivedRow DEF FullyReceived
<1> HIDE DEF count
<1> DEFINE status == IF /\ o.gotGoods + goods = o.terms.goods
                        /\ o.gotDevices + count = o.terms.devices
                     THEN "received" ELSE "partially_received"
           seen == [status |-> status, terms |-> o.terms, agreed |-> o.agreed,
                    goods |-> o.gotGoods + goods, devices |-> o.gotDevices + count]
<1>2. Purchase(new) = seen
  BY <1>1 DEF Purchase
<1>3. PICK after : after = Atomic!After(Purchase(o), goods, count)
  OBVIOUS
<1>4. after = [Purchase(o) EXCEPT !.goods = o.gotGoods + goods,
                                  !.devices = o.gotDevices + count, !.status = status]
  BY <1>3 DEF Purchase, Atomic!After
<1>5. after = seen
  BY <1>4 DEF Purchase
<1> QED BY <1>2, <1>3, <1>5 DEF count

\* The commit of a receipt is the instant at which it arrives.
LEMMA PostImplementsReceive ==
  ASSUME PurchasingInv, Unwritten, NEW w \in Workers, Post(w)
  PROVE  Atomic!Next \/ UNCHANGED AtomicVars
<1>1. CASE ~IdentitiesFree(job[w].request.devices)
  BY <1>1, RowsKeptStutters DEF Post
<1>2. CASE IdentitiesFree(job[w].request.devices)
  <2>1. PICK r : r = job[w].request
    OBVIOUS
  <2>2. PICK o : o = order[r.order]
    OBVIOUS
  <2>3. /\ r \in Requests /\ r.kind = "receive" /\ r.key \in Keys /\ r.order \in Orders
        /\ r.goods \in Nat /\ r.cost \in Nat /\ r.devices \in SUBSET Devices
    BY <2>1, ReceiveRequest DEF Post, PurchasingInv, JobOK, RequestOK
  <2>4. PICK c \in Contents : r.goods = c.goods /\ r.devices = c.devices
    BY <2>1, <2>3 DEF PurchasingInv, JobOK, RequestOK
  <2>5. PICK count : count = Cardinality(r.devices) /\ count \in Nat
    BY <2>4, PurchasingAssumption, FS_CardinalityType DEF PurchasingAssumption
  <2>6. /\ r.key \notin Recorded /\ o.status \in Receivable
        /\ o.gotGoods + r.goods <= o.terms.goods
        /\ o.gotDevices + count <= o.terms.devices
        /\ r.cost = o.terms.cost /\ o.terms = o.agreed
    BY <2>1, <2>2, <2>3, <2>5
    DEF Post, PurchasingInv, JobOK, HoldsKey, HoldsOrder, OrderOK, Receivable
  <2>7. PICK new, made :
          /\ new = Received(o, r.goods, r.devices)
          /\ made = [request |-> r, order |-> r.order, goods |-> r.goods, cost |-> r.cost,
                     devices |-> r.devices, owed |-> r.goods * r.cost + count * DevicePrice,
                     paid |-> 0]
          /\ order' = [order EXCEPT ![r.order] = new]
          /\ receipt' = [receipt EXCEPT ![r.key] = made]
          /\ unit' = [d \in Devices |-> IF d \in r.devices THEN r.key ELSE unit[d]]
          /\ batch' = Stocked(batch, r.goods, r.cost)
    BY <1>2, <2>1, <2>2, <2>5 DEF Post
  <2>8. o \in OrderRow
    BY <2>2, <2>3 DEF PurchasingInv, PurchasingTypeOK, RowsTypeOK, OrderRow
  <2>9. Purchases' = [Purchases EXCEPT ![r.order] =
                        Atomic!After(Purchases[r.order], c.goods, count)]
    <3>1. Purchases[r.order] = Purchase(o)
      BY <2>2, <2>3 DEF Purchases
    <3>2. Purchase(new) = Atomic!After(Purchase(o), r.goods, count)
      BY <2>3, <2>5, <2>7, <2>8, ReceivedView
    <3>3. Purchases' = [Purchases EXCEPT ![r.order] = Purchase(new)]
      BY <2>3, <2>7, OrderView
    <3> QED BY <2>4, <3>1, <3>2, <3>3
  <2>10. Arrivals' = [Arrivals EXCEPT ![r.key] =
           [order |-> r.order, goods |-> c.goods, devices |-> c.devices,
            owed |-> c.goods * Purchases[r.order].agreed.cost + count * DevicePrice,
            paid |-> 0]]
    <3>1. Purchases[r.order].agreed.cost = r.cost
      BY <2>2, <2>3, <2>6 DEF Purchases, Purchase
    <3>2. Came(made) = [order |-> r.order, goods |-> r.goods, devices |-> r.devices,
                        owed |-> r.goods * r.cost + count * DevicePrice, paid |-> 0]
      BY <2>7 DEF Came
    <3>3. Arrivals' = [Arrivals EXCEPT ![r.key] = Came(made)]
      BY <2>3, <2>7, ReceiptView
    <3> QED BY <2>4, <3>1, <3>2, <3>3
  <2>11. batch'.onHand = batch.onHand + c.goods
    BY <2>3, <2>4, <2>7, StockedOnHand
    DEF PurchasingInv, PurchasingTypeOK, RowsTypeOK, Batch
  <2>12. /\ Arrivals[r.key] = Atomic!NothingCame
         /\ Purchases[r.order].status \in Receivable
         /\ Purchases[r.order].goods + c.goods <= Purchases[r.order].terms.goods
         /\ Purchases[r.order].devices + count <= Purchases[r.order].terms.devices
         /\ \A d \in c.devices : unit[d] = NoKey
    <3>1. Arrivals[r.key] = Atomic!NothingCame
      BY <2>3, <2>6, UnwrittenView
    <3>2. \A d \in c.devices : unit[d] = NoKey
      BY <1>2, <2>1, <2>4 DEF IdentitiesFree
    <3> QED BY <2>2, <2>3, <2>4, <2>6, <3>1, <3>2 DEF Purchases, Purchase
  <2>13. Atomic!Receive(r.key, r.order, c)
    BY <2>4, <2>5, <2>7, <2>9, <2>10, <2>11, <2>12, SameCount
    DEF Atomic!Receive, Purchases, Arrivals, Receivable
  <2> QED BY <2>3, <2>4, <2>12, <2>13 DEF Atomic!Next, Arrivals
<1> QED BY <1>1, <1>2

\* So is that of a quick stock-in.
LEMMA PostQuickImplementsBuy ==
  ASSUME PurchasingInv, Unwritten, NEW w \in Workers, PostQuick(w)
  PROVE  Atomic!Next \/ UNCHANGED AtomicVars
<1>1. CASE price # job[w].price
  BY <1>1, RowsKeptStutters DEF PostQuick
<1>2. CASE price = job[w].price
  <2>1. PICK r, q : r = job[w].request /\ q = r.buy
    OBVIOUS
  <2>2. /\ r \in Requests /\ r.kind = "quick" /\ r.key \in Keys /\ q \in QuickBuys
        /\ q.goods \in Nat /\ q.cost \in Nat
    <3>1. r \in Requests /\ r.kind = "quick"
      BY <2>1 DEF PostQuick, PurchasingInv, JobOK, RequestOK
    <3>2. q \in QuickBuys
      BY <2>1, <3>1 DEF Requests, Targets
    <3> QED BY <2>1, <3>1, <3>2, QuickRequest
  <2>3. r.key \notin Recorded
    BY <2>1 DEF PostQuick, PurchasingInv, JobOK, HoldsKey
  <2> DEFINE made(o) == [request |-> r, order |-> o, goods |-> q.goods, cost |-> q.cost,
                         devices |-> {}, owed |-> q.goods * q.cost, paid |-> q.paid]
  <2>4. PICK o \in Orders :
          /\ order[o].status = "none"
          /\ order' = [order EXCEPT ![o] = QuickOrder(q)]
          /\ receipt' = [receipt EXCEPT ![r.key] = made(o)]
          /\ batch' = Stocked(batch, q.goods, q.cost)
          /\ unit' = unit
    BY <1>2, <2>1 DEF PostQuick
  <2> DEFINE terms == [goods |-> q.goods, cost |-> q.cost, devices |-> 0]
  <2>5. Purchases' = [Purchases EXCEPT ![o] =
          [status |-> "received", terms |-> terms, agreed |-> terms,
           goods |-> q.goods, devices |-> 0]]
    <3>1. PICK new : new = QuickOrder(q)
      OBVIOUS
    <3>2. new = [NoOrder EXCEPT !.status = "received", !.version = 3, !.terms = terms,
                                !.agreed = terms, !.gotGoods = q.goods]
      BY <3>1 DEF QuickOrder
    <3>3. /\ new.status = "received" /\ new.terms = terms /\ new.agreed = terms
          /\ new.gotGoods = q.goods /\ new.gotDevices = 0
      BY <3>2 DEF NoOrder
    <3>4. Purchase(new) = [status |-> "received", terms |-> terms, agreed |-> terms,
                           goods |-> q.goods, devices |-> 0]
      BY <3>3 DEF Purchase
    <3> QED BY <2>4, <3>1, <3>4, OrderView
  <2>6. Arrivals' = [Arrivals EXCEPT ![r.key] =
          [order |-> o, goods |-> q.goods, devices |-> {},
           owed |-> q.goods * q.cost, paid |-> q.paid]]
    <3>1. Came(made(o)) = [order |-> o, goods |-> q.goods, devices |-> {},
                           owed |-> q.goods * q.cost, paid |-> q.paid]
      BY DEF Came
    <3> QED BY <2>2, <2>4, <3>1, ReceiptView
  <2>7. batch'.onHand = batch.onHand + q.goods
    BY <2>2, <2>4, StockedOnHand DEF PurchasingInv, PurchasingTypeOK, RowsTypeOK, Batch
  <2>8. Arrivals[r.key] = Atomic!NothingCame /\ Purchases[o].status = "none"
    BY <2>2, <2>3, <2>4, UnwrittenView DEF Purchases, Purchase
  <2>9. Atomic!Buy(r.key, o, q)
    BY <2>4, <2>5, <2>6, <2>7, <2>8 DEF Atomic!Buy, Purchases, Arrivals
  <2> QED BY <2>2, <2>8, <2>9 DEF Atomic!Next, Arrivals
<1> QED BY <1>1, <1>2

\* A guarded update takes effect on the status and the terms it finds.
LEMMA WriteImplementsDecision ==
  ASSUME PurchasingInv, NEW w \in Workers, Write(w)
  PROVE  Atomic!Next \/ UNCHANGED AtomicVars
<1>1. CASE ~UnchangedSince(w)
  BY <1>1, RowsKeptStutters DEF Write
<1>2. CASE UnchangedSince(w)
  <2>1. PICK r, o, new :
          /\ r = job[w].request /\ o = order[r.order] /\ new = Written(o, r)
          /\ order' = [order EXCEPT ![r.order] = new] /\ job[w].pc = "write"
          /\ UNCHANGED <<receipt, unit, batch>>
    BY <1>2 DEF Write, Written
  <2>2. /\ r \in Requests /\ r.kind \in Targets \cup {"edit"} /\ r.order \in Orders
        /\ r.kind = "edit" => o.status = "draft" /\ r.terms \in Terms
        /\ r.kind # "edit" => /\ o.status \in Statuses /\ r.kind \in Allowed[o.status]
                              /\ r.terms = o.terms
    BY <1>2, <2>1, OrderRequest
    DEF PurchasingInv, JobOK, RequestOK, Decides, UnchangedSince
  <2>3. o \in OrderRow
    BY <2>1, <2>2 DEF PurchasingInv, PurchasingTypeOK, RowsTypeOK, OrderRow
  <2>4. /\ Purchases' = [Purchases EXCEPT ![r.order] = Purchase(new)]
        /\ Purchases[r.order] = Purchase(o)
        /\ UNCHANGED <<Arrivals, unit, batch.onHand>>
    BY <2>1, <2>2, OrderView DEF Purchases, Arrivals
  <2>5. CASE r.kind = "edit"
    <3>1. new = [o EXCEPT !.terms = r.terms, !.version = o.version + 1]
      BY <2>1, <2>5 DEF Written
    <3>2. Purchase(new) = [Purchase(o) EXCEPT !.terms = r.terms]
      BY <2>3, <3>1 DEF Purchase, OrderRow
    <3>3. Purchases[r.order].status = "draft"
      BY <2>2, <2>4, <2>5 DEF Purchase
    <3>4. Purchases' = [Purchases EXCEPT ![r.order].terms = r.terms]
      BY <2>4, <3>2
    <3>5. Atomic!Edit(r.order, r.terms)
      BY <2>4, <3>3, <3>4 DEF Atomic!Edit, Purchases, Arrivals
    <3> QED BY <2>2, <2>5, <3>5 DEF Atomic!Next
  <2>6. CASE r.kind = "approved"
    <3>1. new = [o EXCEPT !.status = "approved", !.version = o.version + 1,
                          !.agreed = r.terms]
      BY <2>1, <2>6 DEF Written
    <3>2. Purchase(new) = [Purchase(o) EXCEPT !.status = "approved",
                                              !.agreed = Purchase(o).terms]
      <4> DEFINE seen == [status |-> "approved", terms |-> o.terms, agreed |-> o.terms,
                          goods |-> o.gotGoods, devices |-> o.gotDevices]
      <4>1. /\ new.status = "approved" /\ new.terms = o.terms /\ new.agreed = o.terms
            /\ new.gotGoods = o.gotGoods /\ new.gotDevices = o.gotDevices
        BY <2>2, <2>3, <2>6, <3>1 DEF OrderRow
      <4>2. Purchase(new) = seen
        BY <4>1 DEF Purchase
      <4>3. PICK p : p = [Purchase(o) EXCEPT !.status = "approved",
                                             !.agreed = Purchase(o).terms]
        OBVIOUS
      <4>4. p = seen
        BY <4>3 DEF Purchase
      <4> QED BY <4>2, <4>3, <4>4
    <3>3. Purchases[r.order].status = "draft"
      BY <2>2, <2>4, <2>6 DEF Purchase, Allowed, Statuses
    <3>4. Purchases' = [Purchases EXCEPT ![r.order].status = "approved",
                                         ![r.order].agreed = Purchases[r.order].terms]
      BY <2>2, <2>4, <3>2 DEF Purchases
    <3>5. Atomic!Approve(r.order)
      BY <2>4, <3>3, <3>4 DEF Atomic!Approve, Purchases, Arrivals
    <3> QED BY <2>2, <3>5 DEF Atomic!Next
  <2>7. CASE r.kind \in {"ordered", "closed", "cancelled"}
    <3>1. new = [o EXCEPT !.status = r.kind, !.version = o.version + 1, !.agreed = o.agreed]
      BY <2>1, <2>7 DEF Written
    <3>2. Purchase(new) = [Purchase(o) EXCEPT !.status = r.kind]
      BY <2>3, <3>1 DEF Purchase, OrderRow
    <3>3. \/ r.kind = "ordered"   /\ o.status = "approved"
          \/ r.kind = "cancelled" /\ o.status \in {"draft", "approved", "ordered"}
          \/ r.kind = "closed"    /\ o.status \in {"partially_received", "received"}
      BY <2>2, <2>7 DEF Allowed, Statuses
    <3>4. Purchases' = [Purchases EXCEPT ![r.order].status = r.kind]
      BY <2>4, <3>2
    <3>5. Purchases[r.order].status = o.status
      BY <2>4 DEF Purchase
    <3>6. Atomic!Decide(r.order, r.kind)
      BY <2>4, <3>3, <3>4, <3>5 DEF Atomic!Decide, Purchases, Arrivals
    <3> QED BY <2>2, <2>7, <3>6 DEF Atomic!Next
  <2> QED BY <2>2, <2>5, <2>6, <2>7 DEF Targets
<1> QED BY <1>1, <1>2

LEMMA CreateImplementsCreate ==
  ASSUME PurchasingInv, NEW o \in Orders, NEW t \in Terms, CreateOrder(o, t)
  PROVE  Atomic!Next
<1> DEFINE new == [NoOrder EXCEPT !.status = "draft", !.version = 1, !.terms = t]
<1>1. Purchase(new) = [Atomic!NoPurchase EXCEPT !.status = "draft", !.terms = t]
  <2> DEFINE seen == [status |-> "draft", terms |-> t, agreed |-> NoTerms,
                      goods |-> 0, devices |-> 0]
  <2>1. Purchase(new) = seen
    <3>1. /\ new.status = "draft" /\ new.terms = t /\ new.agreed = NoTerms
          /\ new.gotGoods = 0 /\ new.gotDevices = 0
      BY DEF NoOrder
    <3> HIDE DEF new
    <3> QED BY <3>1 DEF Purchase
  <2>2. PICK p : p = [Atomic!NoPurchase EXCEPT !.status = "draft", !.terms = t]
    OBVIOUS
  <2>3. p = seen
    BY <2>2 DEF NoTerms, Atomic!NoPurchase, Atomic!NoTerms
  <2> QED BY <2>1, <2>2, <2>3
<1>2. Purchases' = [Purchases EXCEPT ![o] = Purchase(new)]
  BY OrderView DEF CreateOrder
<1>3. Purchases[o].status = "none" /\ UNCHANGED <<Arrivals, unit, batch.onHand>>
  BY DEF CreateOrder, Purchases, Purchase, Arrivals
<1> HIDE DEF new
<1>4. Atomic!Create(o, t)
  BY <1>1, <1>2, <1>3 DEF Atomic!Create, Purchases, Arrivals
<1> QED BY <1>4 DEF Atomic!Next

LEMMA IssueImplementsIssue == PurchasingInv /\ Issue => Atomic!Next
<1> SUFFICES ASSUME PurchasingInv, Issue PROVE Atomic!Next
  OBVIOUS
<1>1. batch \in Batch
  BY DEF PurchasingInv, PurchasingTypeOK, RowsTypeOK, Batch
<1>2. /\ batch.onHand > 0 /\ batch'.onHand = batch.onHand - 1
      /\ UNCHANGED <<Purchases, Arrivals, unit>>
  BY <1>1 DEF Issue, Batch, Purchases, Arrivals
<1>3. Atomic!Issue
  BY <1>2 DEF Atomic!Issue, Purchases, Arrivals
<1> QED BY <1>3 DEF Atomic!Next

LEMMA StepUnwritten == PurchasingInv /\ Unwritten /\ [Next]_vars => Unwritten'
<1> SUFFICES ASSUME PurchasingInv, Unwritten, [Next]_vars PROVE Unwritten'
  OBVIOUS
<1>1. ASSUME UNCHANGED receipt PROVE Unwritten'
  BY <1>1 DEF Unwritten, Recorded
<1>2. ASSUME NEW w \in Workers, Post(w) \/ PostQuick(w) PROVE Unwritten'
  <2>1. job[w].request \in Requests
    BY <1>2 DEF Post, PostQuick, PurchasingInv, JobOK, RequestOK
  <2>2. job[w].request # NoRequest
    BY <2>1, RequestAssumption DEF RequestAssumption
  <2>3. UNCHANGED receipt \/
        \E k, made : /\ made.request # NoRequest
                     /\ receipt' = [receipt EXCEPT ![k] = made]
    <3>1. CASE Post(w)
      BY <2>2, <3>1 DEF Post, rows
    <3>2. CASE PostQuick(w)
      BY <2>2, <3>2 DEF PostQuick, rows
    <3> QED BY <1>2, <3>1, <3>2
  <2>4. receipt \in [Keys -> [request: Requests \cup {NoRequest}, order: Orders \cup {NoKey},
                              goods: Nat, cost: Nat, devices: SUBSET Devices,
                              owed: Nat, paid: Nat]]
    BY DEF PurchasingInv, PurchasingTypeOK, RowsTypeOK
  <2> QED BY <1>1, <2>3, <2>4 DEF Unwritten, Recorded
<1>3. ASSUME NEW w \in Workers, ServerStep(w) PROVE Unwritten'
  <2>1. CASE LookUpKey(w) \/ LockOrder(w) \/ PrepareQuick(w) \/ ReadStatus(w) \/ Write(w)
    BY <1>1, <2>1 DEF LookUpKey, LockOrder, PrepareQuick, ReadStatus, Write, rows
  <2> QED BY <1>2, <1>3, <2>1 DEF ServerStep
<1>4. ASSUME NEW w \in Workers,
             \/ \E k \in Keys, o \in Orders, c \in Contents : SendReceipt(w, k, o, c)
             \/ \E k \in Keys, q \in QuickBuys : SendQuick(w, k, q)
             \/ \E o \in Orders, target \in Targets : SendDecision(w, o, target)
             \/ \E o \in Orders, t \in Terms : SendEdit(w, o, t)
             \/ Abort(w)
      PROVE  Unwritten'
  BY <1>1, <1>4 DEF SendReceipt, SendQuick, SendDecision, SendEdit, Submit, Abort, rows
<1>5. CASE (\E o \in Orders, t \in Terms : CreateOrder(o, t)) \/ Issue \/ UNCHANGED vars
  BY <1>1, <1>5 DEF CreateOrder, Issue, vars, rows
<1> QED BY <1>3, <1>4, <1>5 DEF Next

\* Every decision, edit and receipt behaves as if it happened at one instant:
\* an approval on the terms of that instant, a receipt whole, under a new key,
\* with identities nobody has and within what was ordered and approved.
THEOREM ReceivingIsAtomic == Spec => ReceivesAtomically
<1>1. PurchasingInv /\ Unwritten /\ [Next]_vars => [Atomic!Next]_AtomicVars
  <2> SUFFICES ASSUME PurchasingInv, Unwritten, [Next]_vars
               PROVE  Atomic!Next \/ UNCHANGED AtomicVars
    OBVIOUS
  <2>1. ASSUME NEW w \in Workers, ServerStep(w)
        PROVE  Atomic!Next \/ UNCHANGED AtomicVars
    <3>1. CASE LookUpKey(w) \/ LockOrder(w) \/ PrepareQuick(w) \/ ReadStatus(w)
      BY <3>1, RowsKeptStutters DEF LookUpKey, LockOrder, PrepareQuick, ReadStatus
    <3> QED BY <2>1, <3>1, PostImplementsReceive, PostQuickImplementsBuy,
               WriteImplementsDecision DEF ServerStep
  <2>2. ASSUME NEW w \in Workers,
               \/ \E k \in Keys, o \in Orders, c \in Contents : SendReceipt(w, k, o, c)
               \/ \E k \in Keys, q \in QuickBuys : SendQuick(w, k, q)
               \/ \E o \in Orders, target \in Targets : SendDecision(w, o, target)
               \/ \E o \in Orders, t \in Terms : SendEdit(w, o, t)
               \/ Abort(w)
        PROVE  UNCHANGED AtomicVars
    BY <2>2, RowsKeptStutters
    DEF SendReceipt, SendQuick, SendDecision, SendEdit, Submit, Abort, rows
  <2>3. CASE UNCHANGED vars
    BY <2>3, RowsKeptStutters DEF vars
  <2> QED BY <2>1, <2>2, <2>3, CreateImplementsCreate, IssueImplementsIssue DEF Next
<1>2. Spec => []Unwritten
  BY InitImplementsInit, StepUnwritten, PurchasingInvariant, PTL DEF Spec
<1> QED BY <1>1, <1>2, PurchasingInvariant, InitImplementsInit, PTL
        DEF Spec, ReceivesAtomically, Atomic!Spec, AtomicVars, Purchases, Arrivals,
            Atomic!atomicVars
=============================================================================
