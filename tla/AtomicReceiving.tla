---------------------------- MODULE AtomicReceiving ----------------------------
(***************************************************************************)
(* What purchasing promises (purchasing.service.ts and quick stock-in):     *)
(* every decision, edit and receipt happens at one instant.  An order is    *)
(* approved on the terms it has at that instant; what arrives does so while *)
(* its order is open, within the quantities ordered, under a new key and    *)
(* with identities nobody has; order, receipt, payable, identities and      *)
(* stock change together.  Nothing else changes them.  Purchasing           *)
(* implements it.                                                           *)
(***************************************************************************)
EXTENDS Integers, FiniteSets

CONSTANTS Orders, Keys, Devices,
          Terms, Contents, QuickBuys, DevicePrice,
          NoKey

VARIABLES purchase, \* orders: status, terms, terms approved, what came
          came,     \* receipts and payables, by key
          holder,   \* the receipt that brought each device
          stock     \* goods on hand

atomicVars == <<purchase, came, holder, stock>>

NoTerms == [goods |-> 0, cost |-> 0, devices |-> 0]
NoPurchase == [status |-> "none", terms |-> NoTerms, agreed |-> NoTerms,
               goods |-> 0, devices |-> 0]
NothingCame == [order |-> NoKey, goods |-> 0, devices |-> {}, owed |-> 0, paid |-> 0]

Init ==
  /\ purchase = [o \in Orders |-> NoPurchase]
  /\ came = [k \in Keys |-> NothingCame]
  /\ holder = [d \in Devices |-> NoKey]
  /\ stock = 0

-----------------------------------------------------------------------------
Create(o, t) ==
  /\ purchase[o].status = "none"
  /\ purchase' = [purchase EXCEPT ![o] = [NoPurchase EXCEPT !.status = "draft", !.terms = t]]
  /\ UNCHANGED <<came, holder, stock>>

Edit(o, t) ==
  /\ purchase[o].status = "draft"
  /\ purchase' = [purchase EXCEPT ![o].terms = t]
  /\ UNCHANGED <<came, holder, stock>>

\* The terms are those of this instant, not those of some earlier reading.
Approve(o) ==
  /\ purchase[o].status = "draft"
  /\ purchase' = [purchase EXCEPT ![o].status = "approved", ![o].agreed = purchase[o].terms]
  /\ UNCHANGED <<came, holder, stock>>

\* An order is placed once it is approved, cancelled while nothing came of it,
\* and closed when something did.
Decide(o, status) ==
  /\ \/ status = "ordered"   /\ purchase[o].status = "approved"
     \/ status = "cancelled" /\ purchase[o].status \in {"draft", "approved", "ordered"}
     \/ status = "closed"    /\ purchase[o].status \in {"partially_received", "received"}
  /\ purchase' = [purchase EXCEPT ![o].status = status]
  /\ UNCHANGED <<came, holder, stock>>

\* What an order is after some of it came.
After(p, goods, devices) ==
  [p EXCEPT !.goods = @ + goods, !.devices = @ + devices,
            !.status = IF p.goods + goods = p.terms.goods
                          /\ p.devices + devices = p.terms.devices
                       THEN "received" ELSE "partially_received"]

Receive(k, o, c) ==
  LET p     == purchase[o]
      count == Cardinality(c.devices)
  IN  /\ came[k] = NothingCame
      /\ p.status \in {"approved", "ordered", "partially_received"}
      /\ p.goods + c.goods <= p.terms.goods /\ p.devices + count <= p.terms.devices
      /\ \A d \in c.devices : holder[d] = NoKey
      /\ purchase' = [purchase EXCEPT ![o] = After(p, c.goods, count)]
      /\ came' = [came EXCEPT ![k] =
           [order |-> o, goods |-> c.goods, devices |-> c.devices,
            owed |-> c.goods * p.agreed.cost + count * DevicePrice, paid |-> 0]]
      /\ holder' = [d \in Devices |-> IF d \in c.devices THEN k ELSE holder[d]]
      /\ stock' = stock + c.goods

\* Bought and received at once, on an order that is made for it.
Buy(k, o, q) ==
  LET terms == [goods |-> q.goods, cost |-> q.cost, devices |-> 0]
  IN  /\ came[k] = NothingCame
      /\ purchase[o].status = "none"
      /\ purchase' = [purchase EXCEPT ![o] =
           [status |-> "received", terms |-> terms, agreed |-> terms,
            goods |-> q.goods, devices |-> 0]]
      /\ came' = [came EXCEPT ![k] =
           [order |-> o, goods |-> q.goods, devices |-> {},
            owed |-> q.goods * q.cost, paid |-> q.paid]]
      /\ UNCHANGED holder
      /\ stock' = stock + q.goods

Issue ==
  /\ stock > 0 /\ stock' = stock - 1
  /\ UNCHANGED <<purchase, came, holder>>

Next ==
  \/ \E o \in Orders :
       \/ \E t \in Terms : Create(o, t) \/ Edit(o, t)
       \/ Approve(o)
       \/ \E status \in {"ordered", "cancelled", "closed"} : Decide(o, status)
  \/ \E k \in Keys : /\ came[k] = NothingCame
                      /\ \E o \in Orders : \/ \E c \in Contents : Receive(k, o, c)
                                           \/ \E q \in QuickBuys : Buy(k, o, q)
  \/ Issue

Spec == Init /\ [][Next]_atomicVars
=============================================================================
