---------------------------- MODULE AtomicPosting ----------------------------
(***************************************************************************)
(* What posting a sale promises (sales.service.ts, post): a draft becomes a *)
(* posted sale at one instant, at which it was the version the client saw,  *)
(* every unit was on the shelf and in no posted sale, the idempotency key   *)
(* was new and the credit was within the limit; that instant sells the      *)
(* units and takes the next invoice number.  SalePosting implements it.     *)
(***************************************************************************)
EXTENDS Integers, FiniteSets

CONSTANTS Sales, Units,
          Cart,         \* the units on every sale, [Sales -> SUBSET Units]
          Keys,         \* idempotency keys
          Payments,     \* ways to pay, "credit" among them
          NotPosted,    \* stands for the request of a sale not posted
          CreditLimit,  \* credit sales the customer may have open
          MaxVersion    \* bound: drafts are edited up to this version

VARIABLES doc,      \* sales: status, version, the request that posted it, invoice
          shelf,    \* state of every unit
          invoices  \* number_sequences: the last invoice number given out

Requests == [sale: Sales, key: Keys, version: 1..MaxVersion, payments: Payments]

Posted(docs) == {s \in Sales : docs[s].status = "posted"}

\* Open receivables of the customer, one for every sale posted on credit.
Exposure(docs) == Cardinality({s \in Posted(docs) : docs[s].by.payments = "credit"})

Init ==
  /\ doc = [s \in Sales |-> [status |-> "draft", version |-> 1,
                             by |-> NotPosted, invoice |-> 0]]
  /\ shelf = [u \in Units |-> "available"]
  /\ invoices = 0

\* hold and replaceDraft.
Edit(s) ==
  /\ doc[s].status = "draft"
  /\ doc[s].version < MaxVersion
  /\ doc' = [doc EXCEPT ![s].version = @ + 1]
  /\ UNCHANGED <<shelf, invoices>>

Cancel(s) ==
  /\ doc[s].status = "draft"
  /\ doc' = [doc EXCEPT ![s].status = "cancelled", ![s].version = @ + 1]
  /\ UNCHANGED <<shelf, invoices>>

\* Staff take a unit off the shelf, or back from a customer, or put it there.
MoveUnit(u) ==
  /\ shelf' = [shelf EXCEPT ![u] = IF @ = "away" THEN "available" ELSE "away"]
  /\ UNCHANGED <<doc, invoices>>

Post(r) ==
  LET s == r.sale
  IN  /\ doc[s].status = "draft" /\ doc[s].version = r.version
      /\ \A u \in Cart[s] : shelf[u] = "available"
      /\ \A t \in Posted(doc) : doc[t].by.key # r.key /\ Cart[t] \cap Cart[s] = {}
      /\ r.payments = "credit" => Exposure(doc) < CreditLimit
      /\ doc' = [doc EXCEPT ![s] = [status |-> "posted", version |-> r.version + 1,
                                    by |-> r, invoice |-> invoices + 1]]
      /\ shelf' = [u \in Units |-> IF u \in Cart[s] THEN "sold" ELSE shelf[u]]
      /\ invoices' = invoices + 1

Next ==
  \/ \E s \in Sales : Edit(s) \/ Cancel(s)
  \/ \E u \in Units : MoveUnit(u)
  \/ \E r \in Requests : Post(r)

Spec == Init /\ [][Next]_<<doc, shelf, invoices>>
=============================================================================
