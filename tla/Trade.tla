--------------------------------- MODULE Trade ---------------------------------
(***************************************************************************)
(* What a branch promises the people it trades with, without documents,     *)
(* statuses, ledgers or receivables: what is sold leaves the free stock and *)
(* is in one customer's hands, it costs its list price less one discount,   *)
(* it is paid for at once or owed within the credit limit, and whoever      *)
(* brings something back gets what he is charged less for what he keeps,    *)
(* first off his debt and then in cash.  Returns implements this module.    *)
(***************************************************************************)
EXTENDS Integers, Sums

CONSTANTS Sales, Units, Goods, Locations, Price, Discounts, CreditLimit

Items == Units \cup {Goods}

VARIABLES deal,   \* per sale and item: the quantity and the price agreed on
          hold,   \* per sale and item: what the customer has of it
          stock,  \* per location: the goods free to be sold
          cash,   \* what the branch took in less what it paid out
          owes    \* per sale: what the customer owes for it

tradeVars == <<deal, hold, stock, cash, owes>>

Nothing == [i \in Items |-> 0]
Worth(lines) == SumOver(lines, Items)

Init ==
  /\ deal = [s \in Sales |-> [qty |-> Nothing, total |-> Nothing]]
  /\ hold = [s \in Sales |-> Nothing]
  /\ stock \in [Locations -> Nat]
  /\ cash = 0
  /\ owes = [s \in Sales |-> 0]

\* Goods leave and enter the free stock of one location.
Taken(q) ==
  IF q = 0 THEN stock' = stock
  ELSE \E l \in Locations : q <= stock[l] /\ stock' = [stock EXCEPT ![l] = @ - q]

PutBack(q) ==
  IF q = 0 THEN stock' = stock
  ELSE \E l \in Locations : stock' = [stock EXCEPT ![l] = @ + q]

\* The list price less one of the discounts, shared out to the last unit of
\* money, and no line below nothing or above its list price.
Priced(line) ==
  LET list == [i \in Items |-> Price[i] * line.qty[i]]
  IN  /\ \A i \in Items : 0 <= line.total[i] /\ line.total[i] <= list[i]
      /\ \E d \in Discounts : Worth(line.total) = Worth(list) - d

\* Whatever a customer gets was free: goods from the stock, a unit from
\* nobody's hands.
Sell(s) ==
  /\ deal[s].qty = Nothing
  /\ \E i \in Items : deal'[s].qty[i] > 0
  /\ \A u \in Units : deal'[s].qty[u] > 0 =>
       deal'[s].qty[u] = 1 /\ \A t \in Sales : hold[t][u] = 0
  /\ Priced(deal'[s])
  /\ Taken(deal'[s].qty[Goods])
  /\ 0 <= owes'[s] /\ owes'[s] <= Worth(deal'[s].total)
  /\ owes'[s] > 0 => SumOver(owes', Sales) <= CreditLimit
  /\ deal' = [deal EXCEPT ![s] = deal'[s]]
  /\ owes' = [owes EXCEPT ![s] = owes'[s]]
  /\ hold' = [hold EXCEPT ![s] = deal'[s].qty]
  /\ cash' = cash + (Worth(deal'[s].total) - owes'[s])

\* What a customer is charged who keeps this much of every line: the price
\* less the share of what is back, rounded down once.
Charge(line, kept) ==
  [i \in Items |->
     IF line.qty[i] = 0 THEN 0
     ELSE line.total[i] - (line.total[i] * (line.qty[i] - kept[i])) \div line.qty[i]]

TakeBack(s) ==
  LET refund == Worth(Charge(deal[s], hold[s])) - Worth(Charge(deal[s], hold'[s]))
      credit == IF refund < owes[s] THEN refund ELSE owes[s]
  IN  /\ \A i \in Items : 0 <= hold'[s][i] /\ hold'[s][i] <= hold[s][i]
      /\ hold'[s] # hold[s]
      /\ hold' = [hold EXCEPT ![s] = hold'[s]]
      /\ PutBack(hold[s][Goods] - hold'[s][Goods])
      /\ owes' = [owes EXCEPT ![s] = @ - credit]
      /\ cash' = cash - (refund - credit)
      /\ deal' = deal

\* Goods are received, moved, reserved and written off.
Supply ==
  /\ stock' \in [Locations -> Nat]
  /\ UNCHANGED <<deal, hold, cash, owes>>

Next ==
  \/ Supply
  \/ \E s \in Sales : Sell(s) \/ TakeBack(s)

Spec == Init /\ [][Next]_tradeVars
=============================================================================
