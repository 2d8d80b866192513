----------------------------- MODULE MCBackOffice -----------------------------
(***************************************************************************)
(* Small instances of the components that share no state, checked side by   *)
(* side: every behaviour is one of one of them.                             *)
(***************************************************************************)
EXTENDS Inventory, Demand, ExternalRecord, StockInBatch, Counter, CategoryTree, LoginLimits, TLC

CONSTANTS l1, l2, w1, w2, i1, i2, i3, k1, k2

VARIABLE part  \* the component this behaviour is one of

MCEntries == {[type |-> "money_send", principal |-> 3, charge |-> 1],
              [type |-> "money_withdrawal", principal |-> 2, charge |-> 1]}

MCFeePerBlock == [t \in CashIn \cup CashOut |->
                    IF t \in {"money_send", "money_withdrawal"} THEN 1 ELSE 0]

\* Of the three categories and accounts the first two are interchangeable.
MCSymmetry == Permutations({w1, w2}) \cup Permutations({i1, i2})
              \cup Permutations({k1, k2})

\* Two deliveries of a batch overlap only while it has one row, two postings
\* only while no review is under way.
MCBound ==
  /\ (\A b \in Batches : batchCall[b].pc # "idle") =>
       Len(form.page.rows) <= 1 /\ \A b \in Batches : Len(batchCall[b].rows) <= 1
  /\ (\A p \in Postings : posting[p].pc # "idle") =>
       \A v \in Reviews : reviewing[v].pc = "idle"

MCInit ==
  /\ part \in {"stock", "demand", "external", "stock in", "counter", "catalog", "login"}
  /\ part # "stock" => unit = [u \in Units |-> [state |-> "available", loc |-> l1]]
  /\ StockInit /\ DemandInit /\ ExternalInit /\ StockInInit /\ CounterInit /\ TreeInit
  /\ LimitsInit

MCNext ==
  \/ /\ part = "stock" /\ StockNext
     /\ UNCHANGED <<part, demandVars, externalVars, stockInVars, counterVars, treeVars, limitVars>>
  \/ /\ part = "demand" /\ DemandNext
     /\ UNCHANGED <<part, stockVars, externalVars, stockInVars, counterVars, treeVars, limitVars>>
  \/ /\ part = "external" /\ ExternalNext
     /\ UNCHANGED <<part, stockVars, demandVars, stockInVars, counterVars, treeVars, limitVars>>
  \/ /\ part = "stock in" /\ StockInNext
     /\ UNCHANGED <<part, stockVars, demandVars, externalVars, counterVars, treeVars, limitVars>>
  \/ /\ part = "counter" /\ CounterNext
     /\ UNCHANGED <<part, stockVars, demandVars, externalVars, stockInVars, treeVars, limitVars>>
  \/ /\ part = "catalog" /\ TreeNext
     /\ UNCHANGED <<part, stockVars, demandVars, externalVars, stockInVars, counterVars, limitVars>>
  \/ /\ part = "login" /\ LimitsNext
     /\ UNCHANGED <<part, stockVars, demandVars, externalVars, stockInVars, counterVars, treeVars>>

\* Every component's state is of the shape its module declares.
MCTypeOK ==
  /\ StockTypeOK /\ DemandTypeOK /\ ExternalTypeOK /\ StockInTypeOK /\ CounterTypeOK
  /\ CategoryTypeOK /\ LimitsTypeOK

MCSpec == MCInit /\ [][MCNext]_<<part, stockVars, demandVars, externalVars, stockInVars,
                                counterVars, treeVars, limitVars>>
=============================================================================
