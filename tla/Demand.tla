-------------------------------- MODULE Demand --------------------------------
(***************************************************************************)
(* Customer demand: backend/src/modules/demand.                             *)
(*                                                                         *)
(* A request for an item is captured with the availability found at that    *)
(* time, is edited, moves through the statuses, gets follow-ups and may be  *)
(* linked to the posted sale that served it.  Every operation is one READ   *)
(* COMMITTED transaction that reads the request without a lock and ends in  *)
(* one guarded update, so each is two steps here.  A capture holds the      *)
(* advisory lock of its customer and item while it looks for earlier        *)
(* requests of the same kind: a repeat joins their group and does not count *)
(* towards the buying plan.                                                 *)
(*                                                                         *)
(* All requests are for one item and lie within the window that repeats are *)
(* looked for in.  Consent to be contacted, which the database checks on    *)
(* every row, and the dates of follow-ups are left out.                     *)
(***************************************************************************)
EXTENDS Integers

CONSTANTS Asks,         \* demand_requests rows
          Customers,
          ServedBy,     \* posted sales a request may be linked to
          DemandStaff,  \* requests being served at the same time
          NoAsk, NoCustomer, NoSale,
          Outcomes,     \* outcomes staff may record
          Targets,      \* statuses staff may set
          MaxAskVersion \* bound: how often a request is changed

\* DEMAND_OUTCOMES, without the one that linking a sale records.
DemandOutcomes == {"unknown", "reserved", "quotation_sent", "unavailable", "price_too_high",
                   "customer_postponed", "bought_elsewhere", "incompatible_requirement",
                   "invalid_or_fraudulent"}

ASSUME DemandAssumption ==
  /\ NoAsk \notin Asks /\ NoCustomer \notin Customers /\ NoSale \notin ServedBy
  /\ NoAsk \notin DemandStaff
  /\ Outcomes \subseteq DemandOutcomes
  /\ MaxAskVersion \in Nat

VARIABLES ask,         \* demand_requests with their item
          captureLock, \* advisory lock of a customer's captures
          task         \* what every member of staff is doing

demandVars == <<ask, captureLock, task>>

\* MANUAL_TRANSITIONS
MayMoveTo ==
  [new               |-> {"contacted", "sourcing", "available", "not_interested", "closed"},
   contacted         |-> {"sourcing", "available", "customer_notified", "not_interested", "closed"},
   sourcing          |-> {"contacted", "available", "customer_notified", "not_interested", "closed"},
   available         |-> {"contacted", "sourcing", "customer_notified", "not_interested", "closed"},
   customer_notified |-> {"contacted", "sourcing", "available", "not_interested", "closed"},
   converted_to_sale |-> {},
   not_interested    |-> {"closed"},
   closed            |-> {}]

AskStatuses == DOMAIN MayMoveTo

\* STATUS_OUTCOME_CONFLICTS
Conflicts(status) ==
  CASE status \in {"available", "customer_notified"} -> {"unavailable"}
    [] status = "not_interested"                     -> {"reserved", "quotation_sent"}
    [] OTHER                                         -> {}

\* `captured' is the customer named first; `relabelled' tells whether the
\* request was ever marked invalid or given to another customer.
NoDemand == [status |-> "none", outcome |-> "unknown", captured |-> NoCustomer,
             customer |-> NoCustomer, relabelled |-> FALSE, missed |-> FALSE,
             group |-> NoAsk, sale |-> NoSale, version |-> 0]

NoTask == [kind |-> "none", ask |-> NoAsk, row |-> NoDemand, version |-> 0]

DemandTypeOK ==
  /\ ask \in [Asks -> [status: AskStatuses \cup {"none"},
                       outcome: DemandOutcomes \cup {"sold_immediately"},
                       captured: Customers \cup {NoCustomer},
                       customer: Customers \cup {NoCustomer}, relabelled: BOOLEAN,
                       missed: BOOLEAN, group: Asks \cup {NoAsk},
                       sale: ServedBy \cup {NoSale}, version: Nat]]
  /\ captureLock \in [Customers -> DemandStaff \cup {NoAsk}]

DemandInit ==
  /\ ask = [a \in Asks |-> NoDemand]
  /\ captureLock = [c \in Customers |-> NoAsk]
  /\ task = [w \in DemandStaff |-> NoTask]

-----------------------------------------------------------------------------
(* Capturing.                                                               *)

Captured == {a \in Asks : ask[a].status # "none"}

\* qualified
Qualified(row) == row.missed /\ row.outcome # "invalid_or_fraudulent"

\* findDedupeGroup: the groups of the earlier requests for the same item.  The
\* code takes the latest one's, here it may be any of them.
GroupsOf(c) ==
  { IF ask[a].group = NoAsk THEN a ELSE ask[a].group :
      a \in {b \in Captured : ask[b].customer = c /\ Qualified(ask[b])} }

\* The row a capture will insert.
Capture(c, missed, group) ==
  [NoDemand EXCEPT !.status = "new", !.outcome = IF missed THEN "unavailable" ELSE "unknown",
                   !.captured = c, !.customer = c, !.missed = missed, !.group = group,
                   !.version = 1]

\* Fault: the lock is not taken.
StartCaptureUnlocked(w, a, c, missed) ==
  /\ task[w] = NoTask
  /\ ask[a].status = "none" /\ \A v \in DemandStaff : task[v].ask # a
  /\ \E group \in (IF missed /\ GroupsOf(c) # {} THEN GroupsOf(c) ELSE {NoAsk}) :
       task' = [task EXCEPT ![w] =
         [kind |-> "capture", ask |-> a, version |-> 0,
          row |-> Capture(c, missed, group)]]
  /\ UNCHANGED <<ask, captureLock>>

\* Only a request for something missing looks for earlier ones, under the lock.
StartCapture(w, a, c, missed) ==
  /\ task[w] = NoTask
  /\ ask[a].status = "none" /\ \A v \in DemandStaff : task[v].ask # a
  /\ IF missed THEN captureLock[c] = NoAsk /\ captureLock' = [captureLock EXCEPT ![c] = w]
     ELSE UNCHANGED captureLock
  /\ \E group \in (IF missed /\ GroupsOf(c) # {} THEN GroupsOf(c) ELSE {NoAsk}) :
       task' = [task EXCEPT ![w] =
         [kind |-> "capture", ask |-> a, version |-> 0,
          row |-> Capture(c, missed, group)]]
  /\ UNCHANGED ask

-----------------------------------------------------------------------------
(* Changing a request: what it will look like, if nobody changes it first.  *)

Prepare(w, a, row) ==
  /\ task[w] = NoTask
  /\ ask[a].version \in 1..MaxAskVersion
  /\ task' = [task EXCEPT ![w] =
       [kind |-> "change", ask |-> a, version |-> ask[a].version,
        row |-> [row EXCEPT !.version = @ + 1]]]
  /\ UNCHANGED <<ask, captureLock>>

\* update
StartUpdate(w, a, c) ==
  /\ ask[a].status \notin {"none", "converted_to_sale", "closed"}
  /\ Prepare(w, a, [ask[a] EXCEPT !.customer = c,
                                  !.relabelled = @ \/ c # ask[a].customer])

\* transition
StartTransition(w, a, status, outcome) ==
  /\ ask[a].status # "none" /\ status \in MayMoveTo[ask[a].status]
  /\ outcome \notin Conflicts(status)
  /\ Prepare(w, a, [ask[a] EXCEPT !.status = status, !.outcome = outcome,
                         !.relabelled = @ \/ outcome = "invalid_or_fraudulent"])

\* appendFollowUp
StartFollowUp(w, a) ==
  /\ ask[a].status \notin {"none", "closed", "converted_to_sale"}
  /\ Prepare(w, a, ask[a])

\* convert: no other request is linked to the sale, as far as one can see.
StartConvert(w, a, s) ==
  /\ ask[a].status \notin {"none", "converted_to_sale"}
  /\ \A b \in Asks \ {a} : ask[b].sale # s
  /\ Prepare(w, a, [ask[a] EXCEPT !.status = "converted_to_sale", !.sale = s,
                                  !.outcome = "sold_immediately"])

\* Fault: the version is not compared.
StillCurrentAlways(w) == TRUE

\* The guard of every update.
StillCurrent(w) == ask[task[w].ask].version = task[w].version

\* The guarded update, or a refusal that leaves no trace.
Finish(w) ==
  LET t == task[w]
  IN  /\ t # NoTask
      /\ ask' = IF StillCurrent(w) THEN [ask EXCEPT ![t.ask] = t.row] ELSE ask
      /\ task' = [task EXCEPT ![w] = NoTask]
      /\ captureLock' = [c \in Customers |-> IF captureLock[c] = w THEN NoAsk ELSE captureLock[c]]

DemandNext ==
  \E w \in DemandStaff :
    \/ \E a \in Asks, c \in Customers, missed \in BOOLEAN : StartCapture(w, a, c, missed)
    \/ \E a \in Asks, c \in Customers : StartUpdate(w, a, c)
    \/ \E a \in Asks, status \in Targets, outcome \in Outcomes :
         StartTransition(w, a, status, outcome)
    \/ \E a \in Asks : StartFollowUp(w, a)
    \/ \E a \in Asks, s \in ServedBy : StartConvert(w, a, s)
    \/ Finish(w)

DemandSpec == DemandInit /\ [][DemandNext]_demandVars

-----------------------------------------------------------------------------
(* Properties.                                                              *)

\* topUnmet and countsTowardForecast: what the buying plan counts.
Counts(a) == ask[a].status # "none" /\ Qualified(ask[a]) /\ ask[a].group = NoAsk

\* "Repeat requests are visible but forecast deduplication rules prevent
\* artificial inflation": a customer who asks again for the same item, even at
\* two counters at once, is counted once, as long as neither request was marked
\* invalid or given to somebody else meanwhile.
RepeatsCountOnce ==
  \A a, b \in Asks :
    /\ Counts(a) /\ ~ask[a].relabelled
    /\ Counts(b) /\ ~ask[b].relabelled
    /\ ask[a].captured = ask[b].captured
    => a = b

\* A closed request gets no follow-up, edit or other status any more, though
\* the change was begun while it was open; only a sale may still be linked to
\* it, and after that nothing changes.
ClosedRequestsRest ==
  [][ \A a \in Asks :
        /\ ask[a].status = "converted_to_sale" => ask'[a] = ask[a]
        /\ ask[a].status = "closed" =>
             ask'[a].status = "converted_to_sale" \/ ask'[a] = ask[a] ]_demandVars
=============================================================================
