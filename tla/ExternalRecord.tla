---------------------------- MODULE ExternalRecord ----------------------------
(***************************************************************************)
(* Recording money-service transactions: the page                           *)
(* frontend/src/components/digital/new-transaction-page.tsx with its state, *)
(* and record of backend/src/modules/external/external.service.ts.          *)
(*                                                                         *)
(* A cashier enters what a customer paid for (an errand) and submits it.    *)
(* The page makes an idempotency key for the first try, keeps it when a try *)
(* fails, and drops it after a success, when the cashier presses "record    *)
(* another", and when it is loaded anew.  The browser gives up after its    *)
(* timeout, while the call goes on at the server.  The server looks the key *)
(* up in the snapshot of a serializable transaction; a commit that meets    *)
(* the same key or a moved row (the number sequence, the cash session) goes *)
(* through the catch block, which looks the key up again and retries twice. *)
(*                                                                         *)
(* The page never overrides the fee, so overrides are left out.             *)
(***************************************************************************)
EXTENDS Integers, FiniteSets, Sums

CONSTANTS Errands,      \* what customers come for
          Entries,      \* what can be entered: type, principal, charge
          RecordKeys,   \* idempotency keys the page may make
          Calls,        \* requests under way at the same time
          FeeBlock,     \* amountBlockMinor
          FeePerBlock,  \* fee per started block, by transaction type
          MaxRetries,   \* how often the server repeats a failed attempt: twice
          NoKey, NoCall, NoErrand, NoEntry

CashIn  == {"money_send", "bank_transfer", "utility_bill", "mobile_load"}
CashOut == {"money_withdrawal"}

ASSUME ExternalAssumption ==
  /\ Entries \subseteq [type: CashIn \cup CashOut, principal: Nat \ {0}, charge: Nat]
  /\ FeeBlock \in Nat \ {0}
  /\ FeePerBlock \in [CashIn \cup CashOut -> Nat]
  /\ MaxRetries \in Nat
  /\ NoKey \notin RecordKeys /\ NoCall \notin Calls
  /\ NoErrand \notin Errands /\ NoEntry \notin Entries

VARIABLES row,       \* external_transactions, by request id
          books,     \* signed balances of the accounts, debits positive
          call,      \* requests and their answers
          page       \* the page

externalVars == <<row, books, call, page>>

NoRow == [entry |-> NoEntry, errand |-> NoErrand]
NoRequest == [pc |-> "idle", key |-> NoKey, entry |-> NoEntry, errand |-> NoErrand,
              tries |-> 0, answer |-> "none"]

\* `minted' and the last two are not the page's: the keys made so far, the
\* errands submitted under the held key whose outcome is not known, and those
\* whose key was dropped in that state.
FreshPage == [entry |-> NoEntry, errand |-> NoErrand, key |-> NoKey, waits |-> NoCall,
              message |-> "none", card |-> FALSE]
Entered == Entries \cup {NoEntry}

ExternalTypeOK ==
  /\ row \in [RecordKeys -> [entry: Entered, errand: Errands \cup {NoErrand}]]
  /\ books \in [settlement: Int, float: Int, revenue: Int, cost: Int]
  /\ call \in [Calls -> [pc: {"idle", "sent", "open", "answered"},
                         key: RecordKeys \cup {NoKey}, entry: Entered,
                         errand: Errands \cup {NoErrand}, tries: 0..MaxRetries,
                         answer: {"none", "saved", "KEY_REUSED", "refused"}]]
  /\ page.form \in [entry: Entered, errand: Errands \cup {NoErrand},
                    key: RecordKeys \cup {NoKey}, waits: Calls \cup {NoCall},
                    message: {"none", "nothing recorded", "failed"}, card: BOOLEAN]
  /\ page.minted \subseteq RecordKeys
  /\ page.unknown \subseteq Errands /\ page.dropped \subseteq Errands

ExternalInit ==
  /\ row = [k \in RecordKeys |-> NoRow]
  /\ books = [settlement |-> 0, float |-> 0, revenue |-> 0, cost |-> 0]
  /\ call = [c \in Calls |-> NoRequest]
  /\ page = [form |-> FreshPage, minted |-> {}, unknown |-> {}, dropped |-> {}]

-----------------------------------------------------------------------------
(* Money.                                                                   *)

\* computeExternalFeeMinor: every started block counts.
Fee(e) == ((e.principal + FeeBlock - 1) \div FeeBlock) * FeePerBlock[e.type]

\* computeCashImpactMinor
CashImpact(e) == IF e.type \in CashIn THEN e.principal + Fee(e) ELSE Fee(e) - e.principal

\* Fault: the provider's charge is set off against the fee.
LegsNetted(e) ==
  [settlement |-> CashImpact(e),
   float      |-> IF e.type \in CashIn THEN -(e.principal + e.charge) ELSE e.principal - e.charge,
   revenue    |-> e.charge - Fee(e),
   cost       |-> 0]

\* The ledger legs of one transaction.
Legs(e) ==
  [settlement |-> CashImpact(e),
   float      |-> IF e.type \in CashIn THEN -(e.principal + e.charge) ELSE e.principal - e.charge,
   revenue    |-> -Fee(e),
   cost       |-> e.charge]

Balanced(legs) == legs.settlement + legs.float + legs.revenue + legs.cost = 0

-----------------------------------------------------------------------------
(* The server.                                                              *)

\* An answer nobody waits for is not kept.
Reply(c, answer) ==
  call' = [call EXCEPT ![c] = IF page.form.waits = c
                                THEN [@ EXCEPT !.pc = "answered", !.answer = answer]
                                ELSE NoRequest]

\* Fault: the requests are not compared.
AnswerUsedAlways(c) == "saved"

\* A key that was used: the same request again, or another one?
AnswerUsed(c) == IF row[call[c].key].entry = call[c].entry THEN "saved" ELSE "KEY_REUSED"

Used(k) == row[k] # NoRow

\* The transaction begins: the key is looked up.
LookUp(c) ==
  /\ call[c].pc = "sent"
  /\ IF Used(call[c].key) THEN Reply(c, AnswerUsed(c))
     ELSE call' = [call EXCEPT ![c].pc = "open"]
  /\ UNCHANGED <<row, books, page>>

\* No permission any more, an account that is not configured, no cash session.
Refuse(c) ==
  /\ call[c].pc = "open"
  /\ Reply(c, "refused")
  /\ UNCHANGED <<row, books, page>>

\* The transaction and its ledger group are committed, unless the unique index
\* finds the key used since the lookup.
Commit(c) ==
  LET r == call[c]
  IN  /\ r.pc = "open"
      /\ IF Used(r.key) THEN Reply(c, AnswerUsed(c)) /\ UNCHANGED <<row, books>>
         ELSE IF ~Balanced(Legs(r.entry)) THEN Reply(c, "refused") /\ UNCHANGED <<row, books>>
         ELSE /\ row' = [row EXCEPT ![r.key] = [entry |-> r.entry, errand |-> r.errand]]
              /\ books' = [a \in DOMAIN books |-> books[a] + Legs(r.entry)[a]]
              /\ Reply(c, "saved")
      /\ UNCHANGED page

\* Fault: one retry too many.
RetriesLeftOneMore(c) == call[c].tries <= MaxRetries

RetriesLeft(c) == call[c].tries < MaxRetries

\* Another transaction moved a row this one needs (P2034): the attempt is
\* repeated, and refused as a conflict in the end.
Conflict(c) ==
  LET r == call[c]
  IN  /\ r.pc = "open"
      /\ IF Used(r.key) THEN Reply(c, AnswerUsed(c))
         ELSE IF RetriesLeft(c) THEN call' = [call EXCEPT ![c].pc = "sent", ![c].tries = @ + 1]
         ELSE Reply(c, "refused")
      /\ UNCHANGED <<row, books, page>>

\* The request is lost before it did anything.
Lose(c) ==
  /\ call[c].pc = "sent" /\ page.form.waits # c
  /\ call' = [call EXCEPT ![c] = NoRequest]
  /\ UNCHANGED <<row, books, page>>

-----------------------------------------------------------------------------
(* The page.                                                                *)

\* The errand's fields are entered or changed, at any time; the key stays.
\* A customer who was told that the transaction is recorded leaves.
Enter(n, e) ==
  /\ \A k \in page.minted : row[k].errand = n => n \in page.unknown \cup page.dropped
  /\ page' = [page EXCEPT !.form.entry = e, !.form.errand = n]
  /\ UNCHANGED <<row, books, call>>

\* Fault: every try gets a key of its own.
KeyForTry(k) == k \notin page.minted

\* recordExternalTransaction: the held key, or a new one.
KeyFor(k) == IF page.form.key = NoKey THEN k \notin page.minted ELSE k = page.form.key

SubmitEntry(c, k) ==
  /\ page.form.waits = NoCall /\ page.form.entry # NoEntry
  /\ call[c] = NoRequest
  /\ KeyFor(k)
  /\ page' = [page EXCEPT !.form.key = k, !.form.waits = c, !.form.message = "none",
                          !.minted = @ \cup {k}, !.unknown = @ \cup {page.form.errand}]
  /\ call' = [call EXCEPT ![c] = [NoRequest EXCEPT !.pc = "sent", !.key = k,
                                    !.entry = page.form.entry, !.errand = page.form.errand]]
  /\ UNCHANGED <<row, books>>

\* The answer comes in time.
Receive(c) ==
  LET r == call[c]
  IN  /\ page.form.waits = c /\ r.pc = "answered"
      /\ page' =
           IF r.answer = "saved"
             THEN [page EXCEPT !.form = [FreshPage EXCEPT !.card = TRUE],
                               !.unknown = {},
                               !.dropped = @ \cup (page.unknown \ {r.errand})]
             ELSE [page EXCEPT !.form.waits = NoCall, !.form.message = "failed"]
      /\ call' = [call EXCEPT ![c] = NoRequest]
      /\ UNCHANGED <<row, books>>

\* NETWORK_ERROR or REQUEST_TIMEOUT, whatever becomes of the request.
GiveUp ==
  /\ page.form.waits # NoCall
  /\ page' = [page EXCEPT !.form.waits = NoCall, !.form.message = "nothing recorded"]
  /\ call' = [c \in Calls |-> IF call[c].pc = "answered" THEN NoRequest ELSE call[c]]
  /\ UNCHANGED <<row, books>>

Drop(form) ==
  page' = [page EXCEPT !.form = form, !.unknown = {}, !.dropped = @ \cup page.unknown]

\* "Record another" clears the key and the card, not the fields.
RecordAnother ==
  /\ page.form.card
  /\ Drop([page.form EXCEPT !.key = NoKey, !.card = FALSE])
  /\ UNCHANGED <<row, books, call>>

Reload ==
  /\ Drop(FreshPage)
  /\ call' = [c \in Calls |-> IF call[c].pc = "answered" THEN NoRequest ELSE call[c]]
  /\ UNCHANGED <<row, books>>

ExternalNext ==
  \/ \E c \in Calls :
       \/ LookUp(c) \/ Refuse(c) \/ Commit(c) \/ Conflict(c) \/ Lose(c) \/ Receive(c)
       \/ \E k \in RecordKeys : SubmitEntry(c, k)
  \/ \E n \in Errands, e \in Entries : Enter(n, e)
  \/ GiveUp \/ RecordAnother \/ Reload

ExternalSpec == ExternalInit /\ [][ExternalNext]_externalVars

-----------------------------------------------------------------------------
(* Properties.                                                              *)

RowsOf(n) == {k \in RecordKeys : row[k].errand = n}

\* However often a try is repeated after an uncertain answer, however late its
\* earlier tries arrive, and whatever is entered in between, an errand is
\* recorded once, unless its key was dropped before its outcome was known.
RetriesRecordOnce ==
  \A n \in Errands \ page.dropped : Cardinality(RowsOf(n)) <= 1

\* Whoever is answered that a transaction is saved finds exactly what was sent
\* recorded under its key, and whoever is answered that the key was used before
\* finds something else there.
SavedAsSent ==
  \A c \in Calls :
    LET r == call[c]
    IN  /\ r.answer = "saved"      => row[r.key].entry = r.entry
        /\ r.answer = "KEY_REUSED" => Used(r.key) /\ row[r.key].entry # r.entry

\* The reports agree with the ledger: commission with the revenue and cost
\* accounts, the providers' net movement with the float, the drawer impact
\* with the account the customers' money went to.
BooksMatchReports ==
  LET recorded == {k \in RecordKeys : Used(k)}
      grossFee == [k \in recorded |-> Fee(row[k].entry)]
      charge   == [k \in recorded |-> row[k].entry.charge]
      movement == [k \in recorded |-> LET e == row[k].entry
                                      IN  IF e.type \in CashIn THEN -e.principal
                                          ELSE e.principal]
      impact   == [k \in recorded |-> CashImpact(row[k].entry)]
  IN  /\ SumOver(grossFee, recorded) = -books.revenue
      /\ SumOver(charge, recorded) = books.cost
      /\ SumOver(movement, recorded) - books.cost = books.float
      /\ SumOver(impact, recorded) = books.settlement

\* "... could not be reached, so nothing was recorded", "... did not respond in
\* time, so nothing was recorded."
NothingRecordedIsTrue ==
  page.form.message = "nothing recorded" /\ page.form.key # NoKey => ~Used(page.form.key)
=============================================================================
