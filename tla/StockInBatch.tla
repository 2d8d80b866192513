----------------------------- MODULE StockInBatch -----------------------------
(***************************************************************************)
(* Receiving many rows of stock in one request: the bulk and the barcode    *)
(* page (frontend, bulk-stock-in-page.tsx and barcode-stock-in-page.tsx)    *)
(* and the bulk-stock-in service.                                           *)
(*                                                                         *)
(* The service receives the rows one after the other, each in a quick       *)
(* stock-in of its own under a key derived from the batch's key and the     *)
(* row's place: a refused row is noted and the next one tried, an           *)
(* unexpected fault ends the request, and what was received stays.  The     *)
(* browser gives up after its timeout while the service goes on.  The page  *)
(* keeps the batch's key from the first submission until an edit, a success *)
(* or a reset drops it.  A barcode scan drops it when it starts and changes *)
(* the rows when the lookup answers, which may be after a submission.       *)
(*                                                                         *)
(* One quick stock-in is one step: Purchasing takes it apart.  Of a row     *)
(* only the quantity is kept.  A row's `id' is not the page's; it tells     *)
(* rows apart.                                                              *)
(***************************************************************************)
EXTENDS Integers, FiniteSets, Sequences

CONSTANTS BatchKeys,     \* idempotency keys the page may make
          Batches,       \* requests under way at the same time
          NoBatchKey, NoBatch,
          MaxRows,       \* rows of a form
          MaxQuantity,
          MaxRowIds      \* bound: rows ever entered

ASSUME StockInAssumption ==
  /\ NoBatchKey \notin BatchKeys /\ NoBatch \notin Batches
  /\ MaxRows \in Nat \ {0} /\ MaxQuantity \in Nat \ {0} /\ MaxRowIds \in Nat

VARIABLES received, \* what each row key brought
          batchCall,\* the requests and their answers
          form,     \* the page
          doubtful  \* not the page's: rows whose key was dropped too early

stockInVars == <<received, batchCall, form, doubtful>>

Places == 1..MaxRows
Row    == [id: 1..MaxRowIds, quantity: 1..MaxQuantity]
FormRows == UNION {[1..n -> Row] : n \in 0..MaxRows}

Nothing == [id |-> 0, quantity |-> 0]
NoCallYet == [pc |-> "idle", key |-> NoBatchKey, rows |-> <<>>, results |-> <<>>]

\* Beside the page, `form' holds the keys made, the rows submitted under the
\* held key, and the number of rows entered.
FreshForm == [rows |-> <<>>, key |-> NoBatchKey, waits |-> NoBatch, scanning |-> FALSE]

StockInTypeOK ==
  /\ received \in [BatchKeys -> [Places -> Row \cup {Nothing}]]
  /\ \A b \in Batches :
       /\ batchCall[b].pc \in {"idle", "running", "done", "fault"}
       /\ batchCall[b].key \in BatchKeys \cup {NoBatchKey}
       /\ batchCall[b].rows \in FormRows
       /\ batchCall[b].results \in Seq({"ok", "failed"})
       /\ Len(batchCall[b].results) <= Len(batchCall[b].rows)
  /\ form.page \in [rows: FormRows, key: BatchKeys \cup {NoBatchKey},
                    waits: Batches \cup {NoBatch}, scanning: BOOLEAN]
  /\ form.made \subseteq BatchKeys
  /\ form.sent \subseteq 1..MaxRowIds /\ form.entered \in 0..MaxRowIds
  /\ doubtful \subseteq 1..MaxRowIds

StockInInit ==
  /\ received = [k \in BatchKeys |-> [i \in Places |-> Nothing]]
  /\ batchCall = [b \in Batches |-> NoCallYet]
  /\ form = [page |-> FreshForm, made |-> {}, sent |-> {}, entered |-> 0]
  /\ doubtful = {}

-----------------------------------------------------------------------------
(* The service.                                                             *)

\* Fault: what the key brought is not compared with the row.
SameRowAlways(k, i, row) == received[k][i] # Nothing

\* A row key that was used for the same row is answered by what it brought.
SameRow(k, i, row) == received[k][i].quantity = row.quantity

\* rowIdempotencyKey
PlaceOf(i) == i

\* One row: brought now, brought earlier, or refused.
ServeRow(b) ==
  LET r   == batchCall[b]
      i   == Len(r.results) + 1
      at  == PlaceOf(i)
      Done(result) == batchCall' = [batchCall EXCEPT ![b].results = Append(@, result)]
  IN  /\ r.pc = "running" /\ i <= Len(r.rows)
      /\ \/ /\ received[r.key][at] = Nothing
            /\ received' = [received EXCEPT ![r.key][at] = r.rows[i]]
            /\ Done("ok")
         \/ /\ received[r.key][at] # Nothing
            /\ Done(IF SameRow(r.key, at, r.rows[i]) THEN "ok" ELSE "failed")
            /\ UNCHANGED received
         \/ /\ received[r.key][at] = Nothing
            /\ Done("failed")
            /\ UNCHANGED received
      /\ UNCHANGED <<form, doubtful>>

\* All rows are done, or an unexpected fault ends the request with a 500; the
\* page may have given up by then.
FinishBatch(b) ==
  LET r == batchCall[b]
  IN  /\ r.pc = "running"
      /\ batchCall' = [batchCall EXCEPT ![b] =
           IF form.page.waits # b THEN NoCallYet
           ELSE [r EXCEPT !.pc = IF Len(r.results) = Len(r.rows) THEN "done" ELSE "fault"]]
      /\ UNCHANGED <<received, form, doubtful>>

-----------------------------------------------------------------------------
(* The page.                                                                *)

\* dirtied: the key is dropped, whatever became of the request sent under it.
Dirtied(page) ==
  /\ form' = [form EXCEPT !.page = [page EXCEPT !.key = NoBatchKey], !.sent = {}]
  /\ doubtful' = doubtful \cup form.sent

\* A row that was just entered.
Fresh == [id |-> form.entered + 1, quantity |-> 1]
MayAdd == Len(form.page.rows) < MaxRows /\ form.entered < MaxRowIds

\* addRow, duplicateRow and applyPaste
AddRow ==
  /\ MayAdd
  /\ form' = [form EXCEPT !.page.rows = Append(@, Fresh), !.page.key = NoBatchKey,
                          !.sent = {}, !.entered = @ + 1]
  /\ doubtful' = doubtful \cup form.sent
  /\ UNCHANGED <<received, batchCall>>

\* updateRow and updateBatch
EditRow(i, q) ==
  /\ i <= Len(form.page.rows) /\ form.page.rows[i].quantity # q
  /\ Dirtied([form.page EXCEPT !.rows[i].quantity = q])
  /\ UNCHANGED <<received, batchCall>>

RemoveRow(i) ==
  /\ i <= Len(form.page.rows)
  /\ Dirtied([form.page EXCEPT !.rows =
       SubSeq(@, 1, i - 1) \o SubSeq(@, i + 1, Len(@))])
  /\ UNCHANGED <<received, batchCall>>

\* resolveScan up to the lookup ...
StartScan ==
  /\ ~form.page.scanning
  /\ Dirtied([form.page EXCEPT !.scanning = TRUE])
  /\ UNCHANGED <<received, batchCall>>

\* ... and after it: one more of a row, a new row, or nothing after an error.
\* The key is not dropped again.
FinishScan ==
  /\ form.page.scanning
  /\ \/ \E i \in 1..Len(form.page.rows) :
          /\ form.page.rows[i].quantity < MaxQuantity
          /\ form' = [form EXCEPT !.page.rows[i].quantity = @ + 1, !.page.scanning = FALSE]
     \/ /\ MayAdd
        /\ form' = [form EXCEPT !.page.rows = Append(@, Fresh), !.page.scanning = FALSE,
                                !.entered = @ + 1]
     \/ form' = [form EXCEPT !.page.scanning = FALSE]
  /\ UNCHANGED <<received, batchCall, doubtful>>

\* Fault: every submission gets a key of its own.
KeyForSubmission(k) == k \notin form.made

\* The held key, or a new one.
KeyOfBatch(k) == IF form.page.key = NoBatchKey THEN k \notin form.made ELSE k = form.page.key

\* submit
SubmitBatch(b, k) ==
  LET page == form.page
  IN  /\ page.waits = NoBatch /\ page.rows # <<>>
      /\ batchCall[b] = NoCallYet
      /\ KeyOfBatch(k)
      /\ batchCall' = [batchCall EXCEPT ![b] =
           [pc |-> "running", key |-> k, rows |-> page.rows, results |-> <<>>]]
      /\ form' = [form EXCEPT !.page.key = k, !.page.waits = b,
                              !.made = @ \cup {k},
                              !.sent = @ \cup {page.rows[i].id : i \in DOMAIN page.rows}]
      /\ UNCHANGED <<received, doubtful>>

\* onSuccess and the reset after it: the results are on the screen, then the
\* page starts anew, with rows of its own.
ShowResults(b) ==
  /\ form.page.waits = b /\ batchCall[b].pc = "done"
  /\ form' = [form EXCEPT !.page = [FreshForm EXCEPT !.scanning = form.page.scanning],
                          !.sent = {}]
  /\ batchCall' = [batchCall EXCEPT ![b] = NoCallYet]
  /\ UNCHANGED <<received, doubtful>>

\* onError after a fault: the page says that nothing was received, and keeps the
\* key.
ShowFault(b) ==
  /\ form.page.waits = b /\ batchCall[b].pc = "fault"
  /\ form' = [form EXCEPT !.page.waits = NoBatch]
  /\ batchCall' = [batchCall EXCEPT ![b] = NoCallYet]
  /\ UNCHANGED <<received, doubtful>>

\* REQUEST_TIMEOUT, "Retry safely": the service goes on.
TimeOut ==
  /\ form.page.waits # NoBatch
  /\ form' = [form EXCEPT !.page.waits = NoBatch]
  /\ batchCall' = [b \in Batches |-> IF batchCall[b].pc = "running" THEN batchCall[b]
                                     ELSE NoCallYet]
  /\ UNCHANGED <<received, doubtful>>

StockInNext ==
  \/ \E b \in Batches :
       \/ ServeRow(b) \/ FinishBatch(b) \/ ShowResults(b) \/ ShowFault(b)
       \/ \E k \in BatchKeys : SubmitBatch(b, k)
  \/ AddRow \/ StartScan \/ FinishScan \/ TimeOut
  \/ \E i \in Places : RemoveRow(i) \/ \E q \in 1..MaxQuantity : EditRow(i, q)

StockInSpec == StockInInit /\ [][StockInNext]_stockInVars

-----------------------------------------------------------------------------
(* Properties.                                                              *)

\* "Retry safely - the same request key prevents a duplicate receipt": a row is
\* received once, however often its batch is sent again, its deliveries overlap
\* or a scan changes the rows meanwhile, unless an edit dropped the key while
\* the outcome was not known.
RowsReceivedOnce ==
  \A id \in (1..MaxRowIds) \ doubtful :
    Cardinality({ki \in BatchKeys \X Places : received[ki[1]][ki[2]].id = id}) <= 1

\* A row that is answered with ok was received, by this delivery or an earlier
\* one, in the quantity that was sent.
OkRowsAreReceived ==
  \A b \in Batches : \A i \in 1..Len(batchCall[b].results) :
    batchCall[b].results[i] = "ok" =>
      /\ received[batchCall[b].key][i].id = batchCall[b].rows[i].id
      /\ received[batchCall[b].key][i].quantity = batchCall[b].rows[i].quantity
=============================================================================
