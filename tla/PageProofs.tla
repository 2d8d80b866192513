----------------------------- MODULE PageProofs -----------------------------
(***************************************************************************)
(* Proofs about the pages of the frontend that send again what they got no   *)
(* answer for, each with its service: external transactions, the counter and *)
(* the receipt of many rows of stock.  The three share no state.             *)
(***************************************************************************)
EXTENDS ExternalRecord, Counter, StockInBatch, SumProofs, TLAPS, FiniteSetTheorems,
        SequenceTheorems


-----------------------------------------------------------------------------
(* External transactions: ExternalRecord.                                   *)

Keyed == RecordKeys \cup {NoKey}
Named == Errands \cup {NoErrand}

\* The types of rows, requests and the page.
RowType == [entry: Entered, errand: Named]
BooksType == [settlement: Int, float: Int, revenue: Int, cost: Int]
CallType ==
  [pc: {"idle", "sent", "open", "answered"}, key: Keyed, entry: Entered, errand: Named,
   tries: 0..MaxRetries, answer: {"none", "saved", "KEY_REUSED", "refused"}]
FormType ==
  [entry: Entered, errand: Named, key: Keyed, waits: Calls \cup {NoCall},
   message: {"none", "nothing recorded", "failed"}, card: BOOLEAN]
PageType ==
  [form: FormType, minted: SUBSET RecordKeys, unknown: SUBSET Errands,
   dropped: SUBSET Errands]

ExternalTypes ==
  /\ row \in [RecordKeys -> RowType]
  /\ books \in BooksType
  /\ call \in [Calls -> CallType]
  /\ page \in PageType

\* A row is there in full or not at all, and was sent under a key of the page.
RowOK(k) ==
  IF Used(k) THEN row[k].entry \in Entries /\ row[k].errand \in Errands /\ k \in page.minted
  ELSE row[k] = NoRow

\* A request carries what was entered, under a key of the page; its answer
\* tells what is recorded under that key.
CallOK(c) ==
  LET r == call[c]
  IN  /\ r.pc # "idle" => r.entry \in Entries /\ r.errand \in Errands /\ r.key \in page.minted
      /\ r.pc # "answered" => r.answer = "none"
      /\ r.answer = "saved" => row[r.key].entry = r.entry
      /\ r.answer = "KEY_REUSED" => Used(r.key) /\ row[r.key].entry # r.entry

\* The page holds a key it made, and waits for a request under it, unless the
\* key was dropped meanwhile.
PageOK ==
  /\ page.form.key \in page.minted \cup {NoKey}
  /\ page.form.entry # NoEntry => page.form.entry \in Entries /\ page.form.errand \in Errands
  /\ page.form.waits # NoCall =>
       page.form.key \in {NoKey, call[page.form.waits].key}

\* An errand that is recorded under a key, or may still be.
Pending(n, k) ==
  \E c \in Calls : /\ call[c].pc \in {"sent", "open"}
                   /\ call[c].key = k /\ call[c].errand = n
LiveUnder(n, k) == IF Used(k) THEN row[k].errand = n ELSE Pending(n, k)

\* Either its outcome is not known and the page holds the key, or it is
\* recorded, and not entered again.
Held(n, k)    == page.form.key = k /\ n \in page.unknown
Settled(n, k) == Used(k) /\ n \notin page.unknown /\ page.form.errand # n

ErrandOK(n) ==
  n \notin page.dropped =>
    /\ \A k \in RecordKeys : LiveUnder(n, k) => Held(n, k) \/ Settled(n, k)
    /\ \A k, l \in RecordKeys : LiveUnder(n, k) /\ LiveUnder(n, l) => k = l

\* The inductive invariant.
ExternalInv ==
  /\ ExternalTypes
  /\ \A k \in RecordKeys : RowOK(k)
  /\ \A c \in Calls : CallOK(c)
  /\ PageOK
  /\ \A n \in Errands : ErrandOK(n)

-----------------------------------------------------------------------------
\* An idle call is a call.
LEMMA NoRequestTyped == NoRequest \in CallType
BY ExternalAssumption DEF NoRequest, CallType, Keyed, Named, Entered, ExternalAssumption

\* The page before the first entry is a page.
LEMMA FreshPageTyped == FreshPage \in FormType
BY DEF FreshPage, FormType, Keyed, Named, Entered

\* What an errand is exposed to only shrinks while rows and page stay and no
\* request is new.
LEMMA ErrandsKept ==
  ASSUME NEW n \in Errands, ErrandOK(n), row' = row, page' = page,
         \A c \in Calls : call'[c].pc \in {"sent", "open"} =>
           /\ call[c].pc \in {"sent", "open"}
           /\ call'[c].key = call[c].key /\ call'[c].errand = call[c].errand
  PROVE  ErrandOK(n)'
<1>1. \A k \in RecordKeys : LiveUnder(n, k)' => LiveUnder(n, k)
  BY DEF LiveUnder, Pending, Used
<1>2. \A k \in RecordKeys : Held(n, k)' = Held(n, k) /\ Settled(n, k)' = Settled(n, k)
  BY DEF Held, Settled, Used
<1> QED BY <1>1, <1>2 DEF ErrandOK

\* A server step that writes no row.
LEMMA CallStep ==
  ASSUME ExternalInv, NEW c \in Calls, NEW new \in CallType,
         call' = [call EXCEPT ![c] = new], UNCHANGED <<row, books, page>>,
         \/ new = NoRequest /\ page.form.waits # c
         \/ /\ call[c].pc \in {"sent", "open"} /\ new.pc # "idle"
            /\ new.key = call[c].key /\ new.entry = call[c].entry
            /\ new.errand = call[c].errand
            /\ new.pc # "answered" => new.answer = "none"
            /\ new.answer = "saved" => row[new.key].entry = new.entry
            /\ new.answer = "KEY_REUSED" => Used(new.key) /\ row[new.key].entry # new.entry
  PROVE  ExternalInv'
<1>1. ExternalTypes /\ ExternalTypes'
  BY DEF ExternalInv, ExternalTypes
<1>2. call'[c] = new /\ \A d \in Calls \ {c} : call'[d] = call[d]
  BY <1>1 DEF ExternalTypes
<1>3. \A k \in RecordKeys : RowOK(k)'
  BY DEF ExternalInv, RowOK, Used
<1>4. \A d \in Calls : CallOK(d)'
  BY <1>2 DEF ExternalInv, CallOK, Used, NoRequest
<1>5. PageOK'
  <2>1. \A d \in Calls : page.form.waits = d => call'[d].key = call[d].key
    BY <1>2
  <2>2. page.form.waits \in Calls \cup {NoCall}
    BY <1>1 DEF ExternalTypes, PageType, FormType
  <2> QED BY <2>1, <2>2 DEF ExternalInv, PageOK
<1>6. \A n \in Errands : ErrandOK(n)'
  <2>1. \A d \in Calls : call'[d].pc \in {"sent", "open"} =>
          /\ call[d].pc \in {"sent", "open"}
          /\ call'[d].key = call[d].key /\ call'[d].errand = call[d].errand
    BY <1>2 DEF NoRequest
  <2> QED BY <2>1, ErrandsKept DEF ExternalInv
<1> QED BY <1>1, <1>3, <1>4, <1>5, <1>6 DEF ExternalInv

\* What a reply makes of a request.
LEMMA ReplyRow ==
  ASSUME ExternalTypes, NEW c \in Calls,
         NEW answer \in {"saved", "KEY_REUSED", "refused"}, Reply(c, answer)
  PROVE  \E new \in CallType :
           /\ call' = [call EXCEPT ![c] = new]
           /\ \/ new = NoRequest /\ page.form.waits # c
              \/ /\ new.pc = "answered" /\ new.answer = answer
                 /\ new.key = call[c].key /\ new.entry = call[c].entry
                 /\ new.errand = call[c].errand
<1>1. CASE page.form.waits # c
  BY <1>1, NoRequestTyped DEF Reply
<1>2. CASE page.form.waits = c
  <2>1. PICK old \in CallType : old = call[c]
    BY DEF ExternalTypes
  <2>2. PICK new : new = [old EXCEPT !.pc = "answered", !.answer = answer]
    OBVIOUS
  <2>3. /\ new.pc = "answered" /\ new.answer = answer
        /\ new.key = old.key /\ new.entry = old.entry /\ new.errand = old.errand
        /\ new \in CallType
    BY <2>2 DEF CallType
  <2>4. call' = [call EXCEPT ![c] = new]
    BY <1>2, <2>1, <2>2 DEF Reply, ExternalTypes
  <2> QED BY <2>1, <2>3, <2>4
<1> QED BY <1>1, <1>2

\* A reply is in order if it tells what is recorded.
LEMMA ReplyStep ==
  ASSUME ExternalInv, NEW c \in Calls,
         NEW answer \in {"saved", "KEY_REUSED", "refused"}, Reply(c, answer),
         call[c].pc \in {"sent", "open"},
         answer = "saved" => row[call[c].key].entry = call[c].entry,
         answer = "KEY_REUSED" =>
           Used(call[c].key) /\ row[call[c].key].entry # call[c].entry,
         UNCHANGED <<row, books, page>>
  PROVE  ExternalInv'
<1>1. PICK new \in CallType :
        /\ call' = [call EXCEPT ![c] = new]
        /\ \/ new = NoRequest /\ page.form.waits # c
           \/ /\ new.pc = "answered" /\ new.answer = answer
              /\ new.key = call[c].key /\ new.entry = call[c].entry
              /\ new.errand = call[c].errand
  BY ReplyRow DEF ExternalInv
<1> QED BY <1>1, CallStep

\* A row that was used under its key stays used: what a step that commits nothing keeps.
LEMMA UsedStep ==
  ASSUME ExternalInv, NEW c \in Calls, Reply(c, AnswerUsed(c)),
         call[c].pc \in {"sent", "open"}, Used(call[c].key),
         UNCHANGED <<row, books, page>>
  PROVE  ExternalInv'
<1>1. /\ AnswerUsed(c) \in {"saved", "KEY_REUSED", "refused"}
      /\ AnswerUsed(c) = "saved" => row[call[c].key].entry = call[c].entry
      /\ AnswerUsed(c) = "KEY_REUSED" => row[call[c].key].entry # call[c].entry
  BY DEF AnswerUsed
<1> QED BY <1>1, ReplyStep

\* Moving a request on, or sending it again, keeps the invariant.
LEMMA MoveStep ==
  ASSUME ExternalInv, NEW c \in Calls, call[c].pc \in {"sent", "open"},
         NEW pc \in {"sent", "open"}, NEW tries \in 0..MaxRetries,
         call' = [call EXCEPT ![c] = [call[c] EXCEPT !.pc = pc, !.tries = tries]],
         UNCHANGED <<row, books, page>>
  PROVE  ExternalInv'
<1>1. PICK old \in CallType : old = call[c]
  BY DEF ExternalInv, ExternalTypes
<1>2. PICK new : new = [old EXCEPT !.pc = pc, !.tries = tries]
  OBVIOUS
<1>3. /\ new.pc = pc /\ new.answer = old.answer
      /\ new.key = old.key /\ new.entry = old.entry /\ new.errand = old.errand
      /\ new \in CallType
  BY <1>2 DEF CallType
<1>4. old.answer = "none"
  BY <1>1 DEF ExternalInv, CallOK
<1>5. call' = [call EXCEPT ![c] = new]
  BY <1>1, <1>2
<1>6. /\ new.pc # "idle" /\ new.answer = "none"
      /\ new.key = call[c].key /\ new.entry = call[c].entry /\ new.errand = call[c].errand
  BY <1>1, <1>3, <1>4
<1>7. new \in CallType
  BY <1>3
<1> HIDE DEF ExternalInv
<1> QED BY <1>5, <1>6, <1>7, CallStep

\* Looking the key up keeps the invariant.
LEMMA LookUpStep ==
  ASSUME ExternalInv, NEW c \in Calls, LookUp(c)
  PROVE  ExternalInv'
<1>1. CASE Used(call[c].key)
  BY <1>1, UsedStep DEF LookUp
<1>2. CASE ~Used(call[c].key)
  <2>1. call[c].tries \in 0..MaxRetries /\ call[c] \in CallType
    BY DEF ExternalInv, ExternalTypes, CallType
  <2>2. [call[c] EXCEPT !.pc = "open"] = [call[c] EXCEPT !.pc = "open", !.tries = call[c].tries]
    BY <2>1 DEF CallType
  <2>3. call' = [call EXCEPT ![c] = [call[c] EXCEPT !.pc = "open"]]
    BY <1>2 DEF LookUp, ExternalInv, ExternalTypes
  <2> QED BY <2>1, <2>2, <2>3, MoveStep DEF LookUp
<1> QED BY <1>1, <1>2

\* Refusing a request keeps the invariant.
LEMMA RefuseStep ==
  ASSUME ExternalInv, NEW c \in Calls, Refuse(c)
  PROVE  ExternalInv'
BY ReplyStep DEF Refuse

\* A conflict between two deliveries of a key keeps the invariant.
LEMMA ConflictStep ==
  ASSUME ExternalInv, NEW c \in Calls, Conflict(c)
  PROVE  ExternalInv'
<1>1. CASE Used(call[c].key)
  BY <1>1, UsedStep DEF Conflict
<1>2. CASE ~Used(call[c].key) /\ RetriesLeft(c)
  <2>1. call[c].tries \in 0..MaxRetries /\ call[c].tries < MaxRetries
    BY <1>2 DEF ExternalInv, ExternalTypes, CallType, RetriesLeft
  <2>2. call[c].tries + 1 \in 0..MaxRetries
    BY <2>1, ExternalAssumption DEF ExternalAssumption
  <2>3. call' = [call EXCEPT ![c] = [call[c] EXCEPT !.pc = "sent", !.tries = call[c].tries + 1]]
    BY <1>2 DEF Conflict, ExternalInv, ExternalTypes, CallType
  <2> QED BY <2>2, <2>3, MoveStep DEF Conflict
<1>3. CASE ~Used(call[c].key) /\ ~RetriesLeft(c)
  BY <1>3, ReplyStep DEF Conflict
<1> QED BY <1>1, <1>2, <1>3

\* Losing a request or its answer keeps the invariant.
LEMMA LoseStep ==
  ASSUME ExternalInv, NEW c \in Calls, Lose(c)
  PROVE  ExternalInv'
BY NoRequestTyped, CallStep DEF Lose

-----------------------------------------------------------------------------
(* The commit.                                                              *)

\* The numbers an entry carries are integers.
LEMMA EntryNumbers ==
  ASSUME NEW e \in Entries
  PROVE  /\ Fee(e) \in Nat /\ CashImpact(e) \in Int
         /\ e.principal \in Nat /\ e.charge \in Nat
<1>1. e.principal \in Nat /\ e.charge \in Nat /\ FeePerBlock[e.type] \in Nat
      /\ FeeBlock \in Nat \ {0}
  BY ExternalAssumption DEF ExternalAssumption
<1> DEFINE blocks == (e.principal + FeeBlock - 1) \div FeeBlock
<1>2. blocks \in Nat
  BY <1>1
<1> HIDE DEF blocks
<1>3. blocks * FeePerBlock[e.type] \in Nat
  BY <1>1, <1>2
<1> QED BY <1>1, <1>3 DEF Fee, CashImpact, blocks

\* The balances after the legs of one transaction.
LEMMA BooksAfter ==
  ASSUME books \in BooksType, NEW e \in Entries,
         books' = [a \in DOMAIN books |-> books[a] + Legs(e)[a]]
  PROVE  /\ books' \in BooksType
         /\ books'.settlement = books.settlement + CashImpact(e)
         /\ books'.float = books.float + IF e.type \in CashIn THEN -(e.principal + e.charge)
                                         ELSE e.principal - e.charge
         /\ books'.revenue = books.revenue - Fee(e)
         /\ books'.cost = books.cost + e.charge
<1>1. /\ Fee(e) \in Nat /\ CashImpact(e) \in Int
      /\ e.principal \in Nat /\ e.charge \in Nat
  BY EntryNumbers
<1>2. DOMAIN books = {"settlement", "float", "revenue", "cost"}
  BY DEF BooksType
<1> DEFINE float == IF e.type \in CashIn THEN -(e.principal + e.charge)
                    ELSE e.principal - e.charge
<1>3. float \in Int
  BY <1>1
<1>4. /\ Legs(e).settlement = CashImpact(e) /\ Legs(e).float = float
      /\ Legs(e).revenue = -Fee(e) /\ Legs(e).cost = e.charge
  BY DEF Legs
<1> HIDE DEF float
<1>5. books' = [settlement |-> books.settlement + CashImpact(e),
                float |-> books.float + float, revenue |-> books.revenue - Fee(e),
                cost |-> books.cost + e.charge]
  BY <1>1, <1>2, <1>4 DEF BooksType
<1>6. /\ books.settlement \in Int /\ books.float \in Int
      /\ books.revenue \in Int /\ books.cost \in Int
  BY DEF BooksType
<1> QED BY <1>1, <1>3, <1>5, <1>6 DEF BooksType, float

\* An errand stays in order when its page stays and its live requests can only get fewer.
LEMMA ErrandsShrink ==
  ASSUME NEW n \in Errands, ErrandOK(n), page' = page,
         \A k \in RecordKeys : LiveUnder(n, k)' => LiveUnder(n, k),
         \A k \in RecordKeys : Used(k) => Used(k)'
  PROVE  ErrandOK(n)'
<1>1. \A k \in RecordKeys : /\ Held(n, k) => Held(n, k)'
                            /\ Settled(n, k) => Settled(n, k)'
  BY DEF Held, Settled
<1> QED BY <1>1 DEF ErrandOK

\* What a commit that writes changes.
LEMMA CommitWrites ==
  ASSUME ExternalInv, NEW c \in Calls, Commit(c), NEW r, r = call[c], ~Used(r.key),
         Balanced(Legs(r.entry))
  PROVE  /\ r.pc = "open" /\ r.key \in RecordKeys /\ r.entry \in Entries
         /\ r.errand \in Errands /\ r.key \in page.minted /\ r.entry # NoEntry
         /\ row[r.key] = NoRow
         /\ row'[r.key].entry = r.entry /\ row'[r.key].errand = r.errand
         /\ \A k \in RecordKeys \ {r.key} : row'[k] = row[k]
         /\ row' \in [RecordKeys -> RowType]
         /\ Used(r.key)'
         /\ books' = [a \in DOMAIN books |-> books[a] + Legs(r.entry)[a]]
         /\ Reply(c, "saved") /\ page' = page
<1>1. r.pc = "open" /\ page' = page
  BY DEF Commit
<1>2. r.entry \in Entries /\ r.errand \in Errands /\ r.key \in page.minted
  BY <1>1 DEF ExternalInv, CallOK
<1>3. r.key \in RecordKeys /\ row \in [RecordKeys -> RowType]
  BY <1>2 DEF ExternalInv, ExternalTypes, PageType
<1>4. row[r.key] = NoRow
  BY <1>3 DEF Used
<1>5. /\ row' = [row EXCEPT ![r.key] = [entry |-> r.entry, errand |-> r.errand]]
      /\ books' = [a \in DOMAIN books |-> books[a] + Legs(r.entry)[a]]
      /\ Reply(c, "saved")
  BY DEF Commit
<1>6. r.entry # NoEntry
  BY <1>2, ExternalAssumption DEF ExternalAssumption
<1>7. PICK made : made = [entry |-> r.entry, errand |-> r.errand]
  OBVIOUS
<1>8. made \in RowType /\ made # NoRow /\ made.entry = r.entry /\ made.errand = r.errand
  BY <1>2, <1>6, <1>7 DEF RowType, Entered, Named, NoRow
<1>9. /\ row'[r.key] = made /\ \A k \in RecordKeys \ {r.key} : row'[k] = row[k]
      /\ row' \in [RecordKeys -> RowType]
  BY <1>3, <1>5, <1>7, <1>8
<1>10. Used(r.key)'
  BY <1>8, <1>9 DEF Used
<1> QED BY <1>1, <1>2, <1>3, <1>4, <1>5, <1>6, <1>8, <1>9, <1>10

\* Recording a transaction keeps the invariant: its key was not used, so no
\* errand gets a second row.
LEMMA CommitStep ==
  ASSUME ExternalInv, NEW c \in Calls, Commit(c)
  PROVE  ExternalInv'
<1>0. PICK r : r = call[c]
  OBVIOUS
<1>1. CASE Used(r.key)
  BY <1>0, <1>1, UsedStep DEF Commit
<1>2. CASE ~Used(r.key) /\ ~Balanced(Legs(r.entry))
  BY <1>0, <1>2, ReplyStep DEF Commit
<1>3. CASE ~Used(r.key) /\ Balanced(Legs(r.entry))
  <2>1. /\ r.pc = "open" /\ r.key \in RecordKeys /\ r.entry \in Entries
        /\ r.errand \in Errands /\ r.key \in page.minted /\ r.entry # NoEntry
        /\ row[r.key] = NoRow
        /\ row'[r.key].entry = r.entry /\ row'[r.key].errand = r.errand
        /\ \A k \in RecordKeys \ {r.key} : row'[k] = row[k]
        /\ row' \in [RecordKeys -> RowType]
        /\ Used(r.key)'
        /\ books' = [a \in DOMAIN books |-> books[a] + Legs(r.entry)[a]]
        /\ Reply(c, "saved") /\ page' = page
    BY <1>0, <1>3, CommitWrites
  <2>2. PICK new \in CallType :
          /\ call' = [call EXCEPT ![c] = new]
          /\ \/ new = NoRequest /\ page.form.waits # c
             \/ /\ new.pc = "answered" /\ new.answer = "saved"
                /\ new.key = r.key /\ new.entry = r.entry /\ new.errand = r.errand
    BY <1>0, <2>1, ReplyRow DEF ExternalInv
  <2>3. call'[c] = new /\ \A d \in Calls \ {c} : call'[d] = call[d]
    BY <2>2 DEF ExternalInv, ExternalTypes
  <2>4. ExternalTypes'
    <3>1. books' \in BooksType
      BY <2>1, BooksAfter DEF ExternalInv, ExternalTypes
    <3> QED BY <2>1, <2>2, <3>1 DEF ExternalInv, ExternalTypes
  <2>5. \A k \in RecordKeys : RowOK(k)'
    <3>1. RowOK(r.key)'
      BY <2>1 DEF RowOK
    <3> QED BY <2>1, <3>1 DEF ExternalInv, RowOK, Used
  <2>6. \A d \in Calls : CallOK(d)'
    <3>1. CallOK(c)'
      BY <2>1, <2>2, <2>3 DEF CallOK, NoRequest
    <3>2. ASSUME NEW d \in Calls \ {c} PROVE CallOK(d)'
      <4>1. CallOK(d) /\ call'[d] = call[d]
        BY <2>3 DEF ExternalInv
      <4>2. call[d].answer \in {"saved", "KEY_REUSED"} =>
              call[d].key # r.key /\ call[d].key \in RecordKeys
        BY <2>1, <4>1, ExternalAssumption
        DEF CallOK, NoRow, Used, ExternalAssumption, ExternalInv, ExternalTypes, PageType,
            CallType
      <4> QED BY <2>1, <4>1, <4>2 DEF CallOK, Used
    <3> QED BY <3>1, <3>2
  <2>7. PageOK'
    <3>1. \A d \in Calls : page.form.waits = d => call'[d].key = call[d].key
      BY <1>0, <2>2, <2>3
    <3>2. page.form.waits \in Calls \cup {NoCall}
      BY DEF ExternalInv, ExternalTypes, PageType, FormType
    <3> QED BY <2>1, <3>1, <3>2 DEF ExternalInv, PageOK
  <2>8. ASSUME NEW n \in Errands PROVE ErrandOK(n)'
    <3>1. ASSUME NEW k \in RecordKeys, LiveUnder(n, k)' PROVE LiveUnder(n, k)
      <4>1. CASE k = r.key
        <5>1. r.errand = n
          BY <2>1, <3>1, <4>1 DEF LiveUnder
        <5>2. Pending(n, k)
          BY <1>0, <2>1, <4>1, <5>1 DEF Pending
        <5> QED BY <2>1, <4>1, <5>2 DEF LiveUnder, Used
      <4>2. CASE k # r.key
        <5>1. Pending(n, k)' => Pending(n, k)
          BY <2>2, <2>3 DEF Pending, NoRequest
        <5> QED BY <2>1, <3>1, <4>2, <5>1 DEF LiveUnder, Used
      <4> QED BY <4>1, <4>2
    <3>2. \A k \in RecordKeys : Used(k) => Used(k)'
      BY <2>1 DEF Used
    <3> QED BY <2>1, <3>1, <3>2, ErrandsShrink DEF ExternalInv
  <2> QED BY <2>4, <2>5, <2>6, <2>7, <2>8 DEF ExternalInv
<1> QED BY <1>1, <1>2, <1>3

-----------------------------------------------------------------------------
(* The page.                                                                *)

\* Rows stay, and requests stay or are forgotten.
LEMMA PageFrame ==
  ASSUME ExternalInv, UNCHANGED <<row, books>>, page.minted \subseteq page'.minted,
         \A c \in Calls : call'[c] = call[c] \/ call'[c] = NoRequest
  PROVE  /\ \A k \in RecordKeys : RowOK(k)'
         /\ \A c \in Calls : CallOK(c)'
         /\ \A n \in Errands, k \in RecordKeys : LiveUnder(n, k)' => LiveUnder(n, k)
<1>1. \A k \in RecordKeys : RowOK(k)'
  BY DEF ExternalInv, RowOK, Used
<1>2. \A c \in Calls : CallOK(c)'
  BY DEF ExternalInv, CallOK, Used, NoRequest
<1>3. \A n \in Errands, k \in RecordKeys : LiveUnder(n, k)' => LiveUnder(n, k)
  BY DEF LiveUnder, Pending, Used, NoRequest
<1> QED BY <1>1, <1>2, <1>3

\* The errands, when all that is known of them before still holds after.
LEMMA ErrandsHeld ==
  ASSUME NEW n \in Errands, page.dropped \subseteq page'.dropped, ErrandOK(n),
         \A k \in RecordKeys : LiveUnder(n, k)' => LiveUnder(n, k),
         n \notin page'.dropped =>
           \A k \in RecordKeys : LiveUnder(n, k) /\ (Held(n, k) \/ Settled(n, k)) =>
                                   Held(n, k)' \/ Settled(n, k)'
  PROVE  ErrandOK(n)'
BY DEF ErrandOK

EnteredIn(p, n, e) == [p EXCEPT !.form.entry = e, !.form.errand = n]

\* The page after an entry was typed in, field by field.
LEMMA EnteredPage ==
  ASSUME NEW p \in PageType, NEW n \in Errands, NEW e \in Entries, NEW q,
         q = EnteredIn(p, n, e)
  PROVE  /\ q \in PageType
         /\ q.form.entry = e /\ q.form.errand = n
         /\ q.form.key = p.form.key /\ q.form.waits = p.form.waits
         /\ q.minted = p.minted /\ q.unknown = p.unknown /\ q.dropped = p.dropped
<1>1. PICK f \in FormType : f = p.form
  BY DEF PageType
<1>2. PICK g : g = [f EXCEPT !.entry = e, !.errand = n]
  OBVIOUS
<1>3. g \in FormType /\ g.entry = e /\ g.errand = n /\ g.key = f.key /\ g.waits = f.waits
  BY <1>2 DEF FormType, Entered, Named
<1>4. q = [p EXCEPT !.form = g]
  BY <1>1, <1>2 DEF PageType, EnteredIn
<1>5. q \in PageType /\ q.form = g
      /\ q.minted = p.minted /\ q.unknown = p.unknown /\ q.dropped = p.dropped
  BY <1>3, <1>4 DEF PageType
<1> QED BY <1>1, <1>3, <1>5

\* Typing an entry in keeps the invariant.
LEMMA EnterStep ==
  ASSUME ExternalInv, NEW n \in Errands, NEW e \in Entries, Enter(n, e)
  PROVE  ExternalInv'
<1>1. /\ page' \in PageType
      /\ page'.form.entry = e /\ page'.form.errand = n
      /\ page'.form.key = page.form.key /\ page'.form.waits = page.form.waits
      /\ page'.minted = page.minted /\ page'.unknown = page.unknown
      /\ page'.dropped = page.dropped
      /\ UNCHANGED <<row, books, call>>
  <2>1. PICK p \in PageType : p = page
    BY DEF ExternalInv, ExternalTypes
  <2>2. page' = EnteredIn(p, n, e)
    BY <2>1 DEF Enter, EnteredIn
  <2>3. PICK q : q = page'
    OBVIOUS
  <2>4. /\ q \in PageType
        /\ q.form.entry = e /\ q.form.errand = n
        /\ q.form.key = p.form.key /\ q.form.waits = p.form.waits
        /\ q.minted = p.minted /\ q.unknown = p.unknown /\ q.dropped = p.dropped
    BY <2>2, <2>3, EnteredPage
  <2> QED BY <2>1, <2>3, <2>4 DEF Enter
<1>2. ExternalTypes'
  BY <1>1 DEF ExternalInv, ExternalTypes
<1>3. /\ \A k \in RecordKeys : RowOK(k)'
      /\ \A c \in Calls : CallOK(c)'
      /\ \A m \in Errands, k \in RecordKeys : LiveUnder(m, k)' => LiveUnder(m, k)
  BY <1>1, PageFrame
<1>4. PageOK'
  BY <1>1 DEF ExternalInv, PageOK
<1>5. ASSUME NEW m \in Errands PROVE ErrandOK(m)'
  <2>1. ASSUME NEW k \in RecordKeys, LiveUnder(m, k), m \notin page.dropped, Settled(m, k)
        PROVE  Settled(m, k)'
    <3>1. row[k].errand = m /\ k \in page.minted
      BY <2>1 DEF Settled, LiveUnder, ExternalInv, RowOK
    <3>2. m # n
      BY <2>1, <3>1 DEF Enter, Settled
    <3> QED BY <1>1, <2>1, <3>2 DEF Settled, Used
  <2>2. \A k \in RecordKeys : Held(m, k) => Held(m, k)'
    BY <1>1 DEF Held
  <2> QED BY <1>1, <1>3, <2>1, <2>2, ErrandsHeld DEF ExternalInv
<1> QED BY <1>2, <1>3, <1>4, <1>5 DEF ExternalInv

\* The page after it stopped waiting, field by field.
LEMMA StoppedPage ==
  ASSUME NEW p \in PageType, NEW message \in {"nothing recorded", "failed"}, NEW q,
         q = [p EXCEPT !.form.waits = NoCall, !.form.message = message]
  PROVE  /\ q \in PageType
         /\ q.form.entry = p.form.entry /\ q.form.errand = p.form.errand
         /\ q.form.key = p.form.key /\ q.form.waits = NoCall
         /\ q.minted = p.minted /\ q.unknown = p.unknown /\ q.dropped = p.dropped
<1>1. PICK f \in FormType : f = p.form
  BY DEF PageType
<1>2. PICK g : g = [f EXCEPT !.waits = NoCall, !.message = message]
  OBVIOUS
<1>3. g \in FormType /\ g.entry = f.entry /\ g.errand = f.errand /\ g.key = f.key
      /\ g.waits = NoCall
  BY <1>2 DEF FormType
<1>4. q = [p EXCEPT !.form = g]
  BY <1>1, <1>2 DEF PageType
<1>5. q \in PageType /\ q.form = g
      /\ q.minted = p.minted /\ q.unknown = p.unknown /\ q.dropped = p.dropped
  BY <1>3, <1>4 DEF PageType
<1> QED BY <1>1, <1>3, <1>5

\* The page stops waiting: its answer failed or did not come.
LEMMA StopWaiting ==
  ASSUME ExternalInv, NEW message \in {"nothing recorded", "failed"},
         page' = [page EXCEPT !.form.waits = NoCall, !.form.message = message],
         call' \in [Calls -> CallType],
         \A c \in Calls : call'[c] = call[c] \/ call'[c] = NoRequest,
         UNCHANGED <<row, books>>
  PROVE  ExternalInv'
<1>1. /\ page' \in PageType
      /\ page'.form.entry = page.form.entry /\ page'.form.errand = page.form.errand
      /\ page'.form.key = page.form.key /\ page'.form.waits = NoCall
      /\ page'.minted = page.minted /\ page'.unknown = page.unknown
      /\ page'.dropped = page.dropped
  BY StoppedPage DEF ExternalInv, ExternalTypes
<1>2. ExternalTypes'
  BY <1>1 DEF ExternalInv, ExternalTypes
<1>3. /\ \A k \in RecordKeys : RowOK(k)'
      /\ \A c \in Calls : CallOK(c)'
      /\ \A m \in Errands, k \in RecordKeys : LiveUnder(m, k)' => LiveUnder(m, k)
  BY <1>1, PageFrame
<1>4. PageOK'
  BY <1>1 DEF ExternalInv, PageOK
<1>5. ASSUME NEW m \in Errands PROVE ErrandOK(m)'
  <2>1. \A k \in RecordKeys : /\ Held(m, k) => Held(m, k)'
                              /\ Settled(m, k) => Settled(m, k)'
    BY <1>1 DEF Held, Settled, Used
  <2> QED BY <1>1, <1>3, <2>1, ErrandsHeld DEF ExternalInv
<1> QED BY <1>2, <1>3, <1>4, <1>5 DEF ExternalInv

\* Giving up waiting keeps the invariant: the outcome of the errand is unknown.
LEMMA GiveUpStep ==
  ASSUME ExternalInv, GiveUp
  PROVE  ExternalInv'
<1>1. /\ call' \in [Calls -> CallType]
      /\ \A c \in Calls : call'[c] = call[c] \/ call'[c] = NoRequest
  BY NoRequestTyped DEF GiveUp, ExternalInv, ExternalTypes
<1> QED BY <1>1, StopWaiting DEF GiveUp

\* The page drops its key: what it does not know the outcome of is dropped.
LEMMA DropStep ==
  ASSUME ExternalInv, NEW slip \in FormType, Drop(slip), slip.key = NoKey,
         slip = FreshPage \/
           (slip.entry = page.form.entry /\ slip.errand = page.form.errand
            /\ slip.waits = page.form.waits),
         call' \in [Calls -> CallType],
         slip.waits # NoCall => call' = call,
         \A c \in Calls : call'[c] = call[c] \/ call'[c] = NoRequest,
         UNCHANGED <<row, books>>
  PROVE  ExternalInv'
<1>1. /\ page' \in PageType /\ page'.form = slip /\ page'.minted = page.minted
      /\ page'.unknown = {} /\ page'.dropped = page.dropped \cup page.unknown
  <2>1. PICK p \in PageType : p = page
    BY DEF ExternalInv, ExternalTypes
  <2>2. PICK d : d = p.dropped \cup p.unknown
    OBVIOUS
  <2>3. page' = [p EXCEPT !.form = slip, !.unknown = {}, !.dropped = d]
    BY <2>1, <2>2 DEF Drop, PageType
  <2>4. d \in SUBSET Errands
    BY <2>2 DEF PageType
  <2> QED BY <2>1, <2>2, <2>3, <2>4 DEF PageType
<1>2. ExternalTypes'
  BY <1>1 DEF ExternalInv, ExternalTypes
<1>3. /\ \A k \in RecordKeys : RowOK(k)'
      /\ \A c \in Calls : CallOK(c)'
      /\ \A m \in Errands, k \in RecordKeys : LiveUnder(m, k)' => LiveUnder(m, k)
  BY <1>1, PageFrame
<1>4. PageOK'
  BY <1>1 DEF ExternalInv, PageOK, FreshPage
<1>5. ASSUME NEW m \in Errands PROVE ErrandOK(m)'
  <2>1. \A k \in RecordKeys : Settled(m, k) => Settled(m, k)'
    BY <1>1, ExternalAssumption DEF Settled, Used, FreshPage, ExternalAssumption
  <2>2. m \notin page'.dropped => \A k \in RecordKeys : ~Held(m, k)
    BY <1>1 DEF Held
  <2> QED BY <1>1, <1>3, <2>1, <2>2, ErrandsHeld DEF ExternalInv
<1> QED BY <1>2, <1>3, <1>4, <1>5 DEF ExternalInv

\* Beginning another entry keeps the invariant.
LEMMA RecordAnotherStep ==
  ASSUME ExternalInv, RecordAnother
  PROVE  ExternalInv'
<1>1. PICK f \in FormType : f = page.form
  BY DEF ExternalInv, ExternalTypes, PageType
<1>2. PICK g : g = [f EXCEPT !.key = NoKey, !.card = FALSE]
  OBVIOUS
<1>3. g \in FormType /\ g.key = NoKey /\ g.entry = f.entry /\ g.errand = f.errand
      /\ g.waits = f.waits
  BY <1>2 DEF FormType, Keyed
<1>4. Drop(g) /\ UNCHANGED <<row, books, call>>
  BY <1>1, <1>2 DEF RecordAnother
<1>5. call' \in [Calls -> CallType]
  BY <1>4 DEF ExternalInv, ExternalTypes
<1> QED BY <1>1, <1>3, <1>4, <1>5, DropStep

\* Reloading the page keeps the invariant.
LEMMA ReloadStep ==
  ASSUME ExternalInv, Reload
  PROVE  ExternalInv'
<1>1. /\ call' \in [Calls -> CallType]
      /\ \A c \in Calls : call'[c] = call[c] \/ call'[c] = NoRequest
  BY NoRequestTyped DEF Reload, ExternalInv, ExternalTypes
<1>2. FreshPage.key = NoKey /\ FreshPage.waits = NoCall
  BY DEF FreshPage
<1> QED BY <1>1, <1>2, FreshPageTyped, DropStep DEF Reload

SubmittedIn(p, k, c) ==
  [p EXCEPT !.form.key = k, !.form.waits = c, !.form.message = "none",
            !.minted = @ \cup {k}, !.unknown = @ \cup {p.form.errand}]

\* The page after a submission, field by field.
LEMMA SubmittedPage ==
  ASSUME NEW p \in PageType, NEW k \in RecordKeys, NEW c \in Calls, p.form.errand \in Errands,
         NEW q, q = SubmittedIn(p, k, c)
  PROVE  /\ q \in PageType
         /\ q.form.entry = p.form.entry /\ q.form.errand = p.form.errand
         /\ q.form.key = k /\ q.form.waits = c
         /\ q.minted = p.minted \cup {k} /\ q.unknown = p.unknown \cup {p.form.errand}
         /\ q.dropped = p.dropped
<1>1. PICK f \in FormType : f = p.form
  BY DEF PageType
<1>2. PICK g : g = [f EXCEPT !.key = k, !.waits = c, !.message = "none"]
  OBVIOUS
<1>3. g \in FormType /\ g.entry = f.entry /\ g.errand = f.errand /\ g.key = k
      /\ g.waits = c
  BY <1>2 DEF FormType, Keyed
<1>4. PICK m, u : m = p.minted \cup {k} /\ u = p.unknown \cup {p.form.errand}
  OBVIOUS
<1>5. m \subseteq RecordKeys /\ u \subseteq Errands
  BY <1>4 DEF PageType
<1>6. q = [form |-> g, minted |-> m, unknown |-> u, dropped |-> p.dropped]
  BY <1>1, <1>2, <1>4 DEF PageType, SubmittedIn
<1>7. q \in PageType /\ q.form = g /\ q.minted = m /\ q.unknown = u /\ q.dropped = p.dropped
  BY <1>3, <1>5, <1>6 DEF PageType
<1> QED BY <1>1, <1>3, <1>4, <1>7

\* What a new request makes of the page and of the calls.
LEMMA Submitted ==
  ASSUME ExternalInv, NEW c \in Calls, NEW k \in RecordKeys, SubmitEntry(c, k)
  PROVE  /\ page' \in PageType
         /\ page'.form.entry = page.form.entry /\ page'.form.errand = page.form.errand
         /\ page.form.entry \in Entries /\ page.form.errand \in Errands
         /\ page'.form.key = k /\ page'.form.waits = c
         /\ page'.minted = page.minted \cup {k}
         /\ page'.unknown = page.unknown \cup {page.form.errand}
         /\ page'.dropped = page.dropped
         /\ call' \in [Calls -> CallType]
         /\ \A d \in Calls \ {c} : call'[d] = call[d]
         /\ call'[c].pc = "sent" /\ call'[c].key = k /\ call'[c].answer = "none"
         /\ call'[c].entry = page.form.entry /\ call'[c].errand = page.form.errand
<1>1. page.form.entry \in Entries /\ page.form.errand \in Errands
  BY DEF SubmitEntry, ExternalInv, PageOK
<1>2. PICK p \in PageType : p = page
  BY DEF ExternalInv, ExternalTypes
<1>3. PICK q : q = page'
  OBVIOUS
<1>4. q = SubmittedIn(p, k, c)
  BY <1>2, <1>3 DEF SubmitEntry, SubmittedIn
<1>5. /\ q \in PageType
      /\ q.form.entry = p.form.entry /\ q.form.errand = p.form.errand
      /\ q.form.key = k /\ q.form.waits = c
      /\ q.minted = p.minted \cup {k} /\ q.unknown = p.unknown \cup {p.form.errand}
      /\ q.dropped = p.dropped
  BY <1>1, <1>2, <1>4, SubmittedPage
<1>6. PICK r : r = [NoRequest EXCEPT !.pc = "sent", !.key = k,
                      !.entry = page.form.entry, !.errand = page.form.errand]
  OBVIOUS
<1>7. r = [pc |-> "sent", key |-> k, entry |-> page.form.entry, errand |-> page.form.errand,
           tries |-> 0, answer |-> "none"]
  BY <1>6 DEF NoRequest
<1>8. r \in CallType
  BY <1>1, <1>7, ExternalAssumption DEF CallType, Keyed, Named, Entered, ExternalAssumption
<1>9. call' = [call EXCEPT ![c] = r]
  BY <1>6 DEF SubmitEntry
<1>10. /\ call' \in [Calls -> CallType] /\ call'[c] = r
       /\ \A d \in Calls \ {c} : call'[d] = call[d]
  BY <1>8, <1>9 DEF ExternalInv, ExternalTypes
<1> QED BY <1>1, <1>2, <1>3, <1>5, <1>7, <1>10

\* Submitting keeps the invariant: a held key is sent with what it was sent with before.
LEMMA SubmitStep ==
  ASSUME ExternalInv, NEW c \in Calls, NEW k \in RecordKeys, SubmitEntry(c, k)
  PROVE  ExternalInv'
<1>1. /\ page' \in PageType
      /\ page'.form.entry = page.form.entry /\ page'.form.errand = page.form.errand
      /\ page.form.entry \in Entries /\ page.form.errand \in Errands
      /\ page'.form.key = k /\ page'.form.waits = c
      /\ page'.minted = page.minted \cup {k}
      /\ page'.unknown = page.unknown \cup {page.form.errand}
      /\ page'.dropped = page.dropped
      /\ call' \in [Calls -> CallType]
      /\ \A d \in Calls \ {c} : call'[d] = call[d]
      /\ call'[c].pc = "sent" /\ call'[c].key = k /\ call'[c].answer = "none"
      /\ call'[c].entry = page.form.entry /\ call'[c].errand = page.form.errand
  BY Submitted
<1>2. row' = row /\ books' = books
  BY DEF SubmitEntry
<1>3. ExternalTypes'
  BY <1>1, <1>2 DEF ExternalInv, ExternalTypes
<1>4. \A l \in RecordKeys : RowOK(l)'
  BY <1>1, <1>2 DEF ExternalInv, RowOK, Used
<1>5. \A d \in Calls : CallOK(d)'
  <2>1. CallOK(c)'
    BY <1>1 DEF CallOK
  <2>2. ASSUME NEW d \in Calls \ {c} PROVE CallOK(d)'
    BY <1>1, <1>2 DEF ExternalInv, CallOK, Used
  <2> QED BY <2>1, <2>2
<1>6. PageOK'
  BY <1>1 DEF PageOK
<1>7. ASSUME NEW n \in Errands PROVE ErrandOK(n)'
  <2> DEFINE new(l) == n = page.form.errand /\ l = k
  <2>1. ASSUME NEW l \in RecordKeys, LiveUnder(n, l)' PROVE LiveUnder(n, l) \/ new(l)
    BY <1>1, <1>2, <2>1 DEF LiveUnder, Pending, Used
  <2>2. ASSUME n \notin page.dropped, NEW l \in RecordKeys, LiveUnder(n, l)
        PROVE  /\ Held(n, l)' \/ Settled(n, l)'
               /\ n = page.form.errand => l = k
    <3>1. Held(n, l) \/ Settled(n, l)
      BY <2>2 DEF ExternalInv, ErrandOK
    <3>2. CASE Held(n, l)
      <4>1. l = k
        BY <3>2, ExternalAssumption DEF Held, SubmitEntry, KeyFor, ExternalAssumption
      <4> QED BY <1>1, <3>2, <4>1 DEF Held
    <3>3. CASE Settled(n, l)
      BY <1>1, <1>2, <3>3 DEF Settled, Used
    <3> QED BY <3>1, <3>2, <3>3
  <2>3. \A l \in RecordKeys : new(l) => Held(n, l)'
    BY <1>1 DEF Held
  <2>4. n \notin page.dropped =>
          \A l, m \in RecordKeys : LiveUnder(n, l) /\ LiveUnder(n, m) => l = m
    BY DEF ExternalInv, ErrandOK
  <2>5. page'.dropped = page.dropped
    BY <1>1
  <2> QED BY <2>1, <2>2, <2>3, <2>4, <2>5 DEF ErrandOK
<1> QED BY <1>3, <1>4, <1>5, <1>6, <1>7 DEF ExternalInv

\* The page after a success.
SavedIn(p, n) ==
  [p EXCEPT !.form = [FreshPage EXCEPT !.card = TRUE], !.unknown = {},
            !.dropped = @ \cup (p.unknown \ {n})]

\* The page after an answer, field by field.
LEMMA SavedPage ==
  ASSUME NEW p \in PageType, NEW n, NEW q, q = SavedIn(p, n)
  PROVE  /\ q \in PageType
         /\ q.form.entry = NoEntry /\ q.form.errand = NoErrand
         /\ q.form.key = NoKey /\ q.form.waits = NoCall
         /\ q.minted = p.minted /\ q.unknown = {}
         /\ q.dropped = p.dropped \cup (p.unknown \ {n})
<1>1. PICK g : g = [FreshPage EXCEPT !.card = TRUE]
  OBVIOUS
<1>2. /\ g \in FormType /\ g.entry = NoEntry /\ g.errand = NoErrand
      /\ g.key = NoKey /\ g.waits = NoCall
  BY <1>1 DEF FreshPage, FormType, Keyed, Named, Entered
<1>3. PICK d : d = p.dropped \cup (p.unknown \ {n})
  OBVIOUS
<1>4. d \subseteq Errands
  BY <1>3 DEF PageType
<1>5. q = [p EXCEPT !.form = g, !.unknown = {}, !.dropped = d]
  BY <1>1, <1>3 DEF PageType, SavedIn
<1>6. q \in PageType /\ q.form = g /\ q.minted = p.minted /\ q.unknown = {} /\ q.dropped = d
  BY <1>2, <1>4, <1>5 DEF PageType
<1> QED BY <1>2, <1>3, <1>6

\* Receiving an answer keeps the invariant.
LEMMA ReceiveStep ==
  ASSUME ExternalInv, NEW c \in Calls, Receive(c)
  PROVE  ExternalInv'
<1>1. /\ page.form.waits = c /\ call[c].pc = "answered"
      /\ call' = [call EXCEPT ![c] = NoRequest] /\ UNCHANGED <<row, books>>
  BY DEF Receive
<1>2. /\ call' \in [Calls -> CallType]
      /\ \A d \in Calls : call'[d] = call[d] \/ call'[d] = NoRequest
  BY <1>1, NoRequestTyped DEF ExternalInv, ExternalTypes
<1>3. CASE call[c].answer # "saved"
  <2>1. page' = [page EXCEPT !.form.waits = NoCall, !.form.message = "failed"]
    BY <1>3 DEF Receive
  <2> QED BY <1>1, <1>2, <2>1, StopWaiting
<1>4. CASE call[c].answer = "saved"
  <2>1. PICK n : n = call[c].errand
    OBVIOUS
  <2>2. /\ page' \in PageType
        /\ page'.form.entry = NoEntry /\ page'.form.errand = NoErrand
        /\ page'.form.key = NoKey /\ page'.form.waits = NoCall
        /\ page'.minted = page.minted /\ page'.unknown = {}
        /\ page'.dropped = page.dropped \cup (page.unknown \ {n})
    <3>1. PICK p \in PageType : p = page
      BY DEF ExternalInv, ExternalTypes
    <3>2. PICK q : q = page'
      OBVIOUS
    <3>3. q = SavedIn(p, n)
      BY <1>4, <2>1, <3>1, <3>2 DEF Receive, SavedIn
    <3>4. /\ q \in PageType
          /\ q.form.entry = NoEntry /\ q.form.errand = NoErrand
          /\ q.form.key = NoKey /\ q.form.waits = NoCall
          /\ q.minted = p.minted /\ q.unknown = {}
          /\ q.dropped = p.dropped \cup (p.unknown \ {n})
      BY <3>3, SavedPage
    <3> QED BY <3>1, <3>2, <3>4
  <2>3. ExternalTypes'
    BY <1>1, <1>2, <2>2 DEF ExternalInv, ExternalTypes
  <2>4. /\ \A k \in RecordKeys : RowOK(k)'
        /\ \A d \in Calls : CallOK(d)'
        /\ \A m \in Errands, k \in RecordKeys : LiveUnder(m, k)' => LiveUnder(m, k)
    BY <1>1, <1>2, <2>2, PageFrame
  <2>5. PageOK'
    BY <2>2 DEF PageOK
  <2>6. call[c].key \in RecordKeys /\ Used(call[c].key)
    <3>1. call[c].key \in page.minted /\ call[c].entry \in Entries
          /\ row[call[c].key].entry = call[c].entry
      BY <1>1, <1>4 DEF ExternalInv, CallOK
    <3> QED BY <3>1, ExternalAssumption
        DEF ExternalInv, ExternalTypes, PageType, Used, NoRow, ExternalAssumption
  <2>7. ASSUME NEW m \in Errands PROVE ErrandOK(m)'
    <3>1. m # NoErrand
      BY ExternalAssumption DEF ExternalAssumption
    <3>2. ASSUME NEW k \in RecordKeys, m \notin page'.dropped, Held(m, k)
          PROVE  Settled(m, k)'
      <4>1. k = call[c].key
        BY <1>1, <3>2, ExternalAssumption DEF Held, ExternalInv, PageOK, ExternalAssumption
      <4> QED BY <1>1, <2>2, <2>6, <3>1, <4>1 DEF Settled, Used
    <3>3. \A k \in RecordKeys : Settled(m, k) => Settled(m, k)'
      BY <1>1, <2>2, <3>1 DEF Settled, Used
    <3> QED BY <2>2, <2>4, <3>2, <3>3, ErrandsHeld DEF ExternalInv
  <2> QED BY <2>3, <2>4, <2>5, <2>7 DEF ExternalInv
<1> QED BY <1>3, <1>4

-----------------------------------------------------------------------------
(* The invariant.                                                           *)

\* The invariant holds at first.
LEMMA ExternalInitInv == ExternalInit => ExternalInv
<1> SUFFICES ASSUME ExternalInit PROVE ExternalInv
  OBVIOUS
<1>1. ExternalTypes
  BY NoRequestTyped, FreshPageTyped
  DEF ExternalInit, ExternalTypes, RowType, BooksType, PageType, NoRow, Entered, Named
<1>2. \A k \in RecordKeys : RowOK(k) /\ ~Used(k)
  BY DEF ExternalInit, RowOK, Used
<1>3. \A c \in Calls : CallOK(c) /\ call[c].pc = "idle"
  BY DEF ExternalInit, CallOK, NoRequest
<1>4. PageOK
  BY DEF ExternalInit, PageOK, FreshPage
<1>5. \A n \in Errands : ErrandOK(n)
  BY <1>2, <1>3 DEF ErrandOK, LiveUnder, Pending
<1> QED BY <1>1, <1>2, <1>3, <1>4, <1>5 DEF ExternalInv

\* Every step keeps the invariant.
LEMMA ExternalNextInv == ExternalInv /\ [ExternalNext]_externalVars => ExternalInv'
<1> SUFFICES ASSUME ExternalInv, [ExternalNext]_externalVars PROVE ExternalInv'
  OBVIOUS
<1> HIDE DEF ExternalInv
<1>1. ASSUME NEW c \in Calls, LookUp(c) PROVE ExternalInv'
  BY <1>1, LookUpStep
<1>2. ASSUME NEW c \in Calls, Refuse(c) PROVE ExternalInv'
  BY <1>2, RefuseStep
<1>3. ASSUME NEW c \in Calls, Commit(c) PROVE ExternalInv'
  BY <1>3, CommitStep
<1>4. ASSUME NEW c \in Calls, Conflict(c) PROVE ExternalInv'
  BY <1>4, ConflictStep
<1>5. ASSUME NEW c \in Calls, Lose(c) PROVE ExternalInv'
  BY <1>5, LoseStep
<1>6. ASSUME NEW c \in Calls, Receive(c) PROVE ExternalInv'
  BY <1>6, ReceiveStep
<1>7. ASSUME NEW c \in Calls, NEW k \in RecordKeys, SubmitEntry(c, k) PROVE ExternalInv'
  BY <1>7, SubmitStep
<1>8. ASSUME NEW n \in Errands, NEW e \in Entries, Enter(n, e) PROVE ExternalInv'
  BY <1>8, EnterStep
<1>9. CASE GiveUp
  BY <1>9, GiveUpStep
<1>10. CASE RecordAnother
  BY <1>10, RecordAnotherStep
<1>11. CASE Reload
  BY <1>11, ReloadStep
<1>12. CASE UNCHANGED externalVars
  BY <1>12 DEF externalVars, ExternalInv, ExternalTypes, RowOK, Used, CallOK, PageOK, ErrandOK,
               LiveUnder, Pending, Held, Settled
<1> QED BY <1>1, <1>2, <1>3, <1>4, <1>5, <1>6, <1>7, <1>8, <1>9, <1>10, <1>11, <1>12
    DEF ExternalNext

\* Whatever is sent, lost, repeated or answered late, every row was sent under
\* a key of the page, every answer tells what is recorded, and an errand whose
\* key was not dropped is exposed to one key only.
THEOREM ExternalInvariant == ExternalSpec => []ExternalInv
BY ExternalInitInv, ExternalNextInv, PTL DEF ExternalSpec

\* The rows, the requests and the page keep their shape.
THEOREM ExternalTyped == ExternalSpec => []ExternalTypeOK
<1>1. ExternalInv => ExternalTypeOK
  BY DEF ExternalInv, ExternalTypes, ExternalTypeOK, RowType, BooksType, CallType, FormType,
         PageType, Keyed, Named
<1> QED BY <1>1, ExternalInvariant, PTL

\* What an answer says is what is recorded.
THEOREM AnswersTellRows == ExternalSpec => []SavedAsSent
<1>1. ExternalInv => SavedAsSent
  BY DEF ExternalInv, CallOK, SavedAsSent
<1> QED BY <1>1, ExternalInvariant, PTL

\* However often a try is repeated and however late its earlier tries arrive,
\* an errand is recorded once, unless its key was dropped while its outcome was
\* not known.
THEOREM RecordedOnce == ExternalSpec => []RetriesRecordOnce
<1>1. ExternalInv => RetriesRecordOnce
  <2> SUFFICES ASSUME ExternalInv, NEW n \in Errands \ page.dropped
               PROVE  Cardinality(RowsOf(n)) <= 1
    BY DEF RetriesRecordOnce
  <2>1. \A k \in RowsOf(n) : k \in RecordKeys /\ LiveUnder(n, k)
    <3>1. n # NoErrand
      BY ExternalAssumption DEF ExternalAssumption
    <3> QED BY <3>1 DEF RowsOf, LiveUnder, Used, NoRow
  <2>2. \A k, l \in RowsOf(n) : k = l
    BY <2>1 DEF ExternalInv, ErrandOK
  <2>3. CASE RowsOf(n) = {}
    BY <2>3, FS_EmptySet
  <2>4. CASE RowsOf(n) # {}
    <3>1. PICK k : RowsOf(n) = {k}
      BY <2>2, <2>4
    <3> QED BY <3>1, FS_Singleton
  <2> QED BY <2>3, <2>4
<1> QED BY <1>1, ExternalInvariant, PTL

-----------------------------------------------------------------------------
(* The reports.                                                             *)

Recorded == {k \in RecordKeys : Used(k)}
GrossFee == [k \in Recorded |-> Fee(row[k].entry)]
Charge   == [k \in Recorded |-> row[k].entry.charge]
Movement == [k \in Recorded |-> IF row[k].entry.type \in CashIn THEN -row[k].entry.principal
                                ELSE row[k].entry.principal]
Impact   == [k \in Recorded |-> CashImpact(row[k].entry)]

\* The rows are finitely many, and the reports agree with the balances.
BooksInv ==
  /\ IsFiniteSet(Recorded)
  /\ SumOver(GrossFee, Recorded) = -books.revenue
  /\ SumOver(Charge, Recorded) = books.cost
  /\ SumOver(Movement, Recorded) - books.cost = books.float
  /\ SumOver(Impact, Recorded) = books.settlement

\* The figures of recorded rows are integers.
LEMMA RecordedNumbers ==
  ASSUME ExternalInv
  PROVE  \A k \in Recorded : /\ GrossFee[k] \in Int /\ Charge[k] \in Int
                             /\ Movement[k] \in Int /\ Impact[k] \in Int
<1> SUFFICES ASSUME NEW k \in Recorded
             PROVE  /\ GrossFee[k] \in Int /\ Charge[k] \in Int
                    /\ Movement[k] \in Int /\ Impact[k] \in Int
  OBVIOUS
<1>1. row[k].entry \in Entries
  BY DEF Recorded, ExternalInv, RowOK
<1>2. PICK e \in Entries : e = row[k].entry
  BY <1>1
<1>3. /\ Fee(e) \in Nat /\ CashImpact(e) \in Int
      /\ e.principal \in Nat /\ e.charge \in Nat
  BY EntryNumbers
<1> QED BY <1>2, <1>3 DEF GrossFee, Charge, Movement, Impact

\* Nothing moves while the rows and the books stay.
LEMMA BooksKept ==
  ASSUME BooksInv, UNCHANGED <<row, books>>
  PROVE  BooksInv'
<1>1. Recorded' = Recorded
  BY DEF Recorded, Used
<1>2. GrossFee' = GrossFee /\ Charge' = Charge /\ Movement' = Movement /\ Impact' = Impact
  BY <1>1 DEF GrossFee, Charge, Movement, Impact
<1> QED BY <1>1, <1>2 DEF BooksInv

\* A new row counts in every report, and its legs in every balance.
LEMMA CommitBooks ==
  ASSUME ExternalInv, BooksInv, NEW c \in Calls, Commit(c)
  PROVE  BooksInv'
<1>1. PICK r : r = call[c]
  OBVIOUS
<1>2. CASE Used(r.key) \/ ~Balanced(Legs(r.entry))
  BY <1>1, <1>2, BooksKept DEF Commit
<1>3. CASE ~Used(r.key) /\ Balanced(Legs(r.entry))
  <2>1. /\ r.key \in RecordKeys /\ r.entry \in Entries
        /\ row'[r.key].entry = r.entry
        /\ \A k \in RecordKeys \ {r.key} : row'[k] = row[k]
        /\ Used(r.key)'
        /\ books' = [a \in DOMAIN books |-> books[a] + Legs(r.entry)[a]]
    BY <1>1, <1>3, CommitWrites
  <2>2. PICK e \in Entries : e = r.entry
    BY <2>1
  <2>3. /\ books'.settlement = books.settlement + CashImpact(e)
        /\ books'.float = books.float + IF e.type \in CashIn THEN -(e.principal + e.charge)
                                        ELSE e.principal - e.charge
        /\ books'.revenue = books.revenue - Fee(e)
        /\ books'.cost = books.cost + e.charge
    BY <2>1, <2>2, BooksAfter DEF ExternalInv, ExternalTypes
  <2>4. PICK S, y : S = Recorded /\ y = r.key
    OBVIOUS
  <2>5. IsFiniteSet(S) /\ y \notin S /\ Recorded' = S \cup {y}
    BY <1>3, <2>1, <2>4 DEF BooksInv, Recorded, Used
  <2>6. /\ Fee(e) \in Nat /\ CashImpact(e) \in Int
        /\ e.principal \in Nat /\ e.charge \in Nat
    BY EntryNumbers
  <2>m. PICK move : move = IF e.type \in CashIn THEN -e.principal ELSE e.principal
    OBVIOUS
  <2>7. \A k \in S : k \in RecordKeys \ {y} /\ row'[k] = row[k] /\ k \in Recorded'
    BY <2>1, <2>4, <2>5 DEF Recorded
  <2>8. y \in Recorded' /\ row'[y].entry = e
    BY <2>1, <2>2, <2>4, <2>5
  <2>9. /\ IsFiniteSet(Recorded')
        /\ SumOver(GrossFee', Recorded') = SumOver(GrossFee, S) + Fee(e)
        /\ SumOver(GrossFee, S) \in Int
    <3>1. PICK f, h : f = GrossFee /\ h = GrossFee'
      OBVIOUS
    <3>2. \A x \in S : f[x] \in Int /\ h[x] = f[x]
      BY <2>4, <2>7, <3>1, RecordedNumbers DEF GrossFee
    <3>3. h[y] = Fee(e) /\ h[y] \in Int
      BY <2>6, <2>8, <3>1 DEF GrossFee
    <3>4. /\ IsFiniteSet(S \cup {y}) /\ SumOver(f, S) \in Int
          /\ SumOver(h, S \cup {y}) = SumOver(f, S) + h[y]
      BY <2>5, <3>2, <3>3, SumGrows
    <3> QED BY <2>5, <3>1, <3>3, <3>4
  <2>10. /\ SumOver(Charge', Recorded') = SumOver(Charge, S) + e.charge
         /\ SumOver(Charge, S) \in Int
    <3>1. PICK f, h : f = Charge /\ h = Charge'
      OBVIOUS
    <3>2. \A x \in S : f[x] \in Int /\ h[x] = f[x]
      BY <2>4, <2>7, <3>1, RecordedNumbers DEF Charge
    <3>3. h[y] = e.charge /\ h[y] \in Int
      BY <2>6, <2>8, <3>1 DEF Charge
    <3>4. /\ IsFiniteSet(S \cup {y}) /\ SumOver(f, S) \in Int
          /\ SumOver(h, S \cup {y}) = SumOver(f, S) + h[y]
      BY <2>5, <3>2, <3>3, SumGrows
    <3> QED BY <2>5, <3>1, <3>3, <3>4
  <2>11. /\ SumOver(Movement', Recorded') = SumOver(Movement, S) + move
         /\ SumOver(Movement, S) \in Int
    <3>1. PICK f, h : f = Movement /\ h = Movement'
      OBVIOUS
    <3>2. \A x \in S : f[x] \in Int /\ h[x] = f[x]
      BY <2>4, <2>7, <3>1, RecordedNumbers DEF Movement
    <3>3. h[y] = move /\ h[y] \in Int
      BY <2>6, <2>8, <2>m, <3>1 DEF Movement
    <3>4. /\ IsFiniteSet(S \cup {y}) /\ SumOver(f, S) \in Int
          /\ SumOver(h, S \cup {y}) = SumOver(f, S) + h[y]
      BY <2>5, <3>2, <3>3, SumGrows
    <3> QED BY <2>5, <3>1, <3>3, <3>4
  <2>12. /\ SumOver(Impact', Recorded') = SumOver(Impact, S) + CashImpact(e)
         /\ SumOver(Impact, S) \in Int
    <3>1. PICK f, h : f = Impact /\ h = Impact'
      OBVIOUS
    <3>2. \A x \in S : f[x] \in Int /\ h[x] = f[x]
      BY <2>4, <2>7, <3>1, RecordedNumbers DEF Impact
    <3>3. h[y] = CashImpact(e) /\ h[y] \in Int
      BY <2>6, <2>8, <3>1 DEF Impact
    <3>4. /\ IsFiniteSet(S \cup {y}) /\ SumOver(f, S) \in Int
          /\ SumOver(h, S \cup {y}) = SumOver(f, S) + h[y]
      BY <2>5, <3>2, <3>3, SumGrows
    <3> QED BY <2>5, <3>1, <3>3, <3>4
  <2>13. /\ books.settlement \in Int /\ books.float \in Int
         /\ books.revenue \in Int /\ books.cost \in Int
    BY DEF ExternalInv, ExternalTypes, BooksType
  <2>14. /\ SumOver(GrossFee, S) = -books.revenue
         /\ SumOver(Charge, S) = books.cost
         /\ SumOver(Movement, S) - books.cost = books.float
         /\ SumOver(Impact, S) = books.settlement
    BY <2>4 DEF BooksInv
  <2>15. SumOver(GrossFee', Recorded') = -books'.revenue
    BY <2>3, <2>6, <2>9, <2>13, <2>14
  <2>16. SumOver(Charge', Recorded') = books'.cost
    BY <2>3, <2>10, <2>14
  <2>17. SumOver(Impact', Recorded') = books'.settlement
    BY <2>3, <2>12, <2>14
  <2>18. SumOver(Movement', Recorded') - books'.cost = books'.float
    <3>1. move \in Int /\ books'.float - books.float = move - e.charge
      BY <2>3, <2>6, <2>13, <2>m
    <3>2. /\ SumOver(Movement', Recorded') = SumOver(Movement, S) + move
          /\ SumOver(Movement, S) = books.float + books.cost
      BY <2>11, <2>13, <2>14
    <3>3. books'.cost = books.cost + e.charge /\ books'.float \in Int
      BY <2>3, <2>6, <2>13
    <3> QED BY <2>6, <2>13, <3>1, <3>2, <3>3
  <2> QED BY <2>9, <2>15, <2>16, <2>17, <2>18 DEF BooksInv
<1> QED BY <1>2, <1>3

\* The books are kept at first.
LEMMA BooksInit == ExternalInit => BooksInv
<1> SUFFICES ASSUME ExternalInit PROVE BooksInv
  OBVIOUS
<1>1. Recorded = {}
  BY DEF ExternalInit, Recorded, Used
<1>2. /\ books.settlement = 0 /\ books.float = 0 /\ books.revenue = 0 /\ books.cost = 0
  BY DEF ExternalInit
<1> QED BY <1>1, <1>2, FS_EmptySet, SumEmpty DEF BooksInv

\* Every step keeps the books.
LEMMA BooksNext ==
  ASSUME ExternalInv, BooksInv, [ExternalNext]_externalVars
  PROVE  BooksInv'
<1>1. CASE \E c \in Calls : Commit(c)
  BY <1>1, CommitBooks
<1>2. CASE ~\E c \in Calls : Commit(c)
  <2>1. row' = row /\ books' = books
    BY <1>2 DEF ExternalNext, externalVars, LookUp, Refuse, Conflict, Lose, Receive,
                SubmitEntry, Enter, GiveUp, RecordAnother, Reload
  <2> QED BY <2>1, BooksKept
<1> QED BY <1>1, <1>2

\* Commission, movement and cash impact as the reports add them up from the
\* rows are what the ledger's accounts say.
THEOREM ReportsMatchBooks == ExternalSpec => []BooksMatchReports
<1>1. ExternalInv /\ BooksInv => BooksMatchReports
  BY DEF BooksInv, BooksMatchReports, Recorded, GrossFee, Charge, Movement, Impact
<1>2. ExternalSpec => [](ExternalInv /\ BooksInv)
  BY BooksInit, BooksNext, ExternalInitInv, ExternalNextInv, PTL DEF ExternalSpec
<1> QED BY <1>1, <1>2, PTL

-----------------------------------------------------------------------------
(* The counter: Counter.                                                    *)

TicketType ==
  [status: {"none", "draft", "posted"}, basket: 0..MaxBaskets, goods: Goods \cup {NoGoods},
   version: Nat, key: 0..MaxReviewed, agreed: Goods \cup {NoGoods}]
ScreenType ==
  [basket: 0..MaxBaskets, cart: Goods \cup {NoGoods}, draft: Drafts, review: Drafts,
   key: 0..MaxReviewed, reviewed: 0..MaxReviewed, overlay: {"none", "review", "receipt"}]
ReviewType ==
  [pc: {"idle", "save", "late", "check", "done"}, basket: 0..MaxBaskets,
   goods: Goods \cup {NoGoods}, draft: Drafts]
PostingType ==
  [pc: {"idle", "sent", "answered"}, waited: BOOLEAN, of: Drafts, key: 0..MaxReviewed,
   answer: {"none", "posted", "refused"}]

CounterTypes ==
  /\ ticket \in [Tickets -> TicketType]
  /\ screen \in ScreenType
  /\ reviewing \in [Reviews -> ReviewType]
  /\ posting \in [Postings -> PostingType]
  /\ overlapped \subseteq 1..MaxBaskets

\* A draft somebody knows of is a saved ticket, not newer than the ticket, and
\* as the ticket is if it is as new.
Faithful(d) ==
  d.id # NoTicket =>
    /\ ticket[d.id].status # "none" /\ d.version <= ticket[d.id].version
    /\ d.version = ticket[d.id].version => d.goods = ticket[d.id].goods

\* What is on the screen, what is being reviewed and what is being posted.
DraftsOK ==
  /\ Faithful(screen.draft)
  /\ screen.review # NoDraft => screen.review = screen.draft /\ screen.review.id # NoTicket
  /\ \A v \in Reviews :
       /\ Faithful(reviewing[v].draft)
       /\ reviewing[v].pc \in {"check", "done"} =>
            /\ reviewing[v].draft.id # NoTicket
            /\ reviewing[v].draft.goods = reviewing[v].goods
       /\ reviewing[v].pc = "idle" => reviewing[v] = NoReview
  /\ \A p \in Postings :
       /\ Faithful(posting[p].of)
       /\ posting[p].pc = "idle" => posting[p] = NoPosting
       /\ posting[p].pc # "idle" => posting[p].of.id # NoTicket

TicketsOK ==
  \A t \in Tickets :
    /\ ticket[t].status = "none" => ticket[t] = NewTicket
    /\ ticket[t].status = "posted" => ticket[t].goods = ticket[t].agreed

\* A ticket that is posted or that somebody knows of.
Shown(t)  == screen.draft.id = t \/ screen.review.id = t \/ \E p \in Postings : posting[p].of.id = t
KnownBy(v, t) == reviewing[v].draft.id = t
Known(t)  == ticket[t].status = "posted" \/ Shown(t) \/ \E v \in Reviews : KnownBy(v, t)

Under(v, b) == reviewing[v].pc # "idle" /\ reviewing[v].basket = b

\* The tickets that are, or may be turned into, a sale of a basket.
For(b, t) == \/ ticket[t].basket = b /\ Known(t)
             \/ \E v \in Reviews : Under(v, b) /\ KnownBy(v, t)

Untouched(b) == /\ \A t \in Tickets : ticket[t].basket # b
                /\ \A v \in Reviews : ~Under(v, b)

\* A ticket that a review has saved and nobody else knows of.
Only(v, t) == /\ reviewing[v].pc \in {"check", "done"} /\ KnownBy(v, t)
              /\ ticket[t].status # "posted" /\ ~Shown(t)
              /\ \A w \in Reviews \ {v} : ~KnownBy(w, t)

OverlapsMarked ==
  \A v, w \in UnderWay : v # w => reviewing[v].basket \in overlapped

OneTicket(b) == \A t, u \in Tickets : For(b, t) /\ For(b, u) => t = u

\* The screen holds the ticket of its basket, or a review does that saved it.
ScreenHolds(b) ==
  \A t \in Tickets :
    For(b, t) => screen.draft.id = t \/ \E v \in Reviews : reviewing[v].basket = b /\ Only(v, t)

BasketsOK ==
  /\ OverlapsMarked
  /\ \A b \in (1..MaxBaskets) \ overlapped : OneTicket(b)
  /\ screen.cart # NoGoods => screen.basket # 0
  /\ screen.basket \notin overlapped /\ screen.cart # NoGoods => ScreenHolds(screen.basket)
  /\ \A v \in UnderWay :
       /\ reviewing[v].basket # 0
       /\ reviewing[v].draft.id = NoTicket /\ reviewing[v].basket \notin overlapped =>
            \A t \in Tickets : ~For(reviewing[v].basket, t)
       /\ reviewing[v].basket # screen.basket /\ screen.basket \notin overlapped =>
            Untouched(screen.basket)
  /\ \A b \in 1..MaxBaskets : b > screen.basket => Untouched(b)

CounterInv == CounterTypes /\ DraftsOK /\ TicketsOK /\ BasketsOK

-----------------------------------------------------------------------------
(* What nothing but the baskets' bookkeeping depends on.                    *)

\* Whoever refers to a ticket after a step did so before, tickets keep their
\* baskets, reviews come to an end: the baskets stay in order.
LEMMA BasketsShrink ==
  ASSUME CounterTypes, BasketsOK, overlapped' = overlapped,
         screen'.basket = screen.basket,
         screen'.cart # NoGoods => screen.cart # NoGoods,
         \A v \in UnderWay' : /\ v \in UnderWay /\ reviewing'[v].basket = reviewing[v].basket
                              /\ reviewing'[v].draft.id = NoTicket =>
                                   reviewing[v].draft.id = NoTicket,
         \A b \in 1..MaxBaskets : \A t \in Tickets : For(b, t)' => For(b, t),
         \A b \in 0..MaxBaskets : Untouched(b) => Untouched(b)',
         screen'.cart # NoGoods /\ screen.basket \notin overlapped
           /\ screen.basket \in 1..MaxBaskets /\ ScreenHolds(screen.basket) =>
             ScreenHolds(screen.basket)'
  PROVE  BasketsOK'
<1>1. screen.basket \in 0..MaxBaskets
  BY DEF CounterTypes, ScreenType
<1>2. \A v \in UnderWay : reviewing[v].basket \in 1..MaxBaskets
  BY DEF CounterTypes, ReviewType, BasketsOK, UnderWay
<1>3. OverlapsMarked'
  BY DEF BasketsOK, OverlapsMarked
<1>4. \A b \in (1..MaxBaskets) \ overlapped : OneTicket(b)'
  BY DEF BasketsOK, OneTicket
<1>5. screen'.cart # NoGoods => screen'.basket # 0
  BY DEF BasketsOK
<1>6. screen'.basket \notin overlapped' /\ screen'.cart # NoGoods =>
        ScreenHolds(screen.basket)'
  BY <1>1 DEF BasketsOK
<1>7. ASSUME NEW v \in UnderWay'
      PROVE  /\ reviewing'[v].basket # 0
             /\ reviewing'[v].draft.id = NoTicket /\ reviewing'[v].basket \notin overlapped' =>
                  \A t \in Tickets : ~For(reviewing[v].basket, t)'
             /\ reviewing'[v].basket # screen'.basket /\ screen'.basket \notin overlapped' =>
                  Untouched(screen.basket)'
  <2>1. v \in UnderWay /\ reviewing'[v].basket = reviewing[v].basket
    BY <1>7
  <2>2. reviewing'[v].basket # 0
    BY <2>1 DEF BasketsOK
  <2>3. reviewing'[v].draft.id = NoTicket /\ reviewing'[v].basket \notin overlapped' =>
          \A t \in Tickets : ~For(reviewing[v].basket, t)'
    BY <1>2, <1>7, <2>1 DEF BasketsOK
  <2>4. ASSUME reviewing'[v].basket # screen'.basket, screen'.basket \notin overlapped'
        PROVE  Untouched(screen.basket)'
    <3>1. Untouched(screen.basket)
      BY <2>1, <2>4 DEF BasketsOK
    <3> QED BY <1>1, <3>1
  <2> QED BY <2>2, <2>3, <2>4
<1>8. \A b \in 1..MaxBaskets : b > screen'.basket => Untouched(b)'
  BY DEF BasketsOK
<1> QED BY <1>3, <1>4, <1>5, <1>6, <1>7, <1>8 DEF BasketsOK

\* A step of the screen or of a posting that shows no ticket anew.
LEMMA ShownShrinks ==
  ASSUME CounterTypes, BasketsOK, overlapped' = overlapped, reviewing' = reviewing,
         screen'.basket = screen.basket,
         screen'.cart # NoGoods => screen.cart # NoGoods /\ screen'.draft = screen.draft,
         \A t \in Tickets :
           /\ ticket'[t].basket = ticket[t].basket
           /\ ticket'[t].status = "posted" => ticket[t].status = "posted" \/ Shown(t)
           /\ Shown(t)' => Shown(t)
  PROVE  BasketsOK'
<1>1. \A t \in Tickets : Known(t)' => Known(t)
  BY DEF Known, KnownBy
<1>2. \A b, t : For(b, t)' /\ t \in Tickets => For(b, t)
  BY <1>1 DEF For, Under, KnownBy
<1>3. \A b : Untouched(b) => Untouched(b)'
  BY DEF Untouched, Under
<1>4. \A v \in Reviews, t \in Tickets : Only(v, t) => Only(v, t)'
  BY DEF Only, KnownBy
<1>5. screen'.cart # NoGoods /\ ScreenHolds(screen.basket) => ScreenHolds(screen.basket)'
  BY <1>2, <1>4 DEF ScreenHolds
<1>6. UnderWay' = UnderWay
  BY DEF UnderWay
<1> QED BY <1>2, <1>3, <1>5, <1>6, BasketsShrink

\* A review ends, or goes on with the draft it has.
LEMMA ReviewShrinks ==
  ASSUME CounterTypes, BasketsOK, NEW v \in Reviews, NEW new,
         reviewing'[v] = new, \A w \in Reviews \ {v} : reviewing'[w] = reviewing[w],
         \/ new = NoReview
         \/ /\ <<reviewing[v].pc, new.pc>> \in {<<"save", "late">>, <<"check", "done">>}
            /\ new.basket = reviewing[v].basket /\ new.draft = reviewing[v].draft,
         UNCHANGED <<ticket, screen, posting, overlapped>>
  PROVE  BasketsOK'
<1>0. NoTicket \notin Tickets
  BY CounterAssumption DEF CounterAssumption
<1>1. \A w \in Reviews, t \in Tickets : KnownBy(w, t)' => KnownBy(w, t)
  BY <1>0 DEF KnownBy, NoReview, NoDraft
<1>2. \A w \in Reviews : \A b : Under(w, b)' => Under(w, b)
  BY DEF Under, NoReview
<1>3. \A t \in Tickets : /\ Shown(t)' = Shown(t)
                         /\ Known(t)' => Known(t)
  BY <1>1 DEF Known, Shown
<1>4. \A b, t : For(b, t)' /\ t \in Tickets => For(b, t)
  BY <1>1, <1>2, <1>3 DEF For
<1>5. \A b : Untouched(b) => Untouched(b)'
  BY <1>2 DEF Untouched
<1>6. \A w \in UnderWay' : /\ w \in UnderWay /\ reviewing'[w].basket = reviewing[w].basket
                           /\ reviewing'[w].draft.id = NoTicket =>
                                reviewing[w].draft.id = NoTicket
  BY DEF UnderWay, NoReview
<1>7. ScreenHolds(screen.basket) => ScreenHolds(screen.basket)'
  <2> SUFFICES ASSUME NEW b, b = screen.basket, ScreenHolds(b), NEW t \in Tickets, For(b, t)',
                      screen.draft.id # t
               PROVE  \E w \in Reviews : reviewing'[w].basket = b /\ Only(w, t)'
    BY DEF ScreenHolds
  <2>1. PICK w \in Reviews : reviewing[w].basket = b /\ Only(w, t)
    BY <1>4 DEF ScreenHolds
  <2>2. CASE w # v
    <3>1. Only(w, t)'
      BY <1>1, <1>3, <2>1, <2>2 DEF Only, KnownBy
    <3> QED BY <2>1, <2>2, <3>1
  <2>3. CASE w = v /\ new = NoReview
    <3>1. \A u \in Reviews : ~KnownBy(u, t)'
      BY <1>0, <1>1, <2>1, <2>3 DEF Only, KnownBy, NoReview, NoDraft
    <3>2. ~Known(t)'
      BY <1>3, <2>1, <3>1 DEF Known, Only
    <3> QED BY <3>1, <3>2 DEF For
  <2>4. CASE w = v /\ new # NoReview
    <3>1. Only(w, t)'
      BY <1>1, <1>3, <2>1, <2>4 DEF Only, KnownBy
    <3> QED BY <2>1, <2>4, <3>1
  <2> QED BY <2>2, <2>3, <2>4
<1> QED BY <1>4, <1>5, <1>6, <1>7, BasketsShrink

\* A review is shown: its ticket becomes the screen's.
LEMMA ShowShrinks ==
  ASSUME CounterTypes, BasketsOK, DraftsOK, NEW v \in Reviews, reviewing[v].pc = "done",
         reviewing'[v] = NoReview, \A w \in Reviews \ {v} : reviewing'[w] = reviewing[w],
         screen'.basket = screen.basket, screen'.cart = screen.cart,
         screen'.draft = reviewing[v].draft, screen'.review = reviewing[v].draft,
         UNCHANGED <<ticket, posting, overlapped>>
  PROVE  BasketsOK'
<1>0. NoTicket \notin Tickets
  BY CounterAssumption DEF CounterAssumption
<1>1. \A w \in Reviews, t \in Tickets : KnownBy(w, t)' => KnownBy(w, t)
  BY <1>0 DEF KnownBy, NoReview, NoDraft
<1>2. \A w \in Reviews : \A b : Under(w, b)' => Under(w, b)
  BY DEF Under, NoReview
<1>3. \A t \in Tickets : Shown(t)' => Shown(t) \/ KnownBy(v, t)
  BY DEF Shown, KnownBy
<1>4. \A t \in Tickets : Known(t)' => Known(t)
  BY <1>1, <1>3 DEF Known
<1>5. \A b, t : For(b, t)' /\ t \in Tickets => For(b, t)
  BY <1>1, <1>2, <1>4 DEF For
<1>6. \A b : Untouched(b) => Untouched(b)'
  BY <1>2 DEF Untouched
<1>7. \A w \in UnderWay' : /\ w \in UnderWay /\ reviewing'[w].basket = reviewing[w].basket
                           /\ reviewing'[w].draft.id = NoTicket =>
                                reviewing[w].draft.id = NoTicket
  BY DEF UnderWay, NoReview
<1>8. ASSUME screen.basket \in (1..MaxBaskets) \ overlapped
      PROVE  ScreenHolds(screen.basket)'
  <2> SUFFICES ASSUME NEW b, b = screen.basket, NEW t \in Tickets, For(b, t)'
               PROVE  screen'.draft.id = t
    BY DEF ScreenHolds
  <2>1. For(b, t)
    BY <1>5
  <2>2. v \in UnderWay
    BY DEF UnderWay
  <2>3. CASE reviewing[v].basket = b
    <3>1. reviewing[v].draft.id \in Tickets
      BY DEF DraftsOK, CounterTypes, ReviewType, Drafts
    <3>2. For(b, reviewing[v].draft.id)
      BY <2>3 DEF For, Under, KnownBy
    <3> QED BY <1>8, <2>1, <3>1, <3>2 DEF BasketsOK, OneTicket
  <2>4. CASE reviewing[v].basket # b
    <3>1. Untouched(b)
      BY <1>8, <2>2, <2>4 DEF BasketsOK
    <3> QED BY <2>1, <3>1 DEF Untouched, For
  <2> QED BY <2>3, <2>4
<1> QED BY <1>5, <1>6, <1>7, <1>8, BasketsShrink

\* A review saves its basket into the draft it has.
LEMMA SaveOldShrinks ==
  ASSUME CounterTypes, BasketsOK, NEW v \in Reviews, NEW s \in Tickets, NEW new,
         reviewing[v].pc \in {"save", "late"}, reviewing[v].draft.id = s,
         reviewing'[v] = new, \A w \in Reviews \ {v} : reviewing'[w] = reviewing[w],
         \/ new = NoReview
         \/ /\ reviewing[v].pc = "save" /\ new.pc = "check"
            /\ new.basket = reviewing[v].basket /\ new.draft.id = s,
         ticket[s].status = "draft", ticket'[s].status = "draft",
         ticket'[s].basket = reviewing[v].basket,
         \A t \in Tickets \ {s} : ticket'[t] = ticket[t],
         UNCHANGED <<screen, posting, overlapped>>
  PROVE  BasketsOK'
<1>0. NoTicket \notin Tickets
  BY CounterAssumption DEF CounterAssumption
<1>1. \A w \in Reviews, t \in Tickets : KnownBy(w, t)' => KnownBy(w, t)
  BY <1>0 DEF KnownBy, NoReview, NoDraft
<1>2. \A w \in Reviews : \A b : Under(w, b)' => Under(w, b)
  BY DEF Under, NoReview
<1>3. \A t \in Tickets : /\ Shown(t)' = Shown(t)
                         /\ Known(t)' => Known(t)
  BY <1>1 DEF Known, Shown
<1>4. For(reviewing[v].basket, s)
  BY DEF For, Under, KnownBy
<1>5. \A b, t : For(b, t)' /\ t \in Tickets => For(b, t)
  BY <1>1, <1>2, <1>3, <1>4 DEF For
<1>6. \A b : Untouched(b) => Untouched(b)'
  <2>1. Under(v, reviewing[v].basket)
    BY DEF Under
  <2> QED BY <1>2, <2>1 DEF Untouched
<1>7. \A w \in UnderWay' : /\ w \in UnderWay /\ reviewing'[w].basket = reviewing[w].basket
                           /\ reviewing'[w].draft.id = NoTicket =>
                                reviewing[w].draft.id = NoTicket
  BY <1>0 DEF UnderWay, NoReview
<1>8. ScreenHolds(screen.basket) => ScreenHolds(screen.basket)'
  <2> SUFFICES ASSUME NEW b, b = screen.basket, ScreenHolds(b), NEW t \in Tickets, For(b, t)',
                      screen.draft.id # t
               PROVE  \E w \in Reviews : reviewing'[w].basket = b /\ Only(w, t)'
    BY DEF ScreenHolds
  <2>1. PICK w \in Reviews : reviewing[w].basket = b /\ Only(w, t)
    BY <1>5 DEF ScreenHolds
  <2>2. w # v
    BY <2>1 DEF Only
  <2>3. t # s
    BY <2>1, <2>2 DEF Only, KnownBy
  <2>4. Only(w, t)'
    BY <1>1, <1>3, <2>1, <2>2, <2>3 DEF Only, KnownBy
  <2> QED BY <2>1, <2>2, <2>4
<1> QED BY <1>5, <1>6, <1>7, <1>8, BasketsShrink

\* A review saves its basket as a new draft: nobody else knows of it.
LEMMA SaveNewBaskets ==
  ASSUME CounterTypes, BasketsOK, DraftsOK, TicketsOK,
         NEW v \in Reviews, NEW s \in Tickets, NEW new,
         reviewing[v].pc \in {"save", "late"}, reviewing[v].draft.id = NoTicket,
         ticket[s].status = "none", ticket'[s].status = "draft",
         ticket'[s].basket = reviewing[v].basket,
         \A t \in Tickets \ {s} : ticket'[t] = ticket[t],
         reviewing'[v] = new, \A w \in Reviews \ {v} : reviewing'[w] = reviewing[w],
         \/ reviewing[v].pc = "late" /\ new = NoReview
         \/ /\ reviewing[v].pc = "save" /\ new.pc = "check"
            /\ new.basket = reviewing[v].basket /\ new.draft.id = s,
         UNCHANGED <<screen, posting, overlapped>>
  PROVE  BasketsOK'
<1>0. NoTicket \notin Tickets
  BY CounterAssumption DEF CounterAssumption
<1>1. /\ \A w \in Reviews : reviewing[w].draft.id # s
      /\ ~Shown(s)
  <2>1. /\ \A w \in Reviews : Faithful(reviewing[w].draft)
        /\ \A p \in Postings : Faithful(posting[p].of)
        /\ Faithful(screen.draft)
        /\ screen.review # NoDraft => Faithful(screen.review)
    BY DEF DraftsOK
  <2>2. \A d : Faithful(d) => d.id # s
    BY <1>0 DEF Faithful
  <2> QED BY <1>0, <2>1, <2>2 DEF Shown, NoDraft
<1>2. \A w \in Reviews, t \in Tickets \ {s} : KnownBy(w, t)' => KnownBy(w, t)
  BY <1>0 DEF KnownBy, NoReview, NoDraft
<1>3. \A w \in Reviews : \A b : Under(w, b)' => Under(w, b)
  BY DEF Under, NoReview
<1>4. \A t \in Tickets : Shown(t)' = Shown(t)
  BY DEF Shown
<1>5. \A t \in Tickets \ {s} : Known(t)' => Known(t)
  BY <1>2, <1>4 DEF Known
<1>6. \A b, t : For(b, t)' /\ t \in Tickets \ {s} => For(b, t)
  BY <1>2, <1>3, <1>5 DEF For
<1>7. \A b : Untouched(b) => Untouched(b)'
  <2>1. Under(v, reviewing[v].basket)
    BY DEF Under
  <2> QED BY <1>3, <2>1 DEF Untouched
<1>8. \A w \in UnderWay' : /\ w \in UnderWay /\ reviewing'[w].basket = reviewing[w].basket
                           /\ reviewing'[w].draft.id = NoTicket =>
                                w # v /\ reviewing[w].draft.id = NoTicket
  BY <1>0 DEF UnderWay, NoReview
<1>9. CASE reviewing[v].pc = "late"
  <2>1. \A w \in Reviews : ~KnownBy(w, s)'
    BY <1>0, <1>1, <1>9 DEF KnownBy, NoReview, NoDraft
  <2>2. ~Known(s)'
    BY <1>1, <1>4, <2>1 DEF Known
  <2>3. \A b : ~For(b, s)'
    BY <2>1, <2>2 DEF For
  <2>4. ScreenHolds(screen.basket) => ScreenHolds(screen.basket)'
    <3> SUFFICES ASSUME NEW b, b = screen.basket, ScreenHolds(b), NEW t \in Tickets, For(b, t)',
                        screen.draft.id # t
                 PROVE  \E w \in Reviews : reviewing'[w].basket = b /\ Only(w, t)'
      BY DEF ScreenHolds
    <3>1. t # s
      BY <2>3
    <3>2. PICK w \in Reviews : reviewing[w].basket = b /\ Only(w, t)
      BY <1>6, <3>1 DEF ScreenHolds
    <3>3. w # v
      BY <1>9, <3>2 DEF Only
    <3>4. Only(w, t)'
      BY <1>2, <1>4, <3>1, <3>2, <3>3 DEF Only, KnownBy
    <3> QED BY <3>2, <3>3, <3>4
  <2> QED BY <1>6, <1>7, <1>8, <2>3, <2>4, BasketsShrink
<1>10. CASE reviewing[v].pc = "save"
  <2>1. PICK b0 : b0 = reviewing[v].basket
    OBVIOUS
  <2>2. v \in UnderWay /\ b0 \in 1..MaxBaskets
    <3>1. v \in UnderWay
      BY <1>10 DEF UnderWay
    <3> QED BY <2>1, <3>1 DEF BasketsOK, CounterTypes, ReviewType
  <2>3. b0 \notin overlapped => \A t \in Tickets : ~For(b0, t)
    BY <2>1, <2>2 DEF BasketsOK
  <2>4. \A b : For(b, s)' => b = b0
    <3>1. \A w \in Reviews : KnownBy(w, s)' => w = v
      BY <1>1 DEF KnownBy
    <3> QED BY <1>10, <2>1, <3>1 DEF For, Under
  <2>5. OverlapsMarked'
    BY <1>8 DEF BasketsOK, OverlapsMarked
  <2>6. \A b \in (1..MaxBaskets) \ overlapped : OneTicket(b)'
    BY <1>6, <2>3, <2>4 DEF BasketsOK, OneTicket
  <2>7. ASSUME screen.basket \notin overlapped, screen.cart # NoGoods
        PROVE  ScreenHolds(screen.basket)'
    <3> SUFFICES ASSUME NEW b, b = screen.basket, NEW t \in Tickets, For(b, t)',
                        screen.draft.id # t
                 PROVE  \E w \in Reviews : reviewing'[w].basket = b /\ Only(w, t)'
      BY DEF ScreenHolds
    <3>1. CASE t = s
      <4>1. b = b0 /\ new.pc = "check"
        BY <1>0, <1>10, <2>4, <3>1
      <4>2. Only(v, s)'
        <5>1. \A w \in Reviews \ {v} : ~KnownBy(w, s)'
          BY <1>1 DEF KnownBy
        <5>2. KnownBy(v, s)'
          BY <1>10 DEF KnownBy
        <5> QED BY <1>1, <1>4, <4>1, <5>1, <5>2 DEF Only
      <4> QED BY <1>10, <2>1, <3>1, <4>1, <4>2
    <3>2. CASE t # s
      <4>1. ScreenHolds(b)
        BY <2>7 DEF BasketsOK
      <4>2. PICK w \in Reviews : reviewing[w].basket = b /\ Only(w, t)
        BY <1>6, <3>2, <4>1 DEF ScreenHolds
      <4>3. w # v
        BY <1>10, <4>2 DEF Only
      <4>4. Only(w, t)'
        BY <1>2, <1>4, <3>2, <4>2, <4>3 DEF Only, KnownBy
      <4> QED BY <4>2, <4>3, <4>4
    <3> QED BY <3>1, <3>2
  <2>8. ASSUME NEW w \in UnderWay'
        PROVE  /\ reviewing'[w].basket # 0
               /\ reviewing'[w].draft.id = NoTicket /\ reviewing'[w].basket \notin overlapped' =>
                    \A t \in Tickets : ~For(reviewing[w].basket, t)'
               /\ reviewing'[w].basket # screen'.basket /\ screen'.basket \notin overlapped' =>
                    Untouched(screen.basket)'
    <3>1. w \in UnderWay /\ reviewing'[w].basket = reviewing[w].basket
      BY <1>8, <2>8
    <3>2. ASSUME reviewing'[w].draft.id = NoTicket, reviewing'[w].basket \notin overlapped'
          PROVE  \A t \in Tickets : ~For(reviewing[w].basket, t)'
      <4>1. w # v /\ reviewing[w].draft.id = NoTicket
        BY <1>8, <2>8, <3>2
      <4>2. reviewing[w].basket \in overlapped
        BY <2>2, <3>1, <4>1 DEF BasketsOK, OverlapsMarked
      <4> QED BY <3>1, <3>2, <4>2
    <3> QED BY <1>7, <3>1, <3>2 DEF BasketsOK
  <2>9. \A b \in 1..MaxBaskets : b > screen'.basket => Untouched(b)'
    BY <1>7 DEF BasketsOK
  <2> QED BY <2>5, <2>6, <2>7, <2>8, <2>9 DEF BasketsOK
<1> QED BY <1>9, <1>10

\* A review begins: if another is under way both baskets are marked, and if
\* not, the screen knows the basket's ticket.
LEMMA BeginBaskets ==
  ASSUME CounterTypes, BasketsOK, NEW v \in Reviews,
         screen.cart # NoGoods, reviewing[v] = NoReview,
         reviewing'[v].pc = "save", reviewing'[v].basket = screen.basket,
         reviewing'[v].draft = screen.draft,
         \A w \in Reviews \ {v} : reviewing'[w] = reviewing[w],
         overlapped' = IF UnderWay = {} THEN overlapped
           ELSE overlapped \cup {screen.basket} \cup {reviewing[w].basket : w \in UnderWay},
         UNCHANGED <<ticket, screen, posting>>
  PROVE  BasketsOK'
<1>0. NoTicket \notin Tickets
  BY CounterAssumption DEF CounterAssumption
<1>1. screen.basket \in 1..MaxBaskets
  BY DEF CounterTypes, ScreenType, BasketsOK
<1>2. /\ v \notin UnderWay /\ UnderWay' = UnderWay \cup {v}
      /\ \A w \in UnderWay : w # v /\ reviewing'[w] = reviewing[w]
  BY DEF UnderWay, NoReview
<1>3. \A w \in Reviews, t \in Tickets :
        KnownBy(w, t)' => KnownBy(w, t) \/ (w = v /\ screen.draft.id = t)
  BY DEF KnownBy
<1>4. \A t \in Tickets : Shown(t)' = Shown(t)
  BY DEF Shown
<1>5. \A t \in Tickets : Known(t)' => Known(t)
  BY <1>3, <1>4 DEF Known, Shown
<1>6. \A b, t : For(b, t)' /\ t \in Tickets =>
                  For(b, t) \/ (b = screen.basket /\ screen.draft.id = t)
  <2>1. \A w \in Reviews : \A b, t : Under(w, b)' /\ KnownBy(w, t)' =>
          \/ Under(w, b) /\ KnownBy(w, t)
          \/ b = screen.basket /\ screen.draft.id = t
    BY DEF Under, KnownBy
  <2> QED BY <1>5, <2>1 DEF For
<1>7. overlapped \subseteq overlapped'
  OBVIOUS
<1>8. UnderWay # {} => screen.basket \in overlapped'
                       /\ \A w \in UnderWay : reviewing[w].basket \in overlapped'
  OBVIOUS
<1>9. ASSUME UnderWay = {}, screen.basket \notin overlapped'
      PROVE  \A t \in Tickets : For(screen.basket, t) => screen.draft.id = t
  <2>1. ScreenHolds(screen.basket)
    BY <1>7, <1>9 DEF BasketsOK
  <2>2. \A w \in Reviews, t \in Tickets : ~Only(w, t)
    BY <1>9 DEF Only, UnderWay
  <2> QED BY <2>1, <2>2 DEF ScreenHolds
<1>10. OverlapsMarked'
  BY <1>2, <1>7, <1>8 DEF BasketsOK, OverlapsMarked
<1>11. \A b \in (1..MaxBaskets) \ overlapped' : OneTicket(b)'
  <2> SUFFICES ASSUME NEW b \in (1..MaxBaskets) \ overlapped', NEW t \in Tickets,
                      NEW u \in Tickets, For(b, t)', For(b, u)'
               PROVE  t = u
    BY DEF OneTicket
  <2>1. CASE b = screen.basket
    <3>1. UnderWay = {}
      BY <1>8, <2>1
    <3> QED BY <1>6, <1>9, <2>1, <3>1
  <2>2. CASE b # screen.basket
    BY <1>6, <1>7, <2>2 DEF BasketsOK, OneTicket
  <2> QED BY <2>1, <2>2
<1>12. screen'.basket \notin overlapped' /\ screen'.cart # NoGoods => ScreenHolds(screen.basket)'
  <2> SUFFICES ASSUME NEW b, b = screen.basket, b \notin overlapped', NEW t \in Tickets,
                      For(b, t)'
               PROVE  screen'.draft.id = t
    BY DEF ScreenHolds
  <2>1. UnderWay = {}
    BY <1>8
  <2> QED BY <1>6, <1>9, <2>1
<1>13. ASSUME NEW w \in UnderWay'
       PROVE  /\ reviewing'[w].basket # 0
              /\ reviewing'[w].draft.id = NoTicket /\ reviewing'[w].basket \notin overlapped' =>
                   \A t \in Tickets : ~For(reviewing[w].basket, t)'
              /\ reviewing'[w].basket # screen'.basket /\ screen'.basket \notin overlapped' =>
                   Untouched(screen.basket)'
  <2>1. CASE w = v
    <3>1. reviewing'[w].basket = screen.basket /\ reviewing'[w].draft = screen.draft
      BY <2>1
    <3>2. ASSUME screen.draft.id = NoTicket, screen.basket \notin overlapped'
          PROVE  \A t \in Tickets : ~For(screen.basket, t)'
      <4>1. UnderWay = {}
        BY <1>8, <3>2
      <4>2. PICK b : b = screen.basket
        OBVIOUS
      <4>3. \A t \in Tickets : ~For(b, t)
        BY <1>0, <1>9, <3>2, <4>1, <4>2
      <4>4. \A t \in Tickets : ~For(b, t)'
        BY <1>0, <1>6, <3>2, <4>3
      <4> QED BY <4>2, <4>4
    <3> QED BY <1>1, <3>1, <3>2
  <2>2. CASE w # v
    <3>1. w \in UnderWay /\ reviewing'[w] = reviewing[w]
      BY <1>2, <1>13, <2>2
    <3> QED BY <1>8, <3>1 DEF BasketsOK
  <2> QED BY <2>1, <2>2
<1>14. \A b \in 1..MaxBaskets : b > screen'.basket => Untouched(b)'
  BY <1>1 DEF BasketsOK, Untouched, Under
<1> QED
  <2>1. \A w \in UnderWay' :
          /\ reviewing'[w].basket # 0
          /\ reviewing'[w].draft.id = NoTicket /\ reviewing'[w].basket \notin overlapped' =>
               \A t \in Tickets : ~For(reviewing[w].basket, t)'
          /\ reviewing'[w].basket # screen'.basket /\ screen'.basket \notin overlapped' =>
               Untouched(screen.basket)'
    BY <1>13
  <2> QED BY <1>1, <1>7, <1>10, <1>11, <1>12, <1>14, <2>1 DEF BasketsOK

\* The screen turns to a new basket.
LEMMA NewBasketBaskets ==
  ASSUME CounterTypes, BasketsOK, screen.basket < MaxBaskets,
         screen'.basket = screen.basket + 1, screen'.draft = screen.draft,
         screen'.review = NoDraft,
         UNCHANGED <<ticket, reviewing, posting, overlapped>>
  PROVE  BasketsOK'
<1>0. NoTicket \notin Tickets /\ screen.basket \in Nat /\ MaxBaskets \in Nat
  BY CounterAssumption DEF CounterAssumption, CounterTypes, ScreenType
<1>1. \A t \in Tickets : Known(t)' => Known(t)
  BY <1>0 DEF Known, Shown, KnownBy, NoDraft
<1>2. \A b, t : For(b, t)' /\ t \in Tickets => For(b, t)
  BY <1>1 DEF For, Under, KnownBy
<1>3. \A b : Untouched(b)' = Untouched(b)
  BY DEF Untouched, Under
<1>4. PICK n : n = screen.basket + 1
  OBVIOUS
<1>5. n \in 1..MaxBaskets /\ Untouched(n) /\ screen'.basket = n
  BY <1>0, <1>4 DEF BasketsOK
<1>6. ScreenHolds(n)'
  <2>1. \A t \in Tickets : ~For(n, t)
    BY <1>5 DEF Untouched, For
  <2>2. \A t \in Tickets : ~For(n, t)'
    BY <1>2, <2>1
  <2> QED BY <2>2 DEF ScreenHolds
<1>7. OverlapsMarked' /\ UnderWay' = UnderWay
  BY DEF BasketsOK, OverlapsMarked, UnderWay
<1>8. \A b \in (1..MaxBaskets) \ overlapped : OneTicket(b)'
  BY <1>2 DEF BasketsOK, OneTicket
<1>9. ASSUME NEW w \in UnderWay'
      PROVE  /\ reviewing'[w].basket # 0
             /\ reviewing'[w].draft.id = NoTicket /\ reviewing'[w].basket \notin overlapped' =>
                  \A t \in Tickets : ~For(reviewing[w].basket, t)'
  <2>1. w \in UnderWay
    BY <1>7, <1>9
  <2>2. PICK b : b = reviewing[w].basket
    OBVIOUS
  <2>3. b # 0
    BY <2>1, <2>2 DEF BasketsOK
  <2>4. ASSUME reviewing[w].draft.id = NoTicket, b \notin overlapped
        PROVE  \A t \in Tickets : ~For(b, t)'
    <3>1. \A t \in Tickets : ~For(b, t)
      BY <2>1, <2>2, <2>4 DEF BasketsOK
    <3> QED BY <1>2, <3>1
  <2> QED BY <2>2, <2>3, <2>4
<1>10. \A b \in 1..MaxBaskets : b > n => Untouched(b)'
  BY <1>0, <1>3, <1>4 DEF BasketsOK
<1>11. Untouched(n)'
  BY <1>3, <1>5
<1>12. Untouched(screen.basket)' /\ ScreenHolds(screen.basket)'
  <2>1. PICK m : m = screen'.basket
    OBVIOUS
  <2>2. Untouched(m)' /\ ScreenHolds(m)'
    BY <1>5, <1>6, <1>11, <2>1
  <2> QED BY <2>1, <2>2
<1>13. screen'.basket # 0
  BY <1>5
<1>14. \A b \in 1..MaxBaskets : b > screen'.basket => Untouched(b)'
  BY <1>5, <1>10
<1> QED BY <1>7, <1>8, <1>9, <1>12, <1>13, <1>14 DEF BasketsOK

\* The rows, drafts and calls that are not there are of their types.
LEMMA NoneTyped ==
  /\ NoDraft \in Drafts /\ NoReview \in ReviewType /\ NoPosting \in PostingType
  /\ NewTicket \in TicketType
BY CounterAssumption
DEF CounterAssumption, NoDraft, Drafts, NoReview, ReviewType, NoPosting, PostingType, NewTicket,
    TicketType

\* The drafts people know of stay faithful, as every save makes a new version.
LEMMA FaithfulKept ==
  ASSUME CounterTypes, CounterTypes', NEW d \in Drafts, Faithful(d),
         \A t \in Tickets :
           \/ ticket'[t] = ticket[t]
           \/ ticket[t].status = "none"
           \/ ticket'[t].status # "none" /\ ticket'[t].version = ticket[t].version + 1
  PROVE  Faithful(d)'
<1>1. CASE d.id = NoTicket
  BY <1>1 DEF Faithful
<1>2. CASE d.id # NoTicket
  <2>1. PICK t \in Tickets : t = d.id
    BY <1>2 DEF Drafts
  <2>2. d.version \in Nat /\ ticket[t].version \in Nat
    BY DEF Drafts, CounterTypes, TicketType
  <2>3. /\ ticket[t].status # "none" /\ d.version <= ticket[t].version
        /\ d.version = ticket[t].version => d.goods = ticket[t].goods
    BY <1>2, <2>1 DEF Faithful
  <2>4. /\ ticket'[t].status # "none" /\ d.version <= ticket'[t].version
        /\ d.version = ticket'[t].version => d.goods = ticket'[t].goods
    BY <2>2, <2>3
  <2> QED BY <2>1, <2>4 DEF Faithful
<1> QED BY <1>1, <1>2

\* A step that changes no ticket: what the screen, the reviews and the postings
\* show was shown before.
LEMMA DraftsShrink ==
  ASSUME DraftsOK, ticket' = ticket,
         \/ screen'.draft = NoDraft
         \/ screen'.draft = screen.draft
         \/ \E v \in Reviews : screen'.draft = reviewing[v].draft,
         screen'.review # NoDraft =>
           \/ screen'.review = screen'.draft /\ screen'.review.id # NoTicket
           \/ screen'.review = screen.review /\ screen'.draft = screen.draft,
         \A v \in Reviews :
           \/ reviewing'[v] = reviewing[v]
           \/ reviewing'[v] = NoReview
           \/ /\ reviewing'[v].pc # "idle"
              /\ reviewing'[v].pc \in {"check", "done"} => reviewing[v].pc = "check"
              /\ reviewing'[v].goods = reviewing[v].goods
              /\ reviewing'[v].draft = reviewing[v].draft
           \/ reviewing'[v].pc = "save" /\ reviewing'[v].draft = screen.draft,
         \A p \in Postings :
           \/ posting'[p] = posting[p]
           \/ posting'[p] = NoPosting
           \/ /\ posting[p].pc # "idle" /\ posting'[p].pc # "idle"
              /\ posting'[p].of = posting[p].of
           \/ /\ posting'[p].pc # "idle" /\ screen.review # NoDraft
              /\ posting'[p].of = screen.review
  PROVE  DraftsOK'
<1>1. Faithful(NoDraft)
  BY DEF Faithful, NoDraft
<1>2. \A d : Faithful(d) => Faithful(d)'
  BY DEF Faithful
<1>3. Faithful(screen.draft)'
  <2>1. PICK d : d = screen'.draft
    OBVIOUS
  <2>2. Faithful(d)
    BY <1>1, <2>1 DEF DraftsOK
  <2> QED BY <1>2, <2>1, <2>2
<1>4. screen'.review # NoDraft =>
        screen'.review = screen'.draft /\ screen'.review.id # NoTicket
  BY DEF DraftsOK
<1>5. ASSUME NEW v \in Reviews
      PROVE  /\ Faithful(reviewing[v].draft)'
             /\ reviewing'[v].pc \in {"check", "done"} =>
                  /\ reviewing'[v].draft.id # NoTicket
                  /\ reviewing'[v].draft.goods = reviewing'[v].goods
             /\ reviewing'[v].pc = "idle" => reviewing'[v] = NoReview
  <2>1. PICK d : d = reviewing'[v].draft
    OBVIOUS
  <2>2. Faithful(d)
    BY <1>1, <2>1 DEF DraftsOK, NoReview
  <2>3. Faithful(reviewing[v].draft)'
    BY <1>2, <2>1, <2>2
  <2> QED BY <2>3 DEF DraftsOK, NoReview
<1>6. ASSUME NEW p \in Postings
      PROVE  /\ Faithful(posting[p].of)'
             /\ posting'[p].pc = "idle" => posting'[p] = NoPosting
             /\ posting'[p].pc # "idle" => posting'[p].of.id # NoTicket
  <2>1. PICK d : d = posting'[p].of
    OBVIOUS
  <2>2. Faithful(d)
    BY <1>1, <2>1 DEF DraftsOK, NoPosting
  <2>3. Faithful(posting[p].of)'
    BY <1>2, <2>1, <2>2
  <2>4. posting'[p].pc = "idle" => posting'[p] = NoPosting
    BY DEF DraftsOK
  <2>5. posting'[p].pc # "idle" => posting'[p].of.id # NoTicket
    <3>1. NoPosting.pc = "idle"
      BY DEF NoPosting
    <3> QED BY <3>1 DEF DraftsOK
  <2> QED BY <2>3, <2>4, <2>5
<1> QED BY <1>3, <1>4, <1>5, <1>6 DEF DraftsOK

\* The tickets stay in order when they stay as they are.
LEMMA TicketsKept == TicketsOK /\ ticket' = ticket => TicketsOK'
BY DEF TicketsOK

-----------------------------------------------------------------------------
(* Reviewing.                                                               *)

\* A review ends, or goes on with the draft it has.
LEMMA ReviewStep ==
  ASSUME CounterInv, NEW v \in Reviews, NEW new \in ReviewType,
         reviewing' = [reviewing EXCEPT ![v] = new],
         \/ new = NoReview
         \/ /\ <<reviewing[v].pc, new.pc>> \in {<<"save", "late">>, <<"check", "done">>}
            /\ new.basket = reviewing[v].basket /\ new.draft = reviewing[v].draft
            /\ new.goods = reviewing[v].goods,
         UNCHANGED <<ticket, screen, posting, overlapped>>
  PROVE  CounterInv'
<1>1. reviewing'[v] = new /\ \A w \in Reviews \ {v} : reviewing'[w] = reviewing[w]
  BY DEF CounterInv, CounterTypes
<1>2. CounterTypes'
  BY DEF CounterInv, CounterTypes
<1>3. DraftsOK'
  BY <1>1, DraftsShrink DEF CounterInv
<1>4. BasketsOK'
  BY <1>1, ReviewShrinks DEF CounterInv
<1> QED BY <1>2, <1>3, <1>4, TicketsKept DEF CounterInv

\* Forgetting a review keeps the invariant.
LEMMA AbandonStep ==
  ASSUME CounterInv, NEW v \in Reviews, Abandon(v),
         UNCHANGED <<ticket, screen, posting, overlapped>>
  PROVE  CounterInv'
BY NoneTyped, ReviewStep DEF Abandon

\* A review of which only the control state changes.
LEMMA MovedReview ==
  ASSUME CounterTypes, NEW v \in Reviews, NEW pc \in {"late", "done"}, NEW new,
         new = [reviewing[v] EXCEPT !.pc = pc]
  PROVE  /\ new \in ReviewType /\ new.pc = pc /\ new.basket = reviewing[v].basket
         /\ new.draft = reviewing[v].draft /\ new.goods = reviewing[v].goods
<1>1. PICK old \in ReviewType : old = reviewing[v]
  BY DEF CounterTypes
<1>2. new = [old EXCEPT !.pc = pc]
  BY <1>1
<1> QED BY <1>1, <1>2 DEF ReviewType

\* Giving up a review at the page keeps the invariant.
LEMMA GiveUpReviewStep ==
  ASSUME CounterInv, NEW v \in Reviews, GiveUpReview(v)
  PROVE  CounterInv'
<1>1. CASE reviewing[v].pc = "save"
  <2>1. PICK new : new = [reviewing[v] EXCEPT !.pc = "late"]
    OBVIOUS
  <2>2. /\ new \in ReviewType /\ new.pc = "late" /\ new.basket = reviewing[v].basket
        /\ new.draft = reviewing[v].draft /\ new.goods = reviewing[v].goods
    BY <2>1, MovedReview DEF CounterInv
  <2>3. /\ reviewing' = [reviewing EXCEPT ![v] = new]
        /\ UNCHANGED <<ticket, screen, posting, overlapped>>
    BY <1>1, <2>1 DEF GiveUpReview, CounterInv, CounterTypes
  <2> HIDE DEF CounterInv
  <2> QED BY <1>1, <2>2, <2>3, ReviewStep
<1>2. CASE reviewing[v].pc # "save"
  <2>1. reviewing' = [reviewing EXCEPT ![v] = NoReview]
        /\ UNCHANGED <<ticket, screen, posting, overlapped>>
    BY <1>2 DEF GiveUpReview
  <2> QED BY <2>1, AbandonStep DEF Abandon
<1> QED BY <1>1, <1>2

\* Calculating a saved draft keeps the invariant.
LEMMA CheckDraftStep ==
  ASSUME CounterInv, NEW v \in Reviews, CheckDraft(v)
  PROVE  CounterInv'
<1>1. CASE Abandon(v)
  BY <1>1, AbandonStep DEF CheckDraft
<1>2. CASE reviewing' = [reviewing EXCEPT ![v].pc = "done"]
  <2>1. PICK new : new = [reviewing[v] EXCEPT !.pc = "done"]
    OBVIOUS
  <2>2. /\ new \in ReviewType /\ new.pc = "done" /\ new.basket = reviewing[v].basket
        /\ new.draft = reviewing[v].draft /\ new.goods = reviewing[v].goods
    BY <2>1, MovedReview DEF CounterInv
  <2>3. /\ reviewing' = [reviewing EXCEPT ![v] = new] /\ reviewing[v].pc = "check"
        /\ UNCHANGED <<ticket, screen, posting, overlapped>>
    BY <1>2, <2>1 DEF CheckDraft, CounterInv, CounterTypes
  <2> QED BY <2>2, <2>3, ReviewStep
<1> QED BY <1>1, <1>2 DEF CheckDraft

\* Losing a review keeps the invariant.
LEMMA LoseReviewStep ==
  ASSUME CounterInv, NEW v \in Reviews, LoseReview(v)
  PROVE  CounterInv'
BY AbandonStep DEF LoseReview

\* Beginning a review keeps the invariant.
LEMMA BeginReviewStep ==
  ASSUME CounterInv, NEW v \in Reviews, BeginReview(v)
  PROVE  CounterInv'
<1>1. PICK new : new = [pc |-> "save", basket |-> screen.basket, goods |-> screen.cart,
                        draft |-> screen.draft]
  OBVIOUS
<1>2. /\ new \in ReviewType /\ new.pc = "save" /\ new.basket = screen.basket
      /\ new.draft = screen.draft
  BY <1>1 DEF CounterInv, CounterTypes, ScreenType, ReviewType
<1>3. reviewing' = [reviewing EXCEPT ![v] = new]
  BY <1>1 DEF BeginReview
<1>4. reviewing'[v] = new /\ \A w \in Reviews \ {v} : reviewing'[w] = reviewing[w]
  BY <1>3 DEF CounterInv, CounterTypes
<1>5. UNCHANGED <<ticket, screen, posting>>
  BY DEF BeginReview
<1>6. BasketsOK'
  BY <1>2, <1>4, <1>5, BeginBaskets DEF BeginReview, CounterInv
<1>7. DraftsOK'
  BY <1>2, <1>4, <1>5, DraftsShrink DEF CounterInv
<1>8. CounterTypes'
  <2>1. overlapped' \subseteq 1..MaxBaskets
    <3>1. \A w \in UnderWay : reviewing[w].basket \in 1..MaxBaskets
      BY DEF CounterInv, CounterTypes, ReviewType, BasketsOK, UnderWay
    <3>2. screen.basket \in 1..MaxBaskets
      BY DEF CounterInv, CounterTypes, ScreenType, BasketsOK, BeginReview
    <3> QED BY <3>1, <3>2 DEF BeginReview, CounterInv, CounterTypes
  <2> QED BY <1>2, <1>3, <1>5, <2>1 DEF CounterInv, CounterTypes
<1> QED BY <1>5, <1>6, <1>7, <1>8, TicketsKept DEF CounterInv

\* Showing a review keeps the invariant: it is of the basket or was overtaken.
LEMMA ShowReviewStep ==
  ASSUME CounterInv, NEW v \in Reviews, ShowReview(v)
  PROVE  CounterInv'
<1>1. PICK old \in ScreenType : old = screen
  BY DEF CounterInv, CounterTypes
<1>2. PICK d, n : d = reviewing[v].draft /\ n = old.reviewed + 1
  OBVIOUS
<1>3. d \in Drafts /\ n \in 0..MaxReviewed
  BY <1>1, <1>2, CounterAssumption
  DEF CounterInv, CounterTypes, ReviewType, ShowReview, ScreenType, CounterAssumption
<1>4. PICK s : s = [old EXCEPT !.draft = d, !.review = d, !.key = n, !.reviewed = n,
                               !.overlay = "review"]
  OBVIOUS
<1>5. s \in ScreenType /\ s.basket = old.basket /\ s.cart = old.cart /\ s.draft = d
      /\ s.review = d
  BY <1>3, <1>4 DEF ScreenType
<1>6. screen' = s
  BY <1>1, <1>2, <1>4 DEF ShowReview, ScreenType
<1>7. reviewing' = [reviewing EXCEPT ![v] = NoReview] /\ reviewing[v].pc = "done"
      /\ UNCHANGED <<ticket, posting, overlapped>>
  BY DEF ShowReview, Abandon
<1>8. reviewing'[v] = NoReview /\ \A w \in Reviews \ {v} : reviewing'[w] = reviewing[w]
  BY <1>7 DEF CounterInv, CounterTypes
<1>9. CounterTypes'
  BY <1>5, <1>6, <1>7, NoneTyped DEF CounterInv, CounterTypes
<1>10. BasketsOK'
  BY <1>1, <1>2, <1>5, <1>6, <1>7, <1>8, ShowShrinks DEF CounterInv
<1>11. DraftsOK'
  <2>1. d.id # NoTicket
    BY <1>2, <1>7 DEF CounterInv, DraftsOK
  <2> QED BY <1>2, <1>5, <1>6, <1>7, <1>8, <2>1, DraftsShrink DEF CounterInv
<1> QED BY <1>7, <1>9, <1>10, <1>11, TicketsKept DEF CounterInv

-----------------------------------------------------------------------------
(* Saving.                                                                  *)

SavedAs(v, t, n) ==
  IF reviewing[v].pc = "late" THEN NoReview
  ELSE [reviewing[v] EXCEPT !.pc = "check",
          !.draft = [id |-> t, version |-> n, goods |-> reviewing[v].goods]]

\* What becomes of a review that saved its basket as a ticket.
LEMMA SavedReview ==
  ASSUME CounterTypes, NEW v \in Reviews, NEW t \in Tickets, NEW n \in Nat, NEW new,
         reviewing[v].pc \in {"save", "late"},
         new = SavedAs(v, t, n)
  PROVE  /\ new \in ReviewType
         /\ \/ reviewing[v].pc = "late" /\ new = NoReview
            \/ /\ reviewing[v].pc = "save" /\ new.pc = "check"
               /\ new.basket = reviewing[v].basket /\ new.goods = reviewing[v].goods
               /\ new.draft.id = t /\ new.draft.version = n
               /\ new.draft.goods = reviewing[v].goods
<1>1. CASE reviewing[v].pc = "late"
  BY <1>1, NoneTyped DEF SavedAs
<1>2. CASE reviewing[v].pc = "save"
  <2>1. PICK old \in ReviewType : old = reviewing[v]
    BY DEF CounterTypes
  <2>2. PICK d : d = [id |-> t, version |-> n, goods |-> old.goods]
    OBVIOUS
  <2>3. d \in Drafts /\ d.id = t /\ d.version = n /\ d.goods = old.goods
    BY <2>2 DEF Drafts, ReviewType
  <2>4. new = [old EXCEPT !.pc = "check", !.draft = d]
    BY <1>2, <2>1, <2>2 DEF SavedAs
  <2>5. new \in ReviewType /\ new.pc = "check" /\ new.basket = old.basket
        /\ new.goods = old.goods /\ new.draft = d
    BY <2>3, <2>4 DEF ReviewType
  <2> QED BY <1>2, <2>1, <2>3, <2>5
<1> QED BY <1>1, <1>2

\* The drafts people know of, after a review saved its basket.
LEMMA SaveDrafts ==
  ASSUME CounterTypes, CounterTypes', DraftsOK, NEW v \in Reviews, NEW s \in Tickets, NEW new,
         \A t \in Tickets \ {s} : ticket'[t] = ticket[t],
         ticket[s].status = "none" \/ ticket'[s].version = ticket[s].version + 1,
         ticket'[s].status # "none", ticket'[s].goods = reviewing[v].goods,
         reviewing'[v] = new, \A w \in Reviews \ {v} : reviewing'[w] = reviewing[w],
         \/ new = NoReview
         \/ /\ new.pc = "check" /\ new.goods = reviewing[v].goods
            /\ new.draft.id = s /\ new.draft.version = ticket'[s].version
            /\ new.draft.goods = reviewing[v].goods,
         UNCHANGED <<screen, posting>>
  PROVE  DraftsOK'
<1>0. NoTicket \notin Tickets
  BY CounterAssumption DEF CounterAssumption
<1>1. \A d \in Drafts : Faithful(d) => Faithful(d)'
  BY FaithfulKept
<1>2. Faithful(screen.draft)'
  <2>1. PICK d \in Drafts : d = screen.draft
    BY DEF CounterTypes, ScreenType
  <2> QED BY <1>1, <2>1 DEF DraftsOK
<1>3. ASSUME NEW w \in Reviews
      PROVE  /\ Faithful(reviewing[w].draft)'
             /\ reviewing'[w].pc \in {"check", "done"} =>
                  /\ reviewing'[w].draft.id # NoTicket
                  /\ reviewing'[w].draft.goods = reviewing'[w].goods
             /\ reviewing'[w].pc = "idle" => reviewing'[w] = NoReview
  <2>1. CASE w # v
    <3>1. PICK d \in Drafts : d = reviewing[w].draft
      BY DEF CounterTypes, ReviewType
    <3>2. Faithful(d)'
      BY <1>1, <3>1 DEF DraftsOK
    <3>3. reviewing'[w] = reviewing[w]
      BY <2>1
    <3>4. Faithful(reviewing[w].draft)'
      BY <3>1, <3>2, <3>3
    <3> QED BY <3>3, <3>4 DEF DraftsOK
  <2>2. CASE w = v /\ new = NoReview
    <3>1. Faithful(reviewing[w].draft)'
      BY <2>2 DEF Faithful, NoReview, NoDraft
    <3> QED BY <2>2, <3>1 DEF NoReview
  <2>3. CASE w = v /\ new # NoReview
    <3>1. Faithful(reviewing[w].draft)'
      <4>1. ticket'[s].version \in Nat
        BY DEF CounterTypes, TicketType
      <4> QED BY <2>3, <4>1 DEF Faithful
    <3> QED BY <1>0, <2>3, <3>1
  <2> QED BY <2>1, <2>2, <2>3
<1>4. ASSUME NEW p \in Postings PROVE Faithful(posting[p].of)'
  <2>1. PICK d \in Drafts : d = posting[p].of
    BY DEF CounterTypes, PostingType
  <2> QED BY <1>1, <2>1 DEF DraftsOK
<1> QED BY <1>2, <1>3, <1>4 DEF DraftsOK

\* Saving a basket as a new draft keeps the invariant.
LEMMA SaveNewStep ==
  ASSUME CounterInv, NEW v \in Reviews, NEW s \in Tickets,
         reviewing[v].pc \in {"save", "late"}, reviewing[v].draft.id = NoTicket,
         ticket[s].status = "none",
         ticket' = [ticket EXCEPT ![s] =
           [NewTicket EXCEPT !.status = "draft", !.basket = reviewing[v].basket,
                             !.goods = reviewing[v].goods, !.version = 1]],
         reviewing' = [reviewing EXCEPT ![v] = SavedAs(v, s, 1)],
         UNCHANGED <<screen, posting, overlapped>>
  PROVE  CounterInv'
<1>1. PICK new : new = SavedAs(v, s, 1)
  OBVIOUS
<1>2. /\ new \in ReviewType
      /\ \/ reviewing[v].pc = "late" /\ new = NoReview
         \/ /\ reviewing[v].pc = "save" /\ new.pc = "check"
            /\ new.basket = reviewing[v].basket /\ new.goods = reviewing[v].goods
            /\ new.draft.id = s /\ new.draft.version = 1
            /\ new.draft.goods = reviewing[v].goods
  BY <1>1, SavedReview DEF CounterInv
<1>3. reviewing' = [reviewing EXCEPT ![v] = new]
  BY <1>1
<1>4. reviewing'[v] = new /\ \A w \in Reviews \ {v} : reviewing'[w] = reviewing[w]
  BY <1>3 DEF CounterInv, CounterTypes
<1>5. PICK made : made = [NewTicket EXCEPT !.status = "draft", !.basket = reviewing[v].basket,
                            !.goods = reviewing[v].goods, !.version = 1]
  OBVIOUS
<1>6. made \in TicketType /\ made.status = "draft" /\ made.basket = reviewing[v].basket
      /\ made.goods = reviewing[v].goods /\ made.version = 1
  BY <1>5, NoneTyped DEF CounterInv, CounterTypes, ReviewType, TicketType, NewTicket
<1>7. ticket' = [ticket EXCEPT ![s] = made]
  BY <1>5
<1>8. /\ ticket'[s] = made /\ \A t \in Tickets \ {s} : ticket'[t] = ticket[t]
      /\ ticket' \in [Tickets -> TicketType]
  BY <1>6, <1>7 DEF CounterInv, CounterTypes
<1>9. CounterTypes'
  BY <1>2, <1>3, <1>8 DEF CounterInv, CounterTypes
<1>10. TicketsOK'
  BY <1>6, <1>8 DEF CounterInv, TicketsOK
<1>11. /\ ticket'[s].status = "draft" /\ ticket'[s].basket = reviewing[v].basket
       /\ ticket'[s].goods = reviewing[v].goods /\ ticket'[s].version = 1
       /\ \A t \in Tickets \ {s} : ticket'[t] = ticket[t]
  BY <1>6, <1>8
<1>12. CounterTypes /\ DraftsOK /\ TicketsOK /\ BasketsOK
  BY DEF CounterInv
<1>13. DraftsOK'
  <2>1. \/ new = NoReview
        \/ /\ new.pc = "check" /\ new.goods = reviewing[v].goods
           /\ new.draft.id = s /\ new.draft.version = ticket'[s].version
           /\ new.draft.goods = reviewing[v].goods
    BY <1>2, <1>11
  <2>2. ticket'[s].status # "none"
    BY <1>11
  <2> HIDE DEF CounterInv
  <2> QED BY <1>4, <1>9, <1>11, <1>12, <2>1, <2>2, SaveDrafts
<1>14. BasketsOK'
  <2>1. \/ reviewing[v].pc = "late" /\ new = NoReview
        \/ /\ reviewing[v].pc = "save" /\ new.pc = "check"
           /\ new.basket = reviewing[v].basket /\ new.draft.id = s
    BY <1>2
  <2> HIDE DEF CounterInv
  <2> QED BY <1>4, <1>11, <1>12, <2>1, SaveNewBaskets
<1> QED BY <1>9, <1>10, <1>13, <1>14 DEF CounterInv

Resaved(v, s) ==
  [ticket[s] EXCEPT !.basket = reviewing[v].basket, !.goods = reviewing[v].goods,
                    !.version = @ + 1]

\* Saving a basket into the draft the page holds keeps the invariant.
LEMMA SaveOldStep ==
  ASSUME CounterInv, NEW v \in Reviews, NEW s \in Tickets,
         reviewing[v].pc \in {"save", "late"}, reviewing[v].draft.id = s,
         ticket[s].status = "draft", ticket[s].version = reviewing[v].draft.version,
         ticket' = [ticket EXCEPT ![s] = Resaved(v, s)],
         reviewing' = [reviewing EXCEPT ![v] = SavedAs(v, s, reviewing[v].draft.version + 1)],
         UNCHANGED <<screen, posting, overlapped>>
  PROVE  CounterInv'
<1>0. PICK n \in Nat : n = reviewing[v].draft.version + 1
  BY DEF CounterInv, CounterTypes, ReviewType, Drafts
<1>1. PICK new : new = SavedAs(v, s, n)
  OBVIOUS
<1>2. /\ new \in ReviewType
      /\ \/ reviewing[v].pc = "late" /\ new = NoReview
         \/ /\ reviewing[v].pc = "save" /\ new.pc = "check"
            /\ new.basket = reviewing[v].basket /\ new.goods = reviewing[v].goods
            /\ new.draft.id = s /\ new.draft.version = n
            /\ new.draft.goods = reviewing[v].goods
  BY <1>1, SavedReview DEF CounterInv
<1>3. reviewing' = [reviewing EXCEPT ![v] = new]
  BY <1>0, <1>1
<1>4. reviewing'[v] = new /\ \A w \in Reviews \ {v} : reviewing'[w] = reviewing[w]
  BY <1>3 DEF CounterInv, CounterTypes
<1>5. PICK old \in TicketType : old = ticket[s]
  BY DEF CounterInv, CounterTypes
<1>6. PICK made : made = Resaved(v, s)
  OBVIOUS
<1>7. made \in TicketType /\ made.status = "draft" /\ made.basket = reviewing[v].basket
      /\ made.goods = reviewing[v].goods /\ made.version = n
  <2>1. made = [old EXCEPT !.basket = reviewing[v].basket, !.goods = reviewing[v].goods,
                           !.version = n]
    BY <1>0, <1>5, <1>6 DEF Resaved, TicketType
  <2>2. reviewing[v].basket \in 0..MaxBaskets /\ reviewing[v].goods \in Goods \cup {NoGoods}
    BY DEF CounterInv, CounterTypes, ReviewType
  <2> QED BY <1>5, <2>1, <2>2 DEF TicketType
<1>8. ticket' = [ticket EXCEPT ![s] = made]
  BY <1>6
<1>9. /\ ticket'[s] = made /\ \A t \in Tickets \ {s} : ticket'[t] = ticket[t]
      /\ ticket' \in [Tickets -> TicketType]
  <2>1. made \in TicketType /\ ticket \in [Tickets -> TicketType]
    BY <1>7 DEF CounterInv, CounterTypes
  <2> QED BY <1>8, <2>1
<1>10. CounterTypes'
  BY <1>2, <1>3, <1>9 DEF CounterInv, CounterTypes
<1>11. TicketsOK'
  BY <1>7, <1>9 DEF CounterInv, TicketsOK
<1>12. /\ ticket'[s].status = "draft" /\ ticket'[s].basket = reviewing[v].basket
       /\ ticket'[s].goods = reviewing[v].goods /\ ticket'[s].version = n
       /\ ticket'[s].version = ticket[s].version + 1
       /\ \A t \in Tickets \ {s} : ticket'[t] = ticket[t]
  BY <1>0, <1>7, <1>9
<1>13. CounterTypes /\ DraftsOK /\ TicketsOK /\ BasketsOK
  BY DEF CounterInv
<1>14. DraftsOK'
  <2>1. \/ new = NoReview
        \/ /\ new.pc = "check" /\ new.goods = reviewing[v].goods
           /\ new.draft.id = s /\ new.draft.version = ticket'[s].version
           /\ new.draft.goods = reviewing[v].goods
    BY <1>2, <1>12
  <2>2. ticket'[s].status # "none"
    BY <1>12
  <2> HIDE DEF CounterInv
  <2> QED BY <1>4, <1>10, <1>12, <1>13, <2>1, <2>2, SaveDrafts
<1>15. BasketsOK'
  <2>1. \/ new = NoReview
        \/ /\ reviewing[v].pc = "save" /\ new.pc = "check"
           /\ new.basket = reviewing[v].basket /\ new.draft.id = s
    BY <1>2
  <2> HIDE DEF CounterInv
  <2> QED BY <1>4, <1>12, <1>13, <2>1, SaveOldShrinks
<1> QED BY <1>10, <1>11, <1>14, <1>15 DEF CounterInv

\* Saving a draft keeps the invariant, whichever way.
LEMMA SaveDraftStep ==
  ASSUME CounterInv, NEW v \in Reviews, SaveDraft(v)
  PROVE  CounterInv'
<1>1. reviewing[v].pc \in {"save", "late"} /\ UNCHANGED <<screen, posting, overlapped>>
  BY DEF SaveDraft
<1>2. CASE reviewing[v].draft.id = NoTicket
  <2>1. PICK s \in Tickets :
          /\ ticket[s].status = "none"
          /\ ticket' = [ticket EXCEPT ![s] =
               [NewTicket EXCEPT !.status = "draft", !.basket = reviewing[v].basket,
                                 !.goods = reviewing[v].goods, !.version = 1]]
          /\ reviewing' = [reviewing EXCEPT ![v] = SavedAs(v, s, 1)]
    BY <1>2 DEF SaveDraft, SavedAs
  <2> QED BY <1>1, <1>2, <2>1, SaveNewStep
<1>3. CASE reviewing[v].draft.id # NoTicket /\ UNCHANGED ticket /\ Abandon(v)
  BY <1>1, <1>3, AbandonStep
<1>4. CASE /\ reviewing[v].draft.id # NoTicket
           /\ ~(UNCHANGED ticket /\ Abandon(v))
  <2>1. PICK s \in Tickets : s = reviewing[v].draft.id
    BY <1>4 DEF CounterInv, CounterTypes, ReviewType, Drafts
  <2>2. /\ ticket[s].status = "draft" /\ ticket[s].version = reviewing[v].draft.version
        /\ ticket' = [ticket EXCEPT ![s] = Resaved(v, s)]
        /\ reviewing' = [reviewing EXCEPT ![v] = SavedAs(v, s, reviewing[v].draft.version + 1)]
    <3>1. /\ ticket[s].status = "draft" /\ ticket[s].version = reviewing[v].draft.version
          /\ ticket' = [ticket EXCEPT ![s].basket = reviewing[v].basket,
                                      ![s].goods = reviewing[v].goods, ![s].version = @ + 1]
          /\ reviewing' = [reviewing EXCEPT ![v] = SavedAs(v, s, reviewing[v].draft.version + 1)]
      BY <1>4, <2>1 DEF SaveDraft, SavedAs
    <3>2. ticket' = [ticket EXCEPT ![s] = Resaved(v, s)]
      BY <3>1 DEF Resaved, CounterInv, CounterTypes, TicketType
    <3> QED BY <3>1, <3>2
  <2> QED BY <1>1, <2>1, <2>2, SaveOldStep
<1> QED BY <1>2, <1>3, <1>4

-----------------------------------------------------------------------------
(* Posting.                                                                 *)

\* A posting begins with what the screen reviews, goes on, or ends.
LEMMA PostingStep ==
  ASSUME CounterInv, NEW p \in Postings, NEW new \in PostingType,
         posting' = [posting EXCEPT ![p] = new],
         \/ new = NoPosting
         \/ posting[p].pc # "idle" /\ new.pc # "idle" /\ new.of = posting[p].of
         \/ new.pc # "idle" /\ screen.review # NoDraft /\ new.of = screen.review,
         UNCHANGED <<ticket, screen, reviewing, overlapped>>
  PROVE  CounterInv'
<1>0. NoTicket \notin Tickets
  BY CounterAssumption DEF CounterAssumption
<1>1. posting'[p] = new /\ \A q \in Postings \ {p} : posting'[q] = posting[q]
  BY DEF CounterInv, CounterTypes
<1>2. CounterTypes'
  BY DEF CounterInv, CounterTypes
<1>3. DraftsOK'
  BY <1>1, DraftsShrink DEF CounterInv
<1>4. \A t \in Tickets : Shown(t)' => Shown(t)
  BY <1>0, <1>1 DEF Shown, NoPosting, NoDraft
<1>5. BasketsOK'
  BY <1>4, ShownShrinks DEF CounterInv
<1> QED BY <1>2, <1>3, <1>5, TicketsKept DEF CounterInv

\* Forgetting a posting call keeps the invariant.
LEMMA EndPostingStep ==
  ASSUME CounterInv, NEW p \in Postings, posting' = [posting EXCEPT ![p] = NoPosting],
         UNCHANGED <<ticket, screen, reviewing, overlapped>>
  PROVE  CounterInv'
BY NoneTyped, PostingStep

\* Confirming a review at the page keeps the invariant.
LEMMA ConfirmStep ==
  ASSUME CounterInv, NEW p \in Postings, Confirm(p)
  PROVE  CounterInv'
<1>1. PICK new : new = [NoPosting EXCEPT !.pc = "sent", !.waited = TRUE, !.of = screen.review,
                                         !.key = screen.key]
  OBVIOUS
<1>2. new \in PostingType /\ new.pc = "sent" /\ new.of = screen.review
  BY <1>1 DEF NoPosting, PostingType, CounterInv, CounterTypes, ScreenType
<1>3. posting' = [posting EXCEPT ![p] = new]
  BY <1>1 DEF Confirm
<1> QED BY <1>2, <1>3, PostingStep DEF Confirm

\* Giving up a posting at the page keeps the invariant.
LEMMA GiveUpPostingStep ==
  ASSUME CounterInv, NEW p \in Postings, GiveUpPosting(p)
  PROVE  CounterInv'
<1>1. CASE posting[p].pc = "sent"
  <2>1. PICK old \in PostingType : old = posting[p]
    BY DEF CounterInv, CounterTypes
  <2>2. PICK new : new = [old EXCEPT !.waited = FALSE]
    OBVIOUS
  <2>3. new \in PostingType /\ new.pc = "sent" /\ new.of = old.of
    BY <1>1, <2>1, <2>2 DEF PostingType
  <2>4. posting' = [posting EXCEPT ![p] = new]
    BY <1>1, <2>1, <2>2 DEF GiveUpPosting, CounterInv, CounterTypes
  <2> QED BY <1>1, <2>1, <2>3, <2>4, PostingStep DEF GiveUpPosting
<1>2. CASE posting[p].pc # "sent"
  BY <1>2, EndPostingStep DEF GiveUpPosting
<1> QED BY <1>1, <1>2

\* Losing a posting keeps the invariant.
LEMMA LosePostingStep ==
  ASSUME CounterInv, NEW p \in Postings, LosePosting(p)
  PROVE  CounterInv'
BY EndPostingStep DEF LosePosting

\* A posting that is answered.
LEMMA Answered ==
  ASSUME CounterTypes, NEW p \in Postings, NEW answer \in {"posted", "refused"},
         posting' = [posting EXCEPT ![p].pc = "answered", ![p].answer = answer]
  PROVE  \E new \in PostingType :
           /\ posting' = [posting EXCEPT ![p] = new]
           /\ new.pc = "answered" /\ new.of = posting[p].of
<1>1. PICK old \in PostingType : old = posting[p]
  BY DEF CounterTypes
<1>2. PICK new : new = [old EXCEPT !.pc = "answered", !.answer = answer]
  OBVIOUS
<1>3. new \in PostingType /\ new.pc = "answered" /\ new.of = old.of
  BY <1>2 DEF PostingType
<1>4. posting' = [posting EXCEPT ![p] = new]
  BY <1>1, <1>2 DEF CounterTypes, PostingType
<1> QED BY <1>1, <1>3, <1>4

PostedAs(t, r) ==
  [ticket[t] EXCEPT !.status = "posted", !.key = r.key, !.agreed = r.of.goods,
                    !.version = @ + 1]

\* Sending a posting keeps the invariant.
LEMMA PostStep ==
  ASSUME CounterInv, NEW p \in Postings, NEW t \in Tickets, posting[p].pc = "sent",
         t = posting[p].of.id, Postable(posting[p].of),
         ticket' = [ticket EXCEPT ![t] = PostedAs(t, posting[p])],
         NEW new \in PostingType, posting' = [posting EXCEPT ![p] = new],
         new.pc = "answered", new.of = posting[p].of,
         UNCHANGED <<screen, reviewing, overlapped>>
  PROVE  CounterInv'
<1>1. posting'[p] = new /\ \A q \in Postings \ {p} : posting'[q] = posting[q]
  BY DEF CounterInv, CounterTypes
<1>2. PICK old \in TicketType : old = ticket[t]
  BY DEF CounterInv, CounterTypes
<1>3. PICK made : made = PostedAs(t, posting[p])
  OBVIOUS
<1>4. /\ made \in TicketType /\ made.status = "posted" /\ made.basket = old.basket
      /\ made.goods = old.goods /\ made.agreed = posting[p].of.goods
      /\ made.version = old.version + 1
  <2>1. PICK k, g : k = posting[p].key /\ g = posting[p].of.goods
    OBVIOUS
  <2>2. k \in 0..MaxReviewed /\ g \in Goods \cup {NoGoods}
    BY <2>1 DEF CounterInv, CounterTypes, PostingType, Drafts
  <2>3. made = [old EXCEPT !.status = "posted", !.key = k, !.agreed = g, !.version = @ + 1]
    BY <1>2, <1>3, <2>1 DEF PostedAs
  <2>4. old.version + 1 \in Nat
    BY DEF TicketType
  <2>5. PICK n \in Nat : n = old.version + 1
    BY <2>4
  <2>6. made = [old EXCEPT !.status = "posted", !.key = k, !.agreed = g, !.version = n]
    BY <2>3, <2>5
  <2>7. /\ made \in TicketType /\ made.status = "posted" /\ made.basket = old.basket
        /\ made.goods = old.goods /\ made.agreed = g /\ made.version = n
    BY <2>2, <2>6 DEF TicketType
  <2> QED BY <2>1, <2>5, <2>7
<1>5. /\ ticket'[t] = made /\ \A u \in Tickets \ {t} : ticket'[u] = ticket[u]
      /\ ticket' \in [Tickets -> TicketType]
  <2>1. ticket' = [ticket EXCEPT ![t] = made] /\ ticket \in [Tickets -> TicketType]
    BY <1>3 DEF CounterInv, CounterTypes
  <2> QED BY <1>4, <2>1
<1>6. CounterTypes'
  BY <1>5 DEF CounterInv, CounterTypes
<1>7. TicketsOK'
  <2>1. posting[p].of.goods = old.goods
    <3>1. Faithful(posting[p].of) /\ posting[p].of.id # NoTicket
      BY DEF CounterInv, DraftsOK
    <3> QED BY <1>2, <3>1 DEF Faithful, Postable
  <2> QED BY <1>4, <1>5, <2>1 DEF CounterInv, TicketsOK
<1>8. DraftsOK'
  <2>1. \A u \in Tickets : \/ ticket'[u] = ticket[u]
                           \/ ticket'[u].status # "none"
                              /\ ticket'[u].version = ticket[u].version + 1
    BY <1>2, <1>4, <1>5
  <2>2. CounterTypes /\ DraftsOK
    BY DEF CounterInv
  <2>3. \A d \in Drafts : Faithful(d) => Faithful(d)'
    BY <1>6, <2>1, <2>2, FaithfulKept
  <2>4. Faithful(screen.draft)'
    <3>1. PICK d \in Drafts : d = screen.draft
      BY <2>2 DEF CounterTypes, ScreenType
    <3> QED BY <2>2, <2>3, <3>1 DEF DraftsOK
  <2>5. \A v \in Reviews : Faithful(reviewing[v].draft)'
    <3> SUFFICES ASSUME NEW v \in Reviews PROVE Faithful(reviewing[v].draft)'
      OBVIOUS
    <3>1. PICK d \in Drafts : d = reviewing[v].draft
      BY <2>2 DEF CounterTypes, ReviewType
    <3> QED BY <2>2, <2>3, <3>1 DEF DraftsOK
  <2>6. ASSUME NEW q \in Postings
        PROVE  /\ Faithful(posting[q].of)'
               /\ posting'[q].pc = "idle" => posting'[q] = NoPosting
               /\ posting'[q].pc # "idle" => posting'[q].of.id # NoTicket
    <3>1. PICK d \in Drafts : d = posting[q].of
      BY <2>2 DEF CounterTypes, PostingType
    <3>2. posting'[q].of = d /\ Faithful(d)'
      BY <1>1, <2>2, <2>3, <3>1 DEF DraftsOK
    <3>3. Faithful(posting[q].of)'
      BY <3>2
    <3> QED BY <1>1, <2>2, <3>3 DEF DraftsOK
  <2> QED BY <2>2, <2>4, <2>5, <2>6 DEF DraftsOK
<1>9. BasketsOK'
  <2>1. \A u \in Tickets : Shown(u)' => Shown(u)
    BY <1>1 DEF Shown
  <2>2. Shown(t)
    BY DEF Shown
  <2>3. \A u \in Tickets : /\ ticket'[u].basket = ticket[u].basket
                           /\ ticket'[u].status = "posted" => ticket[u].status = "posted" \/ u = t
    BY <1>2, <1>4, <1>5
  <2>4. CounterTypes /\ BasketsOK
    BY DEF CounterInv
  <2> QED BY <2>1, <2>2, <2>3, <2>4, ShownShrinks
<1> QED BY <1>6, <1>7, <1>8, <1>9 DEF CounterInv

\* Posting a sale, or refusing it, keeps the invariant.
LEMMA ServePostingStep ==
  ASSUME CounterInv, NEW p \in Postings, ServePosting(p)
  PROVE  CounterInv'
<1>1. posting[p].pc = "sent" /\ UNCHANGED <<screen, reviewing, overlapped>>
  BY DEF ServePosting
<1>2. PICK answer \in {"posted", "refused"} :
        posting' = [posting EXCEPT ![p].pc = "answered", ![p].answer = answer]
  BY DEF ServePosting
<1>3. PICK new \in PostingType :
        /\ posting' = [posting EXCEPT ![p] = new]
        /\ new.pc = "answered" /\ new.of = posting[p].of
  BY <1>2, Answered DEF CounterInv
<1>4. CASE UNCHANGED ticket
  BY <1>1, <1>3, <1>4, PostingStep
<1>5. CASE ~UNCHANGED ticket
  <2>1. PICK t : t = posting[p].of.id
    OBVIOUS
  <2>2. t \in Tickets
    BY <1>1, <2>1 DEF CounterInv, DraftsOK, CounterTypes, PostingType, Drafts
  <2>3. /\ Postable(posting[p].of)
        /\ ticket' = [ticket EXCEPT ![t].status = "posted", ![t].key = posting[p].key,
                                    ![t].agreed = posting[p].of.goods, ![t].version = @ + 1]
    BY <1>5, <2>1 DEF ServePosting
  <2>4. ticket' = [ticket EXCEPT ![t] = PostedAs(t, posting[p])]
    BY <2>2, <2>3 DEF PostedAs, CounterInv, CounterTypes, TicketType
  <2> QED BY <1>1, <1>3, <2>1, <2>2, <2>3, <2>4, PostStep
<1> QED BY <1>4, <1>5

\* Receiving a posting's answer keeps the invariant.
LEMMA ReceivePostingStep ==
  ASSUME CounterInv, NEW p \in Postings, ReceivePosting(p)
  PROVE  CounterInv'
<1>0. NoTicket \notin Tickets
  BY CounterAssumption DEF CounterAssumption
<1>1. posting' = [posting EXCEPT ![p] = NoPosting] /\ UNCHANGED <<ticket, reviewing, overlapped>>
  BY DEF ReceivePosting
<1>2. CASE screen' = screen
  BY <1>1, <1>2, EndPostingStep
<1>3. CASE screen' # screen
  <2>1. PICK old \in ScreenType : old = screen
    BY DEF CounterInv, CounterTypes
  <2>2. screen' = [old EXCEPT !.cart = NoGoods, !.draft = NoDraft, !.review = NoDraft,
                              !.overlay = "receipt"]
    BY <1>3, <2>1 DEF ReceivePosting
  <2>3. PICK s : s = screen'
    OBVIOUS
  <2>4. s \in ScreenType /\ s.cart = NoGoods /\ s.draft = NoDraft /\ s.review = NoDraft
        /\ s.basket = old.basket
    BY <2>2, <2>3, NoneTyped DEF ScreenType
  <2>5. posting'[p] = NoPosting /\ \A q \in Postings \ {p} : posting'[q] = posting[q]
    BY <1>1 DEF CounterInv, CounterTypes
  <2>6. CounterTypes'
    BY <1>1, <2>3, <2>4, NoneTyped DEF CounterInv, CounterTypes
  <2>7. DraftsOK'
    BY <1>1, <2>3, <2>4, <2>5, DraftsShrink DEF CounterInv
  <2>8. \A t \in Tickets : Shown(t)' => Shown(t)
    BY <1>0, <2>3, <2>4, <2>5 DEF Shown, NoPosting, NoDraft
  <2>9. BasketsOK'
    BY <1>1, <2>1, <2>3, <2>4, <2>8, ShownShrinks DEF CounterInv
  <2> QED BY <1>1, <2>6, <2>7, <2>9, TicketsKept DEF CounterInv
<1> QED BY <1>2, <1>3

-----------------------------------------------------------------------------
(* The basket.                                                              *)

\* Changing the basket keeps the invariant: its review and key are dropped.
LEMMA ChangeCartStep ==
  ASSUME CounterInv, NEW g \in Goods \cup {NoGoods}, ChangeCart(g)
  PROVE  CounterInv'
<1>0. NoTicket \notin Tickets /\ MaxBaskets \in Nat
  BY CounterAssumption DEF CounterAssumption
<1>1. PICK old \in ScreenType : old = screen
  BY DEF CounterInv, CounterTypes
<1>2. PICK b : b = IF old.cart = NoGoods THEN old.basket + 1 ELSE old.basket
  OBVIOUS
<1>3. b \in 0..MaxBaskets
  BY <1>0, <1>1, <1>2 DEF ChangeCart, ScreenType
<1>4. screen' = [old EXCEPT !.cart = g, !.review = NoDraft, !.key = 0, !.basket = b]
  BY <1>1, <1>2 DEF ChangeCart, ScreenType
<1>5. PICK s : s = screen'
  OBVIOUS
<1>6. s \in ScreenType /\ s.cart = g /\ s.review = NoDraft /\ s.basket = b
      /\ s.draft = old.draft
  <2>1. 0 \in 0..MaxReviewed
    BY CounterAssumption DEF CounterAssumption
  <2> QED BY <1>3, <1>4, <1>5, <2>1, NoneTyped DEF ScreenType
<1>7. UNCHANGED <<ticket, reviewing, posting, overlapped>>
  BY DEF ChangeCart
<1>8. CounterTypes'
  BY <1>5, <1>6, <1>7 DEF CounterInv, CounterTypes
<1>9. DraftsOK'
  BY <1>1, <1>5, <1>6, <1>7, DraftsShrink DEF CounterInv
<1>10. BasketsOK'
  <2>1. CASE old.cart = NoGoods
    <3>1. screen.basket < MaxBaskets
      BY <1>1, <2>1 DEF ChangeCart
    <3> QED BY <1>1, <1>2, <1>5, <1>6, <1>7, <2>1, <3>1, NewBasketBaskets DEF CounterInv
  <2>2. CASE old.cart # NoGoods
    <3>1. \A t \in Tickets : Shown(t)' => Shown(t)
      BY <1>0, <1>1, <1>5, <1>6, <1>7 DEF Shown, NoDraft
    <3> QED BY <1>1, <1>2, <1>5, <1>6, <1>7, <2>2, <3>1, ShownShrinks DEF CounterInv
  <2> QED BY <2>1, <2>2
<1> QED BY <1>7, <1>8, <1>9, <1>10, TicketsKept DEF CounterInv

\* Closing the review or the receipt keeps the invariant.
LEMMA CloseOverlayStep ==
  ASSUME CounterInv, CloseOverlay
  PROVE  CounterInv'
<1>1. PICK old \in ScreenType : old = screen
  BY DEF CounterInv, CounterTypes
<1>2. PICK key \in {old.key, 0} : screen' = [old EXCEPT !.overlay = "none", !.key = key]
  BY <1>1 DEF CloseOverlay
<1>3. PICK s : s = screen'
  OBVIOUS
<1>4. s \in ScreenType /\ s.cart = old.cart /\ s.review = old.review /\ s.basket = old.basket
      /\ s.draft = old.draft
  <2>1. key \in 0..MaxReviewed
    BY <1>2, CounterAssumption DEF CounterAssumption, ScreenType
  <2> QED BY <1>2, <1>3, <2>1 DEF ScreenType
<1>5. UNCHANGED <<ticket, reviewing, posting, overlapped>>
  BY DEF CloseOverlay
<1>6. CounterTypes'
  BY <1>3, <1>4, <1>5 DEF CounterInv, CounterTypes
<1>7. DraftsOK'
  BY <1>1, <1>3, <1>4, <1>5, DraftsShrink DEF CounterInv
<1>8. BasketsOK'
  <2>1. \A t \in Tickets : Shown(t)' => Shown(t)
    BY <1>1, <1>3, <1>4, <1>5 DEF Shown
  <2> QED BY <1>1, <1>3, <1>4, <1>5, <2>1, ShownShrinks DEF CounterInv
<1> QED BY <1>5, <1>6, <1>7, <1>8, TicketsKept DEF CounterInv

-----------------------------------------------------------------------------
(* The invariant.                                                           *)

\* The invariant holds at first.
LEMMA CounterInitInv == CounterInit => CounterInv
<1> SUFFICES ASSUME CounterInit PROVE CounterInv
  OBVIOUS
<1>0. NoTicket \notin Tickets
  BY CounterAssumption DEF CounterAssumption
<1>1. CounterTypes
  <2>1. 0 \in 0..MaxBaskets /\ 0 \in 0..MaxReviewed
    BY CounterAssumption DEF CounterAssumption
  <2> QED BY <2>1, NoneTyped DEF CounterInit, CounterTypes, ScreenType
<1>2. DraftsOK
  BY DEF CounterInit, DraftsOK, Faithful, NoDraft, NoReview, NoPosting
<1>3. TicketsOK
  BY DEF CounterInit, TicketsOK, NewTicket
<1>4. BasketsOK
  <2>1. /\ \A t \in Tickets : ticket[t].status = "none" /\ ticket[t].basket = 0
        /\ \A v \in Reviews : reviewing[v] = NoReview /\ reviewing[v].pc = "idle"
        /\ screen.basket = 0 /\ screen.cart = NoGoods
    BY DEF CounterInit, NewTicket, NoReview
  <2>2. UnderWay = {}
    BY <2>1 DEF UnderWay
  <2>3. \A b \in 1..MaxBaskets : Untouched(b)
    BY <2>1 DEF Untouched, Under
  <2>4. \A b \in 1..MaxBaskets : OneTicket(b)
    BY <2>3 DEF OneTicket, For, Untouched
  <2> QED BY <2>1, <2>2, <2>3, <2>4 DEF BasketsOK, OverlapsMarked
<1> QED BY <1>1, <1>2, <1>3, <1>4 DEF CounterInv

\* Every step keeps the invariant.
LEMMA CounterNextInv == CounterInv /\ [CounterNext]_counterVars => CounterInv'
<1> SUFFICES ASSUME CounterInv, [CounterNext]_counterVars PROVE CounterInv'
  OBVIOUS
<1> HIDE DEF CounterInv
<1>1. ASSUME NEW g \in Goods \cup {NoGoods}, ChangeCart(g) PROVE CounterInv'
  BY <1>1, ChangeCartStep
<1>2. CASE CloseOverlay
  BY <1>2, CloseOverlayStep
<1>3. ASSUME NEW v \in Reviews, BeginReview(v) PROVE CounterInv'
  BY <1>3, BeginReviewStep
<1>4. ASSUME NEW v \in Reviews, SaveDraft(v) PROVE CounterInv'
  BY <1>4, SaveDraftStep
<1>5. ASSUME NEW v \in Reviews, CheckDraft(v) PROVE CounterInv'
  BY <1>5, CheckDraftStep
<1>6. ASSUME NEW v \in Reviews, ShowReview(v) PROVE CounterInv'
  BY <1>6, ShowReviewStep
<1>7. ASSUME NEW v \in Reviews, GiveUpReview(v) PROVE CounterInv'
  BY <1>7, GiveUpReviewStep
<1>8. ASSUME NEW v \in Reviews, LoseReview(v) PROVE CounterInv'
  BY <1>8, LoseReviewStep
<1>9. ASSUME NEW p \in Postings, Confirm(p) PROVE CounterInv'
  BY <1>9, ConfirmStep
<1>10. ASSUME NEW p \in Postings, ServePosting(p) PROVE CounterInv'
  BY <1>10, ServePostingStep
<1>11. ASSUME NEW p \in Postings, ReceivePosting(p) PROVE CounterInv'
  BY <1>11, ReceivePostingStep
<1>12. ASSUME NEW p \in Postings, GiveUpPosting(p) PROVE CounterInv'
  BY <1>12, GiveUpPostingStep
<1>13. ASSUME NEW p \in Postings, LosePosting(p) PROVE CounterInv'
  BY <1>13, LosePostingStep
<1>14. CASE UNCHANGED counterVars
  <2>1. UNCHANGED <<ticket, screen, reviewing, posting, overlapped>>
    BY <1>14 DEF counterVars
  <2>2. CounterTypes' /\ TicketsOK'
    BY <2>1, TicketsKept DEF CounterInv, CounterTypes
  <2>3. DraftsOK'
    BY <2>1, DraftsShrink DEF CounterInv
  <2>4. \A t \in Tickets : Shown(t)' => Shown(t)
    BY <2>1 DEF Shown
  <2>5. BasketsOK'
    BY <2>1, <2>4, ShownShrinks DEF CounterInv
  <2> QED BY <2>2, <2>3, <2>5 DEF CounterInv
<1> QED BY <1>1, <1>2, <1>3, <1>4, <1>5, <1>6, <1>7, <1>8, <1>9, <1>10, <1>11, <1>12, <1>13,
           <1>14 DEF CounterNext

\* Whatever reviews, postings and lost answers do, every draft somebody knows of
\* is faithful, and a basket whose reviews did not overlap has one ticket.
THEOREM CounterInvariant == CounterSpec => []CounterInv
BY CounterInitInv, CounterNextInv, PTL DEF CounterSpec

\* The tickets, the screen and the calls keep their shape.
THEOREM CounterTyped == CounterSpec => []CounterTypeOK
<1>1. CounterInv => CounterTypeOK
  BY DEF CounterInv, CounterTypes, CounterTypeOK, TicketType, ScreenType, ReviewType, PostingType
<1> QED BY <1>1, CounterInvariant, PTL

\* What was posted is what the confirmed review showed.
THEOREM ReviewIsPosted == CounterSpec => []PostedAsReviewed
<1>1. CounterInv => PostedAsReviewed
  BY DEF CounterInv, TicketsOK, PostedAsReviewed
<1> QED BY <1>1, CounterInvariant, PTL

\* A basket whose reviews do not overlap is sold once, though answers are lost
\* and reviews and postings repeated.
THEOREM SoldOnce == CounterSpec => []BasketSoldOnce
<1>1. CounterInv => BasketSoldOnce
  <2> SUFFICES ASSUME CounterInv, NEW b \in (1..MaxBaskets) \ overlapped
               PROVE  Cardinality(PostedOf(b)) <= 1
    BY DEF BasketSoldOnce
  <2>1. \A t, u \in PostedOf(b) : t = u
    <3>1. \A t \in PostedOf(b) : t \in Tickets /\ For(b, t)
      BY DEF PostedOf, For, Known
    <3> QED BY <3>1 DEF CounterInv, BasketsOK, OneTicket
  <2>2. CASE PostedOf(b) = {}
    BY <2>2, FS_EmptySet
  <2>3. CASE PostedOf(b) # {}
    <3>1. PICK t : PostedOf(b) = {t}
      BY <2>1, <2>3
    <3>2. Cardinality({t}) = 1
      BY FS_Singleton
    <3> QED BY <3>1, <3>2
  <2> QED BY <2>2, <2>3
<1> QED BY <1>1, CounterInvariant, PTL

-----------------------------------------------------------------------------
(* Receiving many rows of stock: StockInBatch.                              *)

BatchCallType == [pc: {"idle", "running", "done", "fault"}, key: BatchKeys \cup {NoBatchKey},
             rows: FormRows, results: Seq({"ok", "failed"})]
BatchPageType == [rows: FormRows, key: BatchKeys \cup {NoBatchKey},
             waits: Batches \cup {NoBatch}, scanning: BOOLEAN]
BatchFormType == [page: BatchPageType, made: SUBSET BatchKeys, sent: SUBSET (1..MaxRowIds),
             entered: 0..MaxRowIds]

\* A call that has begun has a key, and no more results than rows.
CallInOrder(post) ==
  /\ post.pc # "idle" => post.key \in BatchKeys
  /\ Len(post.results) <= Len(post.rows)
  /\ post.results # <<>> => post.key \in BatchKeys

StockInTypes ==
  /\ received \in [BatchKeys -> [Places -> Row \cup {Nothing}]]
  /\ batchCall \in [Batches -> BatchCallType]
  /\ form \in BatchFormType
  /\ doubtful \subseteq 1..MaxRowIds
  /\ \A b \in Batches : CallInOrder(batchCall[b])

RowIds == 1..MaxRowIds

\* Row `id' was sent in the i-th place of a batch under key k.
SentAs(k, i, id) ==
  \/ received[k][i].id = id
  \/ \E b \in Batches : /\ batchCall[b].key = k /\ i \in DOMAIN batchCall[b].rows
                        /\ batchCall[b].rows[i].id = id

\* The rows of the page are told apart by their ids.
RowsApart(rows, entered) ==
  /\ \A i \in DOMAIN rows : rows[i].id <= entered
  /\ \A i, j \in DOMAIN rows : rows[i].id = rows[j].id => i = j

\* What was sent was sent under a key made for it, and a place of a key is one row's.
PlacesAreRows ==
  \A k \in BatchKeys, i \in Places, x \in RowIds : SentAs(k, i, x) =>
    /\ k \in form.made /\ x <= form.entered
    /\ \A y \in RowIds : SentAs(k, i, y) => x = y

\* A row has one place of one key, unless its key was dropped too early.
RowsHaveOnePlace ==
  \A k, l \in BatchKeys, i, j \in Places, x \in RowIds \ doubtful :
    SentAs(k, i, x) /\ SentAs(l, j, x) => k = l /\ i = j

\* The rows that were sent under the key the page holds are where they were.  A
\* row that was sent under another key is not on the page, or its key was
\* dropped too early.
HeldKeyHolds ==
  \A k \in BatchKeys, i \in Places, x \in RowIds : SentAs(k, i, x) =>
    IF k = form.page.key
      THEN i \in DOMAIN form.page.rows /\ form.page.rows[i].id = x /\ x \in form.sent
    ELSE x \in doubtful \/ \A j \in DOMAIN form.page.rows : form.page.rows[j].id # x

StockInInv ==
  /\ StockInTypes
  /\ RowsApart(form.page.rows, form.entered)
  /\ PlacesAreRows
  /\ RowsHaveOnePlace
  /\ HeldKeyHolds
  /\ OkRowsAreReceived

\* A form's rows are a sequence of at most MaxRows rows.
LEMMA FormRowsAreSeqs ==
  \A r : r \in FormRows <=> r \in Seq(Row) /\ Len(r) <= MaxRows
<1>1. ASSUME NEW r \in FormRows PROVE r \in Seq(Row) /\ Len(r) <= MaxRows
  <2>1. PICK n \in 0..MaxRows : r \in [1..n -> Row]
    BY DEF FormRows
  <2>2. n \in Nat /\ n <= MaxRows
    BY StockInAssumption
  <2>3. r \in Seq(Row)
    BY <2>1, <2>2, SeqDef
  <2>4. Len(r) = n
    BY <2>1, <2>2, <2>3
  <2> QED
    BY <2>2, <2>3, <2>4
<1>2. ASSUME NEW r \in Seq(Row), Len(r) <= MaxRows PROVE r \in FormRows
  <2>1. Len(r) \in 0..MaxRows /\ r \in [1..Len(r) -> Row]
    BY <1>2, StockInAssumption
  <2> QED
    BY <2>1 DEF FormRows
<1> QED
  BY <1>1, <1>2

\* A form's rows, place by place.
LEMMA RowFacts ==
  ASSUME NEW r \in FormRows
  PROVE  /\ r \in Seq(Row) /\ DOMAIN r = 1..Len(r) /\ Len(r) \in Nat /\ Len(r) <= MaxRows
         /\ \A i \in DOMAIN r : i \in Places /\ r[i] \in Row /\ r[i].id \in RowIds
<1>1. r \in Seq(Row) /\ Len(r) <= MaxRows
  BY FormRowsAreSeqs
<1>2. DOMAIN r = 1..Len(r) /\ Len(r) \in Nat
  BY <1>1
<1>3. \A i \in DOMAIN r : r[i] \in Row
  BY <1>1, <1>2
<1>4. \A i \in DOMAIN r : i \in Places
  BY <1>1, <1>2, StockInAssumption DEF Places
<1> QED
  BY <1>1, <1>2, <1>3, <1>4 DEF Row, RowIds

\* An idle call and a form without rows are of their types.
LEMMA NoCallTyped == NoCallYet \in BatchCallType /\ CallInOrder(NoCallYet) /\ <<>> \in FormRows
<1>1. <<>> \in FormRows
  <2>1. <<>> \in Seq(Row) /\ Len(<<>>) = 0
    BY EmptySeq
  <2>2. Len(<<>>) <= MaxRows
    BY <2>1, StockInAssumption
  <2> QED
    BY <2>1, <2>2, FormRowsAreSeqs
<1>2. <<>> \in Seq({"ok", "failed"}) /\ Len(<<>>) = 0
  BY EmptySeq
<1>3. NoCallYet \in BatchCallType
  BY <1>1, <1>2 DEF NoCallYet, BatchCallType
<1>4. NoCallYet.pc = "idle" /\ NoCallYet.rows = <<>> /\ NoCallYet.results = <<>>
  BY DEF NoCallYet
<1>5. CallInOrder(NoCallYet)
  BY <1>2, <1>4 DEF CallInOrder
<1> QED
  BY <1>1, <1>3, <1>5

\* A call is forgotten or keeps what it was sent with.
CallKept(b) ==
  \/ batchCall'[b].key = batchCall[b].key /\ batchCall'[b].rows = batchCall[b].rows
  \/ batchCall'[b] = NoCallYet

\* Nothing is sent by a step that only forgets calls.
LEMMA SentShrinks ==
  ASSUME received' = received, \A b \in Batches : CallKept(b)
  PROVE  \A k \in BatchKeys, i \in Places, x \in RowIds : SentAs(k, i, x)' => SentAs(k, i, x)
<1> SUFFICES ASSUME NEW k \in BatchKeys, NEW i \in Places, NEW x \in RowIds, SentAs(k, i, x)'
             PROVE  SentAs(k, i, x)
  OBVIOUS
<1>1. CASE received'[k][i].id = x
  BY <1>1 DEF SentAs
<1>2. CASE \E b \in Batches : /\ batchCall'[b].key = k /\ i \in DOMAIN batchCall'[b].rows
                              /\ batchCall'[b].rows[i].id = x
  <2>1. PICK b \in Batches : /\ batchCall'[b].key = k /\ i \in DOMAIN batchCall'[b].rows
                             /\ batchCall'[b].rows[i].id = x
    BY <1>2
  <2>2. batchCall'[b] # NoCallYet
    <3>1. k # NoBatchKey
      BY StockInAssumption
    <3> QED
      BY <2>1, <3>1 DEF NoCallYet
  <2> QED
    BY <2>1, <2>2 DEF CallKept, SentAs
<1> QED
  BY <1>1, <1>2 DEF SentAs

\* What no step sends keeps its place.
LEMMA PlacesKept ==
  ASSUME PlacesAreRows, RowsHaveOnePlace,
         \A k \in BatchKeys, i \in Places, x \in RowIds : SentAs(k, i, x)' => SentAs(k, i, x),
         form.made \subseteq form'.made, doubtful \subseteq doubtful',
         form.entered \in Nat, form'.entered \in Nat, form.entered <= form'.entered
  PROVE  PlacesAreRows' /\ RowsHaveOnePlace'
<1>1. PlacesAreRows'
  BY DEF PlacesAreRows, RowIds
<1>2. RowsHaveOnePlace'
  BY DEF RowsHaveOnePlace
<1> QED
  BY <1>1, <1>2

\* The page may get new rows while it holds its key ...
LEMMA HeldExtended ==
  ASSUME PlacesAreRows, HeldKeyHolds,
         \A k \in BatchKeys, i \in Places, x \in RowIds : SentAs(k, i, x)' => SentAs(k, i, x),
         form'.page.key = form.page.key, form'.sent = form.sent, doubtful' = doubtful,
         \A i \in DOMAIN form.page.rows : /\ i \in DOMAIN form'.page.rows
                                          /\ form'.page.rows[i].id = form.page.rows[i].id,
         \A i \in DOMAIN form'.page.rows :
           i \in DOMAIN form.page.rows \/ form'.page.rows[i].id = form.entered + 1,
         form.entered \in Nat
  PROVE  HeldKeyHolds'
<1> SUFFICES ASSUME NEW k \in BatchKeys, NEW i \in Places, NEW x \in RowIds, SentAs(k, i, x)'
             PROVE  IF k = form'.page.key
                      THEN /\ i \in DOMAIN form'.page.rows /\ form'.page.rows[i].id = x
                           /\ x \in form'.sent
                    ELSE x \in doubtful' \/ \A j \in DOMAIN form'.page.rows :
                                              form'.page.rows[j].id # x
  BY DEF HeldKeyHolds
<1>1. SentAs(k, i, x) /\ x <= form.entered /\ x \in Nat
  BY DEF PlacesAreRows, RowIds
<1>2. CASE k = form.page.key
  BY <1>1, <1>2 DEF HeldKeyHolds
<1>3. CASE k # form.page.key
  <2>1. x \in doubtful \/ \A j \in DOMAIN form.page.rows : form.page.rows[j].id # x
    BY <1>1, <1>3 DEF HeldKeyHolds
  <2>2. x # form.entered + 1
    BY <1>1
  <2>3. ASSUME NEW j \in DOMAIN form'.page.rows, x \notin doubtful
        PROVE  form'.page.rows[j].id # x
    BY <2>1, <2>2, <2>3
  <2> QED
    BY <1>3, <2>3
<1> QED
  BY <1>2, <1>3

\* ... and when it drops the key, what was sent under it becomes doubtful.
LEMMA KeyDropped ==
  ASSUME PlacesAreRows, HeldKeyHolds,
         \A k \in BatchKeys, i \in Places, x \in RowIds : SentAs(k, i, x)' => SentAs(k, i, x),
         form'.page.key = NoBatchKey, doubtful' = doubtful \cup form.sent,
         \A i \in DOMAIN form'.page.rows :
           \/ \E j \in DOMAIN form.page.rows : form'.page.rows[i].id = form.page.rows[j].id
           \/ form'.page.rows[i].id = form.entered + 1,
         form.entered \in Nat
  PROVE  HeldKeyHolds'
<1> SUFFICES ASSUME NEW k \in BatchKeys, NEW i \in Places, NEW x \in RowIds, SentAs(k, i, x)'
             PROVE  /\ k # form'.page.key
                    /\ x \in doubtful' \/ \A j \in DOMAIN form'.page.rows :
                                            form'.page.rows[j].id # x
  BY DEF HeldKeyHolds
<1>1. SentAs(k, i, x) /\ x <= form.entered /\ x \in Nat
  BY DEF PlacesAreRows, RowIds
<1>2. k # form'.page.key
  BY StockInAssumption
<1>3. \/ x \in form.sent \/ x \in doubtful
      \/ \A j \in DOMAIN form.page.rows : form.page.rows[j].id # x
  BY <1>1 DEF HeldKeyHolds
<1>4. x # form.entered + 1
  BY <1>1
<1>5. ASSUME NEW j \in DOMAIN form'.page.rows, x \notin doubtful, x \notin form.sent
      PROVE  form'.page.rows[j].id # x
  BY <1>3, <1>4, <1>5
<1> QED
  BY <1>2, <1>5

\* The rows that were answered stay received.
LEMMA AnsweredKept ==
  ASSUME OkRowsAreReceived, received' = received,
         \A b \in Batches : \/ batchCall'[b] = NoCallYet
                            \/ /\ batchCall'[b].key = batchCall[b].key
                               /\ batchCall'[b].rows = batchCall[b].rows
                               /\ batchCall'[b].results = batchCall[b].results
  PROVE  OkRowsAreReceived'
<1> SUFFICES ASSUME NEW b \in Batches, NEW i \in 1..Len(batchCall'[b].results),
                    batchCall'[b].results[i] = "ok"
             PROVE  /\ received'[batchCall'[b].key][i].id = batchCall'[b].rows[i].id
                    /\ received'[batchCall'[b].key][i].quantity = batchCall'[b].rows[i].quantity
  BY DEF OkRowsAreReceived
<1>1. batchCall'[b] # NoCallYet
  BY DEF NoCallYet
<1> QED
  BY <1>1 DEF OkRowsAreReceived

\* One row's receipt is one place: what is told apart by its ids is received once.
LEMMA OnePlaceMeansOnce == RowsHaveOnePlace => RowsReceivedOnce
<1> SUFFICES ASSUME RowsHaveOnePlace, NEW x \in (1..MaxRowIds) \ doubtful
             PROVE  Cardinality({p \in BatchKeys \X Places : received[p[1]][p[2]].id = x}) <= 1
  BY DEF RowsReceivedOnce
<1> DEFINE S == {p \in BatchKeys \X Places : received[p[1]][p[2]].id = x}
<1>1. ASSUME NEW p \in S, NEW q \in S PROVE p = q
  <2>1. PICK k \in BatchKeys, i \in Places : p = <<k, i>>
    OBVIOUS
  <2>2. PICK l \in BatchKeys, j \in Places : q = <<l, j>>
    OBVIOUS
  <2>3. SentAs(k, i, x) /\ SentAs(l, j, x)
    BY <2>1, <2>2 DEF SentAs
  <2>4. k = l /\ i = j
    BY <2>3 DEF RowsHaveOnePlace, RowIds
  <2> QED
    BY <2>1, <2>2, <2>4
<1>2. CASE S = {}
  <2>1. Cardinality(S) = 0
    <3> HIDE DEF S
    <3> QED BY <1>2, FS_EmptySet
  <2> QED BY <2>1
<1>3. CASE S # {}
  <2>1. PICK p \in S : TRUE
    BY <1>3
  <2>2. S = {p}
    BY <2>1, <1>1
  <2>3. Cardinality({p}) = 1
    BY FS_Singleton
  <2>4. Cardinality(S) = 1
    BY <2>2, <2>3
  <2> QED
    BY <2>4
<1> QED
  BY <1>2, <1>3

\* The page's fields are of their types.
LEMMA FormFacts ==
  ASSUME StockInTypes
  PROVE  /\ form \in BatchFormType /\ form.page \in BatchPageType /\ form.page.rows \in FormRows
         /\ form.made \subseteq BatchKeys /\ form.sent \subseteq RowIds
         /\ form.entered \in 0..MaxRowIds /\ form.entered \in Nat
<1>1. MaxRowIds \in Nat
  BY StockInAssumption
<1> QED
  BY <1>1 DEF StockInTypes, BatchFormType, BatchPageType, RowIds

\* Steps of the service and of the page that only forget or end calls.
LEMMA CallsForgotten ==
  ASSUME StockInInv, received' = received, doubtful' = doubtful,
         batchCall' \in [Batches -> BatchCallType],
         \A b \in Batches : \/ batchCall'[b] = NoCallYet
                            \/ /\ batchCall'[b].key = batchCall[b].key
                               /\ batchCall'[b].rows = batchCall[b].rows
                               /\ batchCall'[b].results = batchCall[b].results
                               /\ batchCall'[b].pc # "idle" => batchCall[b].pc # "idle",
         form' \in BatchFormType, form'.page.rows = form.page.rows, form'.page.key = form.page.key,
         form'.made = form.made, form'.sent = form.sent, form'.entered = form.entered
  PROVE  StockInInv'
<1>1. /\ StockInTypes /\ RowsApart(form.page.rows, form.entered) /\ PlacesAreRows
      /\ RowsHaveOnePlace /\ HeldKeyHolds /\ OkRowsAreReceived
  BY DEF StockInInv
<1>2. \A k \in BatchKeys, i \in Places, x \in RowIds : SentAs(k, i, x)' => SentAs(k, i, x)
  BY SentShrinks DEF CallKept
<1>3. form.entered \in Nat
  BY <1>1, FormFacts
<1>4. PlacesAreRows' /\ RowsHaveOnePlace'
  BY <1>1, <1>2, <1>3, PlacesKept
<1>5. HeldKeyHolds'
  BY <1>1, <1>2, <1>3, HeldExtended
<1>6. OkRowsAreReceived'
  BY <1>1, AnsweredKept
<1>7. \A b \in Batches : CallInOrder(batchCall'[b])
  <2>1. \A b \in Batches : CallInOrder(batchCall[b])
    BY <1>1 DEF StockInTypes
  <2> QED
    BY <2>1, NoCallTyped DEF CallInOrder
<1>8. StockInTypes'
  BY <1>1, <1>7 DEF StockInTypes
<1>9. RowsApart(form.page.rows, form.entered)'
  BY <1>1 DEF RowsApart
<1> QED
  BY <1>4, <1>5, <1>6, <1>8, <1>9 DEF StockInInv

\* The rows the service has not received yet do not count, and those it has are rows.
LEMMA ReceivedTyped ==
  ASSUME StockInTypes, NEW k \in BatchKeys, NEW i \in Places
  PROVE  received[k][i] = Nothing \/ (received[k][i] \in Row /\ received[k][i].id \in RowIds)
  BY DEF StockInTypes, Row, RowIds

\* One more result, and what the service may have received for it.
Served(b, i, result) ==
  batchCall' = [batchCall EXCEPT ![b].results = Append(@, result)]

\* The call after one more result, field by field.
LEMMA ServedCall ==
  ASSUME StockInTypes, NEW b \in Batches, NEW i, NEW result \in {"ok", "failed"},
         batchCall[b].pc = "running", i = Len(batchCall[b].results) + 1,
         i <= Len(batchCall[b].rows), Served(b, i, result)
  PROVE  /\ batchCall' \in [Batches -> BatchCallType]
         /\ \A c \in Batches : c # b => batchCall'[c] = batchCall[c]
         /\ batchCall'[b].key = batchCall[b].key /\ batchCall'[b].rows = batchCall[b].rows
         /\ Len(batchCall'[b].results) = i /\ batchCall'[b].results[i] = result
         /\ \A j \in 1..Len(batchCall[b].results) :
              j \in 1..i /\ j # i /\ batchCall'[b].results[j] = batchCall[b].results[j]
         /\ \A j \in 1..i : j # i => j \in 1..Len(batchCall[b].results)
         /\ \A c \in Batches : CallInOrder(batchCall'[c])
<1>1. PICK r \in BatchCallType : r = batchCall[b]
  BY DEF StockInTypes
<1>2. PICK res : res = Append(r.results, result)
  OBVIOUS
<1>3. r.results \in Seq({"ok", "failed"})
  BY <1>1 DEF BatchCallType
<1>4. /\ res \in Seq({"ok", "failed"}) /\ Len(r.results) \in Nat /\ Len(res) = i
      /\ res[i] = result /\ \A j \in 1..Len(r.results) : res[j] = r.results[j]
  BY <1>1, <1>2, <1>3
<1>5. PICK new : new = [r EXCEPT !.results = res]
  OBVIOUS
<1>6. /\ new \in BatchCallType /\ new.key = r.key /\ new.rows = r.rows /\ new.results = res
      /\ new.pc = r.pc
  BY <1>4, <1>5 DEF BatchCallType
<1>7. batchCall' = [batchCall EXCEPT ![b] = new]
  BY <1>1, <1>2, <1>5 DEF Served
<1>8. batchCall \in [Batches -> BatchCallType]
  BY DEF StockInTypes
<1>9. /\ batchCall' \in [Batches -> BatchCallType] /\ batchCall'[b] = new
      /\ \A c \in Batches : c # b => batchCall'[c] = batchCall[c]
  BY <1>6, <1>7, <1>8
<1>10. CallInOrder(new)
  BY <1>1, <1>4, <1>6 DEF CallInOrder, StockInTypes
<1>11. \A c \in Batches : CallInOrder(batchCall'[c])
  BY <1>9, <1>10 DEF StockInTypes
<1>12. /\ \A j \in 1..Len(r.results) : j \in 1..i /\ j # i
       /\ \A j \in 1..i : j # i => j \in 1..Len(r.results)
  BY <1>1, <1>4
<1> QED
  BY <1>1, <1>4, <1>6, <1>9, <1>11, <1>12

\* Receiving, finding or refusing one row keeps the invariant.
LEMMA ServeRowStep ==
  ASSUME StockInInv, NEW b \in Batches, ServeRow(b)
  PROVE  StockInInv'
<1>1. /\ StockInTypes /\ RowsApart(form.page.rows, form.entered) /\ PlacesAreRows
      /\ RowsHaveOnePlace /\ HeldKeyHolds /\ OkRowsAreReceived
  BY DEF StockInInv
<1>2. PICK r \in BatchCallType : r = batchCall[b]
  BY <1>1 DEF StockInTypes
<1>3. PICK i : i = Len(r.results) + 1
  OBVIOUS
<1>4. /\ r.pc = "running" /\ i <= Len(r.rows) /\ form' = form /\ doubtful' = doubtful
      /\ \/ /\ received[r.key][i] = Nothing
            /\ received' = [received EXCEPT ![r.key][i] = r.rows[i]]
            /\ Served(b, i, "ok")
         \/ /\ received[r.key][i] # Nothing
            /\ Served(b, i, IF SameRow(r.key, i, r.rows[i]) THEN "ok" ELSE "failed")
            /\ received' = received
         \/ /\ received[r.key][i] = Nothing
            /\ Served(b, i, "failed")
            /\ received' = received
  BY <1>2, <1>3 DEF ServeRow, PlaceOf, Served
<1>5. PICK k \in BatchKeys : k = r.key
  BY <1>1, <1>2, <1>4 DEF StockInTypes, CallInOrder
<1>6. r.rows \in FormRows /\ r.results \in Seq({"ok", "failed"}) /\ Len(r.results) \in Nat
  BY <1>2 DEF BatchCallType
<1>7. i \in DOMAIN r.rows /\ i \in Places
  BY <1>3, <1>4, <1>6, RowFacts
<1>8. PICK lot \in Row : lot = r.rows[i] /\ lot.id \in RowIds
  BY <1>6, <1>7, RowFacts
<1>9. SentAs(k, i, lot.id)
  BY <1>2, <1>5, <1>7, <1>8 DEF SentAs
<1>10. PICK result \in {"ok", "failed"} :
         /\ Served(b, i, result)
         /\ \/ /\ received[k][i] = Nothing /\ result = "ok"
               /\ received' = [received EXCEPT ![k][i] = lot]
            \/ /\ received' = received
               /\ result = "ok" => received[k][i] # Nothing
                                   /\ received[k][i].quantity = lot.quantity
  <2>1. CASE received[k][i] = Nothing /\ Served(b, i, "ok")
             /\ received' = [received EXCEPT ![k][i] = lot]
    BY <2>1
  <2>2. CASE /\ received[k][i] # Nothing /\ received' = received
             /\ Served(b, i, IF SameRow(k, i, lot) THEN "ok" ELSE "failed")
    <3>1. PICK res \in {"ok", "failed"} : res = IF SameRow(k, i, lot) THEN "ok" ELSE "failed"
      OBVIOUS
    <3>2. res = "ok" => received[k][i].quantity = lot.quantity
      BY <3>1 DEF SameRow
    <3> QED
      BY <2>2, <3>1, <3>2
  <2>3. CASE received[k][i] = Nothing /\ Served(b, i, "failed") /\ received' = received
    BY <2>3
  <2> QED
    BY <1>4, <1>5, <1>8, <2>1, <2>2, <2>3
<1>11. /\ \A l \in BatchKeys, j \in Places : l # k \/ j # i => received'[l][j] = received[l][j]
       /\ received'[k][i] = received[k][i] \/ (received'[k][i] = lot /\ received[k][i] = Nothing)
       /\ received' \in [BatchKeys -> [Places -> Row \cup {Nothing}]]
  BY <1>1, <1>7, <1>10 DEF StockInTypes
<1>12. /\ batchCall' \in [Batches -> BatchCallType]
       /\ \A c \in Batches : c # b => batchCall'[c] = batchCall[c]
       /\ batchCall'[b].key = k /\ batchCall'[b].rows = r.rows
       /\ Len(batchCall'[b].results) = i /\ batchCall'[b].results[i] = result
       /\ \A j \in 1..i : j # i => /\ j \in 1..Len(r.results)
                                   /\ batchCall'[b].results[j] = r.results[j]
       /\ \A c \in Batches : CallInOrder(batchCall'[c])
  BY <1>1, <1>2, <1>3, <1>4, <1>5, <1>10, ServedCall
<1>13. ASSUME NEW l \in BatchKeys, NEW j \in Places, NEW x \in RowIds, SentAs(l, j, x)'
       PROVE  SentAs(l, j, x)
  <2>1. CASE received'[l][j].id = x
    <3>1. CASE l = k /\ j = i /\ received'[k][i] = lot
      BY <2>1, <3>1, <1>9
    <3>2. CASE received'[l][j] = received[l][j]
      BY <2>1, <3>2 DEF SentAs
    <3> QED
      BY <3>1, <3>2, <1>11
  <2>2. CASE \E c \in Batches : /\ batchCall'[c].key = l /\ j \in DOMAIN batchCall'[c].rows
                                /\ batchCall'[c].rows[j].id = x
    BY <2>2, <1>2, <1>5, <1>12 DEF SentAs
  <2> QED
    BY <1>13, <2>1, <2>2 DEF SentAs
<1>14. form.entered \in Nat
  BY <1>1, FormFacts
<1>15. PlacesAreRows' /\ RowsHaveOnePlace'
  BY <1>1, <1>4, <1>13, <1>14, PlacesKept
<1>16. HeldKeyHolds'
  BY <1>1, <1>4, <1>13, <1>14, HeldExtended
<1>17. ASSUME NEW c \in Batches, NEW j \in 1..Len(batchCall'[c].results),
              batchCall'[c].results[j] = "ok"
       PROVE  /\ received'[batchCall'[c].key][j].id = batchCall'[c].rows[j].id
              /\ received'[batchCall'[c].key][j].quantity = batchCall'[c].rows[j].quantity
  <2>1. CASE c = b /\ j = i
    <3>1. result = "ok"
      BY <2>1, <1>12, <1>17
    <3>2. CASE received'[k][i] = lot
      BY <2>1, <3>2, <1>8, <1>12
    <3>3. CASE received' = received /\ received[k][i] # Nothing
               /\ received[k][i].quantity = lot.quantity
      <4>1. received[k][i].id \in RowIds
        BY <3>3, <1>1, <1>7, ReceivedTyped
      <4>2. SentAs(k, i, received[k][i].id)
        BY DEF SentAs
      <4>3. received[k][i].id = lot.id
        BY <4>1, <4>2, <1>1, <1>7, <1>8, <1>9 DEF PlacesAreRows
      <4> QED
        BY <2>1, <3>3, <4>3, <1>8, <1>12
    <3> QED
      BY <3>1, <3>2, <3>3, <1>1, <1>7, <1>10 DEF StockInTypes
  <2>2. CASE c # b \/ j # i
    <3>1. /\ batchCall'[c].key = batchCall[c].key /\ batchCall'[c].rows = batchCall[c].rows
          /\ j \in 1..Len(batchCall[c].results) /\ batchCall[c].results[j] = "ok"
      BY <2>2, <1>2, <1>5, <1>12, <1>17
    <3>2. /\ received[batchCall[c].key][j].id = batchCall[c].rows[j].id
          /\ received[batchCall[c].key][j].quantity = batchCall[c].rows[j].quantity
      BY <3>1, <1>1 DEF OkRowsAreReceived
    <3>3. PICK o \in BatchCallType : o = batchCall[c]
      BY <1>1 DEF StockInTypes
    <3>4. /\ o.rows \in FormRows /\ o.results \in Seq({"ok", "failed"})
          /\ Len(o.results) <= Len(o.rows) /\ (o.results # <<>> => o.key \in BatchKeys)
      BY <3>3, <1>1 DEF BatchCallType, StockInTypes, CallInOrder
    <3>5. j \in DOMAIN o.rows /\ o.results # <<>>
      BY <3>1, <3>3, <3>4, RowFacts, EmptySeq
    <3>6. o.key \in BatchKeys /\ j \in Places /\ o.rows[j].id \in RowIds
      BY <3>4, <3>5, RowFacts
    <3>7. received[o.key][j] # Nothing
      BY <3>2, <3>3, <3>6 DEF Nothing, RowIds
    <3>8. received'[o.key][j] = received[o.key][j]
      BY <3>6, <3>7, <1>11
    <3> QED
      BY <3>1, <3>2, <3>3, <3>8
  <2> QED
    BY <2>1, <2>2
<1>18. OkRowsAreReceived'
  BY <1>17 DEF OkRowsAreReceived
<1>19. StockInTypes'
  BY <1>1, <1>4, <1>11, <1>12 DEF StockInTypes
<1>20. RowsApart(form.page.rows, form.entered)'
  BY <1>1, <1>4 DEF RowsApart
<1> QED
  BY <1>15, <1>16, <1>18, <1>19, <1>20 DEF StockInInv

\* An edit that drops the key keeps the invariant: what was sent under the key
\* becomes doubtful.
LEMMA PageDirtied ==
  ASSUME StockInInv, received' = received, batchCall' = batchCall,
         doubtful' = doubtful \cup form.sent,
         form' \in BatchFormType, form'.page.key = NoBatchKey, form'.made = form.made,
         form.entered <= form'.entered, RowsApart(form'.page.rows, form'.entered),
         \A i \in DOMAIN form'.page.rows :
           \/ \E j \in DOMAIN form.page.rows : form'.page.rows[i].id = form.page.rows[j].id
           \/ form'.page.rows[i].id = form.entered + 1
  PROVE  StockInInv'
<1>1. /\ StockInTypes /\ PlacesAreRows /\ RowsHaveOnePlace /\ HeldKeyHolds
      /\ OkRowsAreReceived
  BY DEF StockInInv
<1>2. \A k \in BatchKeys, i \in Places, x \in RowIds : SentAs(k, i, x)' => SentAs(k, i, x)
  BY DEF SentAs
<1>3. form.entered \in Nat /\ form'.entered \in Nat /\ form.sent \subseteq RowIds
  <2>1. form'.entered \in 0..MaxRowIds /\ MaxRowIds \in Nat
    BY StockInAssumption DEF BatchFormType
  <2> QED
    BY <2>1, <1>1, FormFacts
<1>4. PlacesAreRows' /\ RowsHaveOnePlace'
  BY <1>1, <1>2, <1>3, PlacesKept
<1>5. HeldKeyHolds'
  BY <1>1, <1>2, <1>3, KeyDropped
<1>6. OkRowsAreReceived'
  BY <1>1 DEF OkRowsAreReceived
<1>7. StockInTypes'
  BY <1>1, <1>3 DEF StockInTypes, RowIds
<1> QED
  BY <1>4, <1>5, <1>6, <1>7 DEF StockInInv

\* The other rows a page may get while it holds its key keep the invariant.
LEMMA PageExtended ==
  ASSUME StockInInv, received' = received, batchCall' = batchCall, doubtful' = doubtful,
         form' \in BatchFormType, form'.page.key = form.page.key, form'.made = form.made,
         form'.sent = form.sent, form.entered <= form'.entered,
         RowsApart(form'.page.rows, form'.entered),
         \A i \in DOMAIN form.page.rows : /\ i \in DOMAIN form'.page.rows
                                          /\ form'.page.rows[i].id = form.page.rows[i].id,
         \A i \in DOMAIN form'.page.rows :
           i \in DOMAIN form.page.rows \/ form'.page.rows[i].id = form.entered + 1
  PROVE  StockInInv'
<1>1. /\ StockInTypes /\ PlacesAreRows /\ RowsHaveOnePlace /\ HeldKeyHolds
      /\ OkRowsAreReceived
  BY DEF StockInInv
<1>2. \A k \in BatchKeys, i \in Places, x \in RowIds : SentAs(k, i, x)' => SentAs(k, i, x)
  BY DEF SentAs
<1>3. form.entered \in Nat /\ form'.entered \in Nat
  <2>1. form'.entered \in 0..MaxRowIds /\ MaxRowIds \in Nat
    BY StockInAssumption DEF BatchFormType
  <2> QED
    BY <2>1, <1>1, FormFacts
<1>4. PlacesAreRows' /\ RowsHaveOnePlace'
  BY <1>1, <1>2, <1>3, PlacesKept
<1>5. HeldKeyHolds'
  BY <1>1, <1>2, <1>3, HeldExtended
<1>6. OkRowsAreReceived'
  BY <1>1 DEF OkRowsAreReceived
<1>7. StockInTypes'
  BY <1>1 DEF StockInTypes
<1> QED
  BY <1>4, <1>5, <1>6, <1>7 DEF StockInInv

\* A row that was just entered has an id of its own.
LEMMA RowAppended ==
  ASSUME StockInInv, MayAdd
  PROVE  LET rows == Append(form.page.rows, Fresh)
         IN  /\ rows \in FormRows /\ RowsApart(rows, form.entered + 1)
             /\ form.entered + 1 \in 0..MaxRowIds
             /\ \A i \in DOMAIN form.page.rows : i \in DOMAIN rows /\ rows[i] = form.page.rows[i]
             /\ \A i \in DOMAIN rows : \/ i \in DOMAIN form.page.rows
                                       \/ rows[i].id = form.entered + 1
<1>1. PICK old \in FormRows : old = form.page.rows
  BY FormFacts DEF StockInInv
<1>2. PICK n \in Nat : n = form.entered /\ n < MaxRowIds
  BY FormFacts DEF StockInInv, MayAdd
<1>3. Fresh \in Row /\ Fresh.id = n + 1
  <2>1. n + 1 \in 1..MaxRowIds /\ 1 \in 1..MaxQuantity
    BY <1>2, StockInAssumption
  <2> QED
    BY <2>1, <1>2 DEF Fresh, Row
<1>4. PICK fresh \in Row : fresh = Fresh /\ fresh.id = n + 1
  BY <1>3
<1>5. PICK rows : rows = Append(old, fresh)
  OBVIOUS
<1>6. /\ old \in Seq(Row) /\ Len(old) \in Nat /\ Len(old) < MaxRows /\ DOMAIN old = 1..Len(old)
      /\ \A i \in DOMAIN old : old[i].id \in RowIds
  BY <1>1, RowFacts DEF MayAdd
<1>7. /\ rows \in Seq(Row) /\ Len(rows) = Len(old) + 1 /\ DOMAIN rows = 1..(Len(old) + 1)
      /\ rows[Len(old) + 1] = fresh /\ \A i \in 1..Len(old) : rows[i] = old[i]
  BY <1>5, <1>6
<1>8. rows \in FormRows
  BY <1>6, <1>7, FormRowsAreSeqs, StockInAssumption
<1>9. \A i \in DOMAIN rows : i \in DOMAIN old \/ (i = Len(old) + 1 /\ rows[i].id = n + 1)
  BY <1>4, <1>6, <1>7
<1>10. RowsApart(old, n)
  BY <1>1, <1>2 DEF StockInInv
<1>11. RowsApart(rows, n + 1)
  <2>1. \A i \in DOMAIN old : old[i].id \in Nat /\ old[i].id <= n /\ rows[i] = old[i]
    BY <1>6, <1>7, <1>10 DEF RowsApart, RowIds
  <2>2. ASSUME NEW i \in DOMAIN rows PROVE rows[i].id <= n + 1
    BY <2>1, <1>9
  <2>3. ASSUME NEW i \in DOMAIN rows, NEW j \in DOMAIN rows, rows[i].id = rows[j].id
        PROVE  i = j
    <3>1. CASE i \in DOMAIN old /\ j \in DOMAIN old
      BY <3>1, <2>1, <2>3, <1>10 DEF RowsApart
    <3>2. CASE ~(i \in DOMAIN old /\ j \in DOMAIN old)
      BY <3>2, <2>1, <2>3, <1>9
    <3> QED
      BY <3>1, <3>2
  <2> QED
    BY <2>2, <2>3 DEF RowsApart
<1>12. n + 1 \in 0..MaxRowIds
  BY <1>2, StockInAssumption
<1> QED
  BY <1>1, <1>2, <1>4, <1>5, <1>6, <1>7, <1>8, <1>9, <1>11, <1>12

\* Adding a row keeps the invariant.
LEMMA AddRowStep ==
  ASSUME StockInInv, AddRow
  PROVE  StockInInv'
<1>1. form \in BatchFormType /\ form.page \in BatchPageType
  BY FormFacts DEF StockInInv
<1>2. PICK p \in BatchPageType : p = form.page
  BY <1>1
<1>3. PICK rows : rows = Append(p.rows, Fresh)
  OBVIOUS
<1>4. PICK n : n = form.entered + 1
  OBVIOUS
<1>5. PICK view : view = [p EXCEPT !.rows = rows, !.key = NoBatchKey]
  OBVIOUS
<1>6. form' = [form EXCEPT !.page = view, !.sent = {}, !.entered = n]
  BY <1>1, <1>2, <1>3, <1>4, <1>5 DEF AddRow, BatchFormType, BatchPageType
<1>7. /\ MayAdd /\ received' = received /\ batchCall' = batchCall
      /\ doubtful' = doubtful \cup form.sent
  BY DEF AddRow
<1>8. /\ rows \in FormRows /\ RowsApart(rows, n) /\ n \in 0..MaxRowIds
      /\ \A i \in DOMAIN p.rows : i \in DOMAIN rows /\ rows[i] = p.rows[i]
      /\ \A i \in DOMAIN rows : i \in DOMAIN p.rows \/ rows[i].id = n
  BY <1>2, <1>3, <1>4, <1>7, RowAppended
<1>9. view \in BatchPageType /\ view.rows = rows /\ view.key = NoBatchKey
  BY <1>5, <1>8 DEF BatchPageType
<1>10. /\ form' \in BatchFormType /\ form'.page = view /\ form'.made = form.made
       /\ form'.entered = n
  BY <1>1, <1>6, <1>8, <1>9 DEF BatchFormType
<1>11. form.entered <= n
  <2>1. form.entered \in Nat
    BY FormFacts DEF StockInInv
  <2> QED
    BY <2>1, <1>4
<1>12. \A i \in DOMAIN form'.page.rows :
         \/ \E j \in DOMAIN form.page.rows : form'.page.rows[i].id = form.page.rows[j].id
         \/ form'.page.rows[i].id = form.entered + 1
  BY <1>2, <1>4, <1>8, <1>9, <1>10
<1> QED
  BY <1>7, <1>8, <1>9, <1>10, <1>11, <1>12, PageDirtied

\* An edit of the rows there are keeps the invariant.
LEMMA DirtiedStep ==
  ASSUME StockInInv, received' = received, batchCall' = batchCall,
         NEW view \in BatchPageType, Dirtied(view),
         RowsApart(view.rows, form.entered),
         \A i \in DOMAIN view.rows :
           \E j \in DOMAIN form.page.rows : view.rows[i].id = form.page.rows[j].id
  PROVE  StockInInv'
<1>1. form \in BatchFormType /\ form.entered \in Nat
  BY FormFacts DEF StockInInv
<1>2. PICK p : p = [view EXCEPT !.key = NoBatchKey]
  OBVIOUS
<1>3. form' = [form EXCEPT !.page = p, !.sent = {}] /\ doubtful' = doubtful \cup form.sent
  BY <1>2 DEF Dirtied
<1>4. p \in BatchPageType /\ p.rows = view.rows /\ p.key = NoBatchKey
  BY <1>2 DEF BatchPageType
<1>5. /\ form' \in BatchFormType /\ form'.page = p /\ form'.made = form.made
      /\ form'.entered = form.entered
  BY <1>1, <1>3, <1>4 DEF BatchFormType
<1> QED
  BY <1>1, <1>3, <1>4, <1>5, PageDirtied

WithQuantity(rows, i, q) == [rows EXCEPT ![i].quantity = q]

\* Rows of other quantities are told apart as before.
LEMMA RowChanged ==
  ASSUME NEW rows \in FormRows, NEW i \in DOMAIN rows, NEW q \in 1..MaxQuantity,
         NEW entered, RowsApart(rows, entered)
  PROVE  LET new == WithQuantity(rows, i, q)
         IN  /\ new \in FormRows /\ RowsApart(new, entered) /\ DOMAIN new = DOMAIN rows
             /\ \A j \in DOMAIN rows : new[j].id = rows[j].id
<1>1. PICK lot \in Row : lot = rows[i]
  BY RowFacts
<1>2. PICK changed : changed = [lot EXCEPT !.quantity = q]
  OBVIOUS
<1>3. changed \in Row /\ changed.id = lot.id
  BY <1>2 DEF Row
<1>4. PICK new : new = [rows EXCEPT ![i] = changed]
  OBVIOUS
<1>5. new = WithQuantity(rows, i, q)
  BY <1>1, <1>2, <1>4 DEF WithQuantity
<1>6. /\ rows \in Seq(Row) /\ DOMAIN rows = 1..Len(rows) /\ Len(rows) \in Nat
      /\ Len(rows) <= MaxRows
  BY RowFacts
<1>7. /\ DOMAIN new = DOMAIN rows /\ \A j \in DOMAIN rows : new[j].id = rows[j].id
  BY <1>1, <1>3, <1>4, <1>6
<1>8. new \in Seq(Row) /\ Len(new) = Len(rows)
  BY <1>3, <1>4, <1>6, ExceptSeq
<1>9. new \in FormRows
  BY <1>6, <1>8, FormRowsAreSeqs
<1>10. RowsApart(new, entered)
  BY <1>7 DEF RowsApart
<1> QED
  BY <1>5, <1>7, <1>9, <1>10

\* Changing a row keeps the invariant.
LEMMA EditRowStep ==
  ASSUME StockInInv, NEW i \in Places, NEW q \in 1..MaxQuantity, EditRow(i, q)
  PROVE  StockInInv'
<1>1. PICK p \in BatchPageType : p = form.page
  BY FormFacts DEF StockInInv
<1>2. PICK rows \in FormRows : rows = p.rows
  BY <1>1 DEF BatchPageType
<1>3. i \in DOMAIN rows
  <2>1. DOMAIN rows = 1..Len(rows) /\ Len(rows) \in Nat
    BY RowFacts
  <2>2. i \in Nat /\ 1 <= i
    BY StockInAssumption DEF Places
  <2> QED
    BY <1>1, <1>2, <2>1, <2>2 DEF EditRow
<1>4. RowsApart(rows, form.entered)
  BY <1>1, <1>2 DEF StockInInv
<1>5. PICK new : new = WithQuantity(rows, i, q)
  OBVIOUS
<1>6. /\ new \in FormRows /\ RowsApart(new, form.entered) /\ DOMAIN new = DOMAIN rows
      /\ \A j \in DOMAIN rows : new[j].id = rows[j].id
  BY <1>3, <1>4, <1>5, RowChanged
<1>7. PICK view : view = [p EXCEPT !.rows = new]
  OBVIOUS
<1>8. view \in BatchPageType /\ view.rows = new
  BY <1>6, <1>7 DEF BatchPageType
<1>9. Dirtied(view) /\ received' = received /\ batchCall' = batchCall
  <2>1. view = [form.page EXCEPT !.rows[i].quantity = q]
    BY <1>1, <1>2, <1>5, <1>7 DEF WithQuantity
  <2> QED
    BY <2>1 DEF EditRow
<1> QED
  BY <1>1, <1>2, <1>6, <1>8, <1>9, DirtiedStep

\* Rows of which one was left out are told apart as before.
LEMMA RowLeftOut ==
  ASSUME NEW rows \in FormRows, NEW i \in DOMAIN rows, NEW entered, RowsApart(rows, entered)
  PROVE  LET new == SubSeq(rows, 1, i - 1) \o SubSeq(rows, i + 1, Len(rows))
         IN  /\ new \in FormRows /\ RowsApart(new, entered)
             /\ \A j \in DOMAIN new : \E k \in DOMAIN rows : new[j] = rows[k]
<1>1. PICK n \in Nat : n = Len(rows)
  BY RowFacts
<1>2. /\ rows \in Seq(Row) /\ DOMAIN rows = 1..n /\ n <= MaxRows /\ i \in 1..n
  BY <1>1, RowFacts
<1>3. PICK front : front = SubSeq(rows, 1, i - 1)
  OBVIOUS
<1>4. PICK back : back = SubSeq(rows, i + 1, n)
  OBVIOUS
<1>5. PICK new : new = front \o back
  OBVIOUS
<1>6. /\ front \in Seq(Row) /\ Len(front) = i - 1
      /\ \A j \in 1..(i - 1) : front[j] = rows[j]
  BY <1>1, <1>2, <1>3
<1>7. /\ back \in Seq(Row) /\ Len(back) = n - i
      /\ \A j \in 1..(n - i) : back[j] = rows[i + j]
  BY <1>1, <1>2, <1>4
<1>8. /\ new \in Seq(Row) /\ Len(new) = n - 1 /\ DOMAIN new = 1..(n - 1)
      /\ \A j \in 1..(n - 1) : new[j] = IF j < i THEN rows[j] ELSE rows[j + 1]
  <2>1. /\ new \in Seq(Row) /\ Len(new) = (i - 1) + (n - i)
        /\ \A j \in 1..((i - 1) + (n - i)) :
             new[j] = IF j <= i - 1 THEN front[j] ELSE back[j - (i - 1)]
    <3>1. /\ front \o back \in Seq(Row) /\ Len(front \o back) = Len(front) + Len(back)
          /\ \A j \in 1..(Len(front) + Len(back)) : (front \o back)[j] =
               IF j <= Len(front) THEN front[j] ELSE back[j - Len(front)]
      BY <1>6, <1>7, ConcatProperties
    <3> QED
      BY <3>1, <1>5, <1>6, <1>7
  <2>2. (i - 1) + (n - i) = n - 1
    BY <1>2
  <2>3. DOMAIN new = 1..(n - 1)
    BY <2>1, <2>2
  <2>4. ASSUME NEW j \in 1..(n - 1) PROVE new[j] = IF j < i THEN rows[j] ELSE rows[j + 1]
    <3>1. CASE j < i
      <4>1. j \in 1..(i - 1) /\ j <= i - 1
        BY <3>1, <1>2
      <4> QED
        BY <3>1, <4>1, <2>1, <2>2, <1>6
    <3>2. CASE ~(j < i)
      <4>1. ~(j <= i - 1) /\ j - (i - 1) \in 1..(n - i) /\ i + (j - (i - 1)) = j + 1
        BY <3>2, <1>2
      <4>2. new[j] = back[j - (i - 1)]
        BY <4>1, <2>1, <2>2
      <4> QED
        BY <3>2, <4>1, <4>2, <1>7
    <3> QED
      BY <3>1, <3>2
  <2> QED
    BY <2>1, <2>2, <2>3, <2>4
<1>9. new \in FormRows
  BY <1>2, <1>8, FormRowsAreSeqs, StockInAssumption
<1>10. ASSUME NEW j \in DOMAIN new PROVE \E k \in DOMAIN rows : new[j] = rows[k]
  <2>1. j \in 1..n /\ j + 1 \in 1..n /\ (new[j] = rows[j] \/ new[j] = rows[j + 1])
    BY <1>2, <1>8
  <2> QED
    BY <2>1, <1>2
<1>11. RowsApart(new, entered)
  <2>1. ASSUME NEW j \in DOMAIN new PROVE new[j].id <= entered
    <3>1. \E k \in DOMAIN rows : new[j] = rows[k]
      BY <1>10
    <3> QED
      BY <3>1 DEF RowsApart
  <2>2. ASSUME NEW j \in DOMAIN new, NEW k \in DOMAIN new, new[j].id = new[k].id PROVE j = k
    <3>1. PICK jj \in 1..n : /\ new[j] = rows[jj]
                             /\ jj = IF j < i THEN j ELSE j + 1
      BY <1>2, <1>8
    <3>2. PICK kk \in 1..n : /\ new[k] = rows[kk]
                             /\ kk = IF k < i THEN k ELSE k + 1
      BY <1>2, <1>8
    <3>3. jj = kk
      BY <2>2, <3>1, <3>2, <1>2 DEF RowsApart
    <3> QED
      BY <3>1, <3>2, <3>3, <1>2, <1>8
  <2> QED
    BY <2>1, <2>2 DEF RowsApart
<1> QED
  BY <1>1, <1>3, <1>4, <1>5, <1>9, <1>10, <1>11

\* Removing a row keeps the invariant.
LEMMA RemoveRowStep ==
  ASSUME StockInInv, NEW i \in Places, RemoveRow(i)
  PROVE  StockInInv'
<1>1. PICK p \in BatchPageType : p = form.page
  BY FormFacts DEF StockInInv
<1>2. PICK rows \in FormRows : rows = p.rows
  BY <1>1 DEF BatchPageType
<1>3. i \in DOMAIN rows
  <2>1. DOMAIN rows = 1..Len(rows) /\ Len(rows) \in Nat
    BY RowFacts
  <2>2. i \in Nat /\ 1 <= i
    BY StockInAssumption DEF Places
  <2> QED
    BY <1>1, <1>2, <2>1, <2>2 DEF RemoveRow
<1>4. RowsApart(rows, form.entered)
  BY <1>1, <1>2 DEF StockInInv
<1>5. PICK new : new = SubSeq(rows, 1, i - 1) \o SubSeq(rows, i + 1, Len(rows))
  OBVIOUS
<1>6. /\ new \in FormRows /\ RowsApart(new, form.entered)
      /\ \A j \in DOMAIN new : \E k \in DOMAIN rows : new[j] = rows[k]
  BY <1>3, <1>4, <1>5, RowLeftOut
<1>7. PICK view : view = [p EXCEPT !.rows = new]
  OBVIOUS
<1>8. view \in BatchPageType /\ view.rows = new
  BY <1>6, <1>7 DEF BatchPageType
<1>9. Dirtied(view) /\ received' = received /\ batchCall' = batchCall
  BY <1>1, <1>2, <1>5, <1>7 DEF RemoveRow
<1> QED
  BY <1>1, <1>2, <1>6, <1>8, <1>9, DirtiedStep

\* Beginning a scan keeps the invariant.
LEMMA StartScanStep ==
  ASSUME StockInInv, StartScan
  PROVE  StockInInv'
<1>1. PICK p \in BatchPageType : p = form.page
  BY FormFacts DEF StockInInv
<1>2. PICK view : view = [p EXCEPT !.scanning = TRUE]
  OBVIOUS
<1>3. view \in BatchPageType /\ view.rows = p.rows
  BY <1>2 DEF BatchPageType
<1>4. Dirtied(view) /\ received' = received /\ batchCall' = batchCall
  BY <1>1, <1>2 DEF StartScan
<1>5. RowsApart(view.rows, form.entered)
  BY <1>1, <1>3 DEF StockInInv
<1> QED
  BY <1>1, <1>3, <1>4, <1>5, DirtiedStep

\* The page after a scan.
Scanned(p, rows, n) ==
  form' = [form EXCEPT !.page = [p EXCEPT !.rows = rows, !.scanning = FALSE], !.entered = n]

\* What a scan adds to a row or to the rows keeps the invariant.
LEMMA FinishScanStep ==
  ASSUME StockInInv, FinishScan
  PROVE  StockInInv'
<1>1. PICK p \in BatchPageType : p = form.page
  BY FormFacts DEF StockInInv
<1>2. PICK rows \in FormRows : rows = p.rows
  BY <1>1 DEF BatchPageType
<1>3. form \in BatchFormType /\ form.entered \in Nat /\ RowsApart(rows, form.entered)
  BY <1>1, <1>2, FormFacts DEF StockInInv
<1>4. /\ received' = received /\ batchCall' = batchCall /\ doubtful' = doubtful
  BY DEF FinishScan
<1>5. ASSUME NEW new \in FormRows, NEW n \in 0..MaxRowIds, form.entered <= n,
             Scanned(p, new, n),
             RowsApart(new, n),
             \A i \in DOMAIN rows : i \in DOMAIN new /\ new[i].id = rows[i].id,
             \A i \in DOMAIN new : i \in DOMAIN rows \/ new[i].id = form.entered + 1
      PROVE  StockInInv'
  <2>1. PICK view : view = [p EXCEPT !.rows = new, !.scanning = FALSE]
    OBVIOUS
  <2>2. view \in BatchPageType /\ view.rows = new /\ view.key = p.key
    BY <2>1 DEF BatchPageType
  <2>3. form' = [form EXCEPT !.page = view, !.entered = n]
    BY <1>5, <2>1 DEF Scanned
  <2>4. /\ form' \in BatchFormType /\ form'.page = view /\ form'.made = form.made
        /\ form'.sent = form.sent /\ form'.entered = n
    BY <1>3, <2>2, <2>3 DEF BatchFormType
  <2> QED
    BY <1>1, <1>2, <1>4, <1>5, <2>2, <2>4, PageExtended
<1>6. ASSUME NEW i \in 1..Len(rows), rows[i].quantity < MaxQuantity,
             form' = [form EXCEPT !.page.rows[i].quantity = @ + 1, !.page.scanning = FALSE]
      PROVE  StockInInv'
  <2>1. i \in DOMAIN rows /\ rows[i] \in Row
    BY RowFacts
  <2>2. PICK q \in 1..MaxQuantity : q = rows[i].quantity + 1
    BY <1>6, <2>1, StockInAssumption DEF Row
  <2>3. PICK new : new = WithQuantity(rows, i, q)
    OBVIOUS
  <2>4. /\ new \in FormRows /\ RowsApart(new, form.entered) /\ DOMAIN new = DOMAIN rows
        /\ \A j \in DOMAIN rows : new[j].id = rows[j].id
    BY <1>3, <2>1, <2>3, RowChanged
  <2>5. Scanned(p, new, form.entered)
    BY <1>1, <1>2, <1>3, <1>6, <2>2, <2>3 DEF Scanned, WithQuantity, BatchFormType, BatchPageType
  <2>6. form.entered \in 0..MaxRowIds
    BY <1>3 DEF BatchFormType
  <2> QED
    BY <1>3, <1>5, <2>4, <2>5, <2>6
<1>7. ASSUME MayAdd,
             form' = [form EXCEPT !.page.rows = Append(@, Fresh), !.page.scanning = FALSE,
                                  !.entered = @ + 1]
      PROVE  StockInInv'
  <2>1. PICK new : new = Append(rows, Fresh)
    OBVIOUS
  <2>2. /\ new \in FormRows /\ RowsApart(new, form.entered + 1)
        /\ form.entered + 1 \in 0..MaxRowIds
        /\ \A j \in DOMAIN rows : j \in DOMAIN new /\ new[j] = rows[j]
        /\ \A j \in DOMAIN new : j \in DOMAIN rows \/ new[j].id = form.entered + 1
    BY <1>1, <1>2, <1>7, <2>1, RowAppended
  <2>3. Scanned(p, new, form.entered + 1)
    BY <1>1, <1>2, <1>3, <1>7, <2>1 DEF Scanned, BatchFormType, BatchPageType
  <2>4. form.entered <= form.entered + 1
    BY <1>3
  <2> QED
    BY <1>5, <2>2, <2>3, <2>4
<1>8. ASSUME form' = [form EXCEPT !.page.scanning = FALSE]
      PROVE  StockInInv'
  <2>1. Scanned(p, rows, form.entered)
    BY <1>1, <1>2, <1>3, <1>8 DEF Scanned, BatchFormType, BatchPageType
  <2>2. form.entered \in 0..MaxRowIds
    BY <1>3 DEF BatchFormType
  <2> QED
    BY <1>3, <1>5, <2>1, <2>2
<1> QED
  BY <1>1, <1>2, <1>6, <1>7, <1>8 DEF FinishScan

\* Ending a request keeps the invariant.
LEMMA FinishBatchStep ==
  ASSUME StockInInv, NEW b \in Batches, FinishBatch(b)
  PROVE  StockInInv'
<1>1. StockInTypes /\ form \in BatchFormType
  BY FormFacts DEF StockInInv
<1>2. PICK r \in BatchCallType : r = batchCall[b] /\ r.pc = "running"
  BY <1>1 DEF StockInTypes, FinishBatch
<1>3. PICK pc \in {"done", "fault"} :
        pc = IF Len(r.results) = Len(r.rows) THEN "done" ELSE "fault"
  OBVIOUS
<1>4. PICK done : done = [r EXCEPT !.pc = pc]
  OBVIOUS
<1>5. /\ done \in BatchCallType /\ done.key = r.key /\ done.rows = r.rows
      /\ done.results = r.results
  BY <1>3, <1>4 DEF BatchCallType
<1>6. PICK new \in BatchCallType : /\ new = NoCallYet \/ new = done
                              /\ batchCall' = [batchCall EXCEPT ![b] = new]
  BY <1>2, <1>3, <1>4, <1>5, NoCallTyped DEF FinishBatch
<1>7. /\ batchCall' \in [Batches -> BatchCallType] /\ batchCall'[b] = new
      /\ \A c \in Batches : c # b => batchCall'[c] = batchCall[c]
  BY <1>1, <1>6 DEF StockInTypes
<1>8. received' = received /\ form' = form /\ doubtful' = doubtful
  BY DEF FinishBatch
<1>9. \A c \in Batches : \/ batchCall'[c] = NoCallYet
                         \/ /\ batchCall'[c].key = batchCall[c].key
                            /\ batchCall'[c].rows = batchCall[c].rows
                            /\ batchCall'[c].results = batchCall[c].results
                            /\ batchCall'[c].pc # "idle" => batchCall[c].pc # "idle"
  BY <1>2, <1>5, <1>6, <1>7
<1> QED
  BY <1>1, <1>7, <1>8, <1>9, CallsForgotten

\* Showing a fault, or giving up waiting, keeps the invariant: the page keeps
\* its rows and its key.
LEMMA StopWaitingForBatch ==
  ASSUME StockInInv, received' = received, doubtful' = doubtful,
         batchCall' \in [Batches -> BatchCallType],
         \A b \in Batches : batchCall'[b] = NoCallYet \/ batchCall'[b] = batchCall[b],
         form' = [form EXCEPT !.page.waits = NoBatch]
  PROVE  StockInInv'
<1>1. form \in BatchFormType /\ form.page \in BatchPageType
  BY FormFacts DEF StockInInv
<1>2. PICK p \in BatchPageType : p = form.page
  BY <1>1
<1>3. PICK view : view = [p EXCEPT !.waits = NoBatch]
  OBVIOUS
<1>4. view \in BatchPageType /\ view.rows = p.rows /\ view.key = p.key
  BY <1>3 DEF BatchPageType
<1>5. form' = [form EXCEPT !.page = view]
  BY <1>2, <1>3
<1>6. /\ form' \in BatchFormType /\ form'.page = view /\ form'.made = form.made
      /\ form'.sent = form.sent /\ form'.entered = form.entered
  BY <1>1, <1>4, <1>5 DEF BatchFormType
<1> HIDE <1>5
<1>7. form'.page.rows = form.page.rows /\ form'.page.key = form.page.key
  BY <1>2, <1>4, <1>6
<1>8. \A b \in Batches : \/ batchCall'[b] = NoCallYet
                         \/ /\ batchCall'[b].key = batchCall[b].key
                            /\ batchCall'[b].rows = batchCall[b].rows
                            /\ batchCall'[b].results = batchCall[b].results
                            /\ batchCall'[b].pc # "idle" => batchCall[b].pc # "idle"
  OBVIOUS
<1> QED
  BY <1>6, <1>7, <1>8, CallsForgotten

\* Showing a fault keeps the invariant.
LEMMA ShowFaultStep ==
  ASSUME StockInInv, NEW b \in Batches, ShowFault(b)
  PROVE  StockInInv'
<1>1. batchCall \in [Batches -> BatchCallType]
  BY DEF StockInInv, StockInTypes
<1>2. batchCall' = [batchCall EXCEPT ![b] = NoCallYet]
  BY DEF ShowFault
<1>3. /\ batchCall' \in [Batches -> BatchCallType]
      /\ \A c \in Batches : batchCall'[c] = NoCallYet \/ batchCall'[c] = batchCall[c]
  BY <1>1, <1>2, NoCallTyped
<1>4. /\ received' = received /\ doubtful' = doubtful
      /\ form' = [form EXCEPT !.page.waits = NoBatch]
  BY DEF ShowFault
<1> QED
  BY <1>3, <1>4, StopWaitingForBatch

\* Giving up waiting keeps the invariant, though the service goes on.
LEMMA TimeOutStep ==
  ASSUME StockInInv, TimeOut
  PROVE  StockInInv'
<1>1. batchCall \in [Batches -> BatchCallType]
  BY DEF StockInInv, StockInTypes
<1>2. batchCall' = [b \in Batches |-> IF batchCall[b].pc = "running" THEN batchCall[b]
                                      ELSE NoCallYet]
  BY DEF TimeOut
<1>3. /\ batchCall' \in [Batches -> BatchCallType]
      /\ \A c \in Batches : batchCall'[c] = NoCallYet \/ batchCall'[c] = batchCall[c]
  BY <1>1, <1>2, NoCallTyped
<1>4. /\ received' = received /\ doubtful' = doubtful
      /\ form' = [form EXCEPT !.page.waits = NoBatch]
  BY DEF TimeOut
<1> QED
  BY <1>3, <1>4, StopWaitingForBatch

\* The reset after a success keeps the invariant: no row that was sent is on the
\* page any more.
LEMMA ShowResultsStep ==
  ASSUME StockInInv, NEW b \in Batches, ShowResults(b)
  PROVE  StockInInv'
<1>1. /\ StockInTypes /\ PlacesAreRows /\ RowsHaveOnePlace /\ OkRowsAreReceived
      /\ form \in BatchFormType /\ form.page \in BatchPageType /\ form.entered \in Nat
  BY FormFacts DEF StockInInv
<1>2. PICK p \in BatchPageType : p = form.page
  BY <1>1
<1>3. PICK view : view = [FreshForm EXCEPT !.scanning = p.scanning]
  OBVIOUS
<1>4. view \in BatchPageType /\ view.rows = <<>> /\ view.key = NoBatchKey
  BY <1>3, NoCallTyped DEF FreshForm, BatchPageType
<1>5. form' = [form EXCEPT !.page = view, !.sent = {}]
  BY <1>2, <1>3 DEF ShowResults
<1>6. /\ form' \in BatchFormType /\ form'.page = view /\ form'.made = form.made
      /\ form'.entered = form.entered
  BY <1>1, <1>4, <1>5 DEF BatchFormType
<1>7. received' = received /\ doubtful' = doubtful
  BY DEF ShowResults
<1>8. batchCall' = [batchCall EXCEPT ![b] = NoCallYet]
  BY DEF ShowResults
<1>9. /\ batchCall' \in [Batches -> BatchCallType]
      /\ \A c \in Batches : batchCall'[c] = NoCallYet \/ batchCall'[c] = batchCall[c]
  BY <1>1, <1>8, NoCallTyped DEF StockInTypes
<1>10. \A k \in BatchKeys, i \in Places, x \in RowIds : SentAs(k, i, x)' => SentAs(k, i, x)
  <2>1. \A c \in Batches : CallKept(c)
    BY <1>9 DEF CallKept
  <2> QED
    BY <2>1, <1>7, SentShrinks
<1>11. PlacesAreRows' /\ RowsHaveOnePlace'
  BY <1>1, <1>6, <1>7, <1>10, PlacesKept
<1>12. DOMAIN form'.page.rows = {}
  <2>1. DOMAIN <<>> = 1..0 /\ 1..0 = {}
    <3>1. <<>> \in FormRows /\ Len(<<>>) = 0
      BY NoCallTyped, EmptySeq
    <3>2. DOMAIN <<>> = 1..0
      BY <3>1, RowFacts
    <3> QED
      BY <3>2
  <2> QED
    BY <2>1, <1>4, <1>6
<1>13. HeldKeyHolds'
  <2>1. \A k \in BatchKeys : k # form'.page.key
    BY <1>4, <1>6, StockInAssumption
  <2> QED
    BY <2>1, <1>12 DEF HeldKeyHolds
<1>14. OkRowsAreReceived'
  BY <1>1, <1>7, <1>9, AnsweredKept
<1>15. RowsApart(form.page.rows, form.entered)'
  BY <1>12 DEF RowsApart
<1>16. StockInTypes'
  <2>1. \A c \in Batches : CallInOrder(batchCall'[c])
    BY <1>1, <1>9, NoCallTyped DEF StockInTypes
  <2> QED
    BY <2>1, <1>1, <1>6, <1>7, <1>9 DEF StockInTypes
<1> QED
  BY <1>11, <1>13, <1>14, <1>15, <1>16 DEF StockInInv

\* A call that was just sent.
Sent(k, rows) == [pc |-> "running", key |-> k, rows |-> rows, results |-> <<>>]

\* A call that was just sent, field by field.
LEMMA SentTyped ==
  ASSUME NEW k \in BatchKeys, NEW rows \in FormRows
  PROVE  /\ Sent(k, rows) \in BatchCallType /\ CallInOrder(Sent(k, rows))
         /\ Sent(k, rows).key = k /\ Sent(k, rows).rows = rows
         /\ Len(Sent(k, rows).results) = 0
<1>1. <<>> \in Seq({"ok", "failed"}) /\ Len(<<>>) = 0
  BY EmptySeq
<1>2. Sent(k, rows) \in BatchCallType
  BY <1>1 DEF Sent, BatchCallType
<1>3. /\ Sent(k, rows).key = k /\ Sent(k, rows).rows = rows
      /\ Sent(k, rows).results = <<>> /\ Sent(k, rows).pc = "running"
  BY DEF Sent
<1>4. Len(rows) \in Nat
  BY RowFacts
<1>5. CallInOrder(Sent(k, rows))
  BY <1>1, <1>3, <1>4 DEF CallInOrder
<1> QED
  BY <1>1, <1>2, <1>3, <1>5

\* Submitting the page keeps the invariant: a new key was never used, and under
\* the held one every row is where it was.
LEMMA SubmitBatchStep ==
  ASSUME StockInInv, NEW b \in Batches, NEW k \in BatchKeys, SubmitBatch(b, k)
  PROVE  StockInInv'
<1>1. /\ StockInTypes /\ RowsApart(form.page.rows, form.entered) /\ PlacesAreRows
      /\ RowsHaveOnePlace /\ HeldKeyHolds /\ OkRowsAreReceived
      /\ form \in BatchFormType /\ form.page \in BatchPageType /\ form.entered \in Nat
      /\ form.sent \subseteq RowIds
  BY FormFacts DEF StockInInv
<1>2. PICK p \in BatchPageType : p = form.page
  BY <1>1
<1>3. PICK rows \in FormRows : rows = p.rows
  BY DEF BatchPageType
<1>4. PICK sent :
        sent = form.sent \cup {form.page.rows[i].id : i \in DOMAIN form.page.rows}
  OBVIOUS
<1>5. PICK view : view = [p EXCEPT !.key = k, !.waits = b]
  OBVIOUS
<1>6. PICK made : made = form.made \cup {k}
  OBVIOUS
<1>7. form' = [form EXCEPT !.page = view, !.made = made, !.sent = sent]
  <2>1. form' = [form EXCEPT !.page.key = k, !.page.waits = b, !.made = made, !.sent = sent]
    BY <1>4, <1>6 DEF SubmitBatch
  <2> QED
    BY <2>1, <1>1, <1>2, <1>5 DEF BatchFormType, BatchPageType
<1>8. view \in BatchPageType /\ view.rows = rows /\ view.key = k
  BY <1>3, <1>5 DEF BatchPageType
<1>9. sent \subseteq RowIds /\ \A i \in DOMAIN rows : rows[i].id \in sent /\ rows[i].id \in RowIds
  <2>1. \A i \in DOMAIN rows : rows[i].id \in RowIds
    BY RowFacts
  <2> QED
    BY <2>1, <1>1, <1>2, <1>3, <1>4
<1>10. /\ form' \in BatchFormType /\ form'.page = view /\ form'.made = made /\ form'.sent = sent
       /\ form'.entered = form.entered
  BY <1>1, <1>6, <1>7, <1>8, <1>9 DEF BatchFormType, RowIds
<1>11. received' = received /\ doubtful' = doubtful
  BY DEF SubmitBatch
<1>12. PICK post \in BatchCallType : post = Sent(k, rows)
  BY SentTyped
<1>13. /\ CallInOrder(post) /\ post.key = k /\ post.rows = rows /\ Len(post.results) = 0
  BY <1>12, SentTyped
<1>14. batchCall' = [batchCall EXCEPT ![b] = post]
  BY <1>2, <1>3, <1>12 DEF SubmitBatch, Sent
<1>15. /\ batchCall' \in [Batches -> BatchCallType] /\ batchCall'[b] = post
       /\ \A c \in Batches : c # b => batchCall'[c] = batchCall[c]
  BY <1>1, <1>14 DEF StockInTypes
<1>16. IF p.key = NoBatchKey THEN k \notin form.made ELSE k = p.key
  BY <1>2 DEF SubmitBatch, KeyOfBatch
\* What was sent before, or is sent now.
<1>17. ASSUME NEW l \in BatchKeys, NEW i \in Places, NEW x \in RowIds, SentAs(l, i, x)'
       PROVE  SentAs(l, i, x) \/ (l = k /\ i \in DOMAIN rows /\ rows[i].id = x)
  <2>1. CASE received'[l][i].id = x
    BY <2>1, <1>11 DEF SentAs
  <2>2. CASE \E c \in Batches : /\ batchCall'[c].key = l /\ i \in DOMAIN batchCall'[c].rows
                                /\ batchCall'[c].rows[i].id = x
    BY <2>2, <1>13, <1>15 DEF SentAs
  <2> QED
    BY <1>17, <2>1, <2>2 DEF SentAs
\* What was sent before under the key is on the page where it was.
<1>18. ASSUME NEW i \in Places, NEW x \in RowIds, SentAs(k, i, x)
       PROVE  k = p.key /\ i \in DOMAIN rows /\ rows[i].id = x /\ x \in form.sent
  <2>1. k \in form.made
    BY <1>1, <1>18 DEF PlacesAreRows
  <2>2. k = p.key
    BY <2>1, <1>16
  <2> QED
    BY <2>2, <1>1, <1>2, <1>3, <1>18 DEF HeldKeyHolds
\* What was sent before under another key is not on the page.
<1>19. ASSUME NEW l \in BatchKeys, l # k, NEW i \in Places, NEW x \in RowIds, SentAs(l, i, x)
       PROVE  x \in doubtful \/ \A j \in DOMAIN rows : rows[j].id # x
  <2>1. l # p.key
    BY <1>16, <1>19, StockInAssumption
  <2> QED
    BY <2>1, <1>1, <1>2, <1>3, <1>19 DEF HeldKeyHolds
<1>20. ASSUME NEW i \in Places, NEW x \in RowIds, SentAs(k, i, x)'
       PROVE  i \in DOMAIN rows /\ rows[i].id = x
  BY <1>17, <1>18, <1>20
<1>21. ASSUME NEW l \in BatchKeys, l # k, NEW i \in Places, NEW x \in RowIds, SentAs(l, i, x)'
       PROVE  SentAs(l, i, x)
  BY <1>17, <1>21
<1>22. RowsApart(rows, form.entered)
  BY <1>1, <1>2, <1>3
<1>23. PlacesAreRows'
  <2>1. ASSUME NEW l \in BatchKeys, NEW i \in Places, NEW x \in RowIds, SentAs(l, i, x)'
        PROVE  /\ l \in made /\ x <= form.entered
               /\ \A y \in RowIds : SentAs(l, i, y)' => x = y
    <3>1. CASE l = k
      BY <2>1, <3>1, <1>6, <1>20, <1>22 DEF RowsApart
    <3>2. CASE l # k
      <4>1. SentAs(l, i, x)
        BY <2>1, <3>2, <1>21
      <4>2. l \in form.made /\ x <= form.entered /\ \A y \in RowIds : SentAs(l, i, y) => x = y
        BY <4>1, <1>1 DEF PlacesAreRows
      <4> QED
        BY <3>2, <4>2, <1>6, <1>21
    <3> QED
      BY <3>1, <3>2
  <2> QED
    BY <2>1, <1>10 DEF PlacesAreRows
<1>24. RowsHaveOnePlace'
  <2>1. ASSUME NEW l \in BatchKeys, NEW m \in BatchKeys, NEW i \in Places, NEW j \in Places,
               NEW x \in RowIds \ doubtful, SentAs(l, i, x)', SentAs(m, j, x)'
        PROVE  l = m /\ i = j
    <3>1. CASE l = k /\ m = k
      BY <2>1, <3>1, <1>20, <1>22 DEF RowsApart
    <3>2. CASE l = k /\ m # k
      BY <2>1, <3>2, <1>19, <1>20, <1>21
    <3>3. CASE l # k /\ m = k
      BY <2>1, <3>3, <1>19, <1>20, <1>21
    <3>4. CASE l # k /\ m # k
      BY <2>1, <3>4, <1>1, <1>21 DEF RowsHaveOnePlace
    <3> QED
      BY <3>1, <3>2, <3>3, <3>4
  <2> QED
    BY <2>1, <1>11 DEF RowsHaveOnePlace
<1>25. HeldKeyHolds'
  <2>1. ASSUME NEW l \in BatchKeys, NEW i \in Places, NEW x \in RowIds, SentAs(l, i, x)'
        PROVE  IF l = k THEN i \in DOMAIN rows /\ rows[i].id = x /\ x \in sent
               ELSE x \in doubtful \/ \A j \in DOMAIN rows : rows[j].id # x
    BY <2>1, <1>9, <1>19, <1>20, <1>21
  <2> QED
    BY <2>1, <1>8, <1>10, <1>11 DEF HeldKeyHolds
<1>26. OkRowsAreReceived'
  <2>1. ASSUME NEW c \in Batches, NEW i \in 1..Len(batchCall'[c].results),
               batchCall'[c].results[i] = "ok"
        PROVE  /\ received'[batchCall'[c].key][i].id = batchCall'[c].rows[i].id
               /\ received'[batchCall'[c].key][i].quantity = batchCall'[c].rows[i].quantity
    <3>1. c # b
      BY <2>1, <1>13, <1>15
    <3> QED
      BY <2>1, <3>1, <1>1, <1>11, <1>15 DEF OkRowsAreReceived
  <2> QED
    BY <2>1 DEF OkRowsAreReceived
<1>27. StockInTypes'
  <2>1. \A c \in Batches : CallInOrder(batchCall'[c])
    BY <1>1, <1>13, <1>15 DEF StockInTypes
  <2> QED
    BY <2>1, <1>1, <1>10, <1>11, <1>15 DEF StockInTypes
<1>28. RowsApart(form.page.rows, form.entered)'
  BY <1>8, <1>10, <1>22
<1> QED
  BY <1>23, <1>24, <1>25, <1>26, <1>27, <1>28 DEF StockInInv

\* The invariant holds at first.
LEMMA StockInInitInv == StockInInit => StockInInv
<1> SUFFICES ASSUME StockInInit PROVE StockInInv
  OBVIOUS
<1>1. /\ <<>> \in FormRows /\ Len(<<>>) = 0 /\ NoCallYet \in BatchCallType
      /\ CallInOrder(NoCallYet)
  BY NoCallTyped, EmptySeq
<1>2. DOMAIN <<>> = {}
  <2>1. DOMAIN <<>> = 1..0
    BY <1>1, RowFacts
  <2> QED
    BY <2>1
<1>3. /\ form.page \in BatchPageType /\ form.page.rows = <<>> /\ form.made = {}
      /\ form \in BatchFormType
  <2>1. 0 \in 0..MaxRowIds
    BY StockInAssumption
  <2> QED
    BY <2>1, <1>1 DEF StockInInit, FreshForm, BatchPageType, BatchFormType
<1>4. /\ \A b \in Batches : batchCall[b] = NoCallYet
      /\ \A k \in BatchKeys, i \in Places : received[k][i] = Nothing
  BY DEF StockInInit
<1>5. StockInTypes
  BY <1>1, <1>3, <1>4 DEF StockInInit, StockInTypes
<1>6. ASSUME NEW k \in BatchKeys, NEW i \in Places, NEW x \in RowIds PROVE ~SentAs(k, i, x)
  <2>1. Nothing.id # x
    BY DEF Nothing, RowIds
  <2>2. \A b \in Batches : DOMAIN batchCall[b].rows = {}
    BY <1>2, <1>4 DEF NoCallYet
  <2> QED
    BY <2>1, <2>2, <1>4 DEF SentAs
<1>7. PlacesAreRows /\ RowsHaveOnePlace /\ HeldKeyHolds
  BY <1>6 DEF PlacesAreRows, RowsHaveOnePlace, HeldKeyHolds
<1>8. RowsApart(form.page.rows, form.entered)
  BY <1>2, <1>3 DEF RowsApart
<1>9. OkRowsAreReceived
  <2>1. \A b \in Batches : Len(batchCall[b].results) = 0
    BY <1>1, <1>4 DEF NoCallYet
  <2> QED
    BY <2>1 DEF OkRowsAreReceived
<1> QED
  BY <1>5, <1>7, <1>8, <1>9 DEF StockInInv

\* Every step keeps the invariant.
LEMMA StockInNextInv == StockInInv /\ [StockInNext]_stockInVars => StockInInv'
<1> SUFFICES ASSUME StockInInv, [StockInNext]_stockInVars PROVE StockInInv'
  OBVIOUS
<1>1. ASSUME NEW b \in Batches, ServeRow(b) PROVE StockInInv'
  BY <1>1, ServeRowStep
<1>2. ASSUME NEW b \in Batches, FinishBatch(b) PROVE StockInInv'
  BY <1>2, FinishBatchStep
<1>3. ASSUME NEW b \in Batches, ShowResults(b) PROVE StockInInv'
  BY <1>3, ShowResultsStep
<1>4. ASSUME NEW b \in Batches, ShowFault(b) PROVE StockInInv'
  BY <1>4, ShowFaultStep
<1>5. ASSUME NEW b \in Batches, NEW k \in BatchKeys, SubmitBatch(b, k) PROVE StockInInv'
  BY <1>5, SubmitBatchStep
<1>6. CASE AddRow
  BY <1>6, AddRowStep
<1>7. CASE StartScan
  BY <1>7, StartScanStep
<1>8. CASE FinishScan
  BY <1>8, FinishScanStep
<1>9. CASE TimeOut
  BY <1>9, TimeOutStep
<1>10. ASSUME NEW i \in Places, RemoveRow(i) PROVE StockInInv'
  BY <1>10, RemoveRowStep
<1>11. ASSUME NEW i \in Places, NEW q \in 1..MaxQuantity, EditRow(i, q) PROVE StockInInv'
  BY <1>11, EditRowStep
<1>12. CASE UNCHANGED stockInVars
  BY <1>12 DEF stockInVars, StockInInv, StockInTypes, RowsApart, PlacesAreRows,
     RowsHaveOnePlace, HeldKeyHolds, OkRowsAreReceived, SentAs
<1> QED
  BY <1>1, <1>2, <1>3, <1>4, <1>5, <1>6, <1>7, <1>8, <1>9, <1>10, <1>11, <1>12
  DEF StockInNext

\* Keys, places and rows fit together in every reachable state
\* (bulk-stock-in-page.tsx, barcode-stock-in-page.tsx and the bulk-stock-in service).
THEOREM StockInInvariant == StockInSpec => []StockInInv
<1> QED
  BY StockInInitInv, StockInNextInv, PTL DEF StockInSpec

\* Bulk stock-in keeps its shape.
THEOREM StockInTyped == StockInSpec => []StockInTypeOK
<1>1. StockInInv => StockInTypeOK
  BY DEF StockInInv, StockInTypes, StockInTypeOK, BatchFormType, BatchPageType, BatchCallType,
         CallInOrder
<1> QED
  BY <1>1, StockInInvariant, PTL

\* A row is received once, however often its batch is sent again, unless an edit
\* dropped the key while the outcome was not known (rowIdempotencyKey).
THEOREM ReceivedOnce == StockInSpec => []RowsReceivedOnce
<1>1. StockInInv => RowsReceivedOnce
  BY OnePlaceMeansOnce DEF StockInInv
<1> QED
  BY <1>1, StockInInvariant, PTL

\* A row that is answered with ok was received as it was sent.
THEOREM OkMeansReceived == StockInSpec => []OkRowsAreReceived
<1>1. StockInInv => OkRowsAreReceived
  BY DEF StockInInv
<1> QED
  BY <1>1, StockInInvariant, PTL
=============================================================================
