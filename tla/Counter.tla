-------------------------------- MODULE Counter --------------------------------
(***************************************************************************)
(* The counter: frontend/src/components/pos/sell-workspace.tsx against the  *)
(* sales service.                                                           *)
(*                                                                         *)
(* A basket is entered, reviewed and posted.  Reviewing is two requests:    *)
(* the basket is saved (as a new draft, or into the draft the page holds)   *)
(* and the server calculates what it would post.  The answer replaces the   *)
(* page's draft, review and idempotency key and opens the review; changing  *)
(* the basket drops review and key but keeps the draft.  The review button  *)
(* is disabled while a review is under way, the shortcut Ctrl+Enter is not. *)
(* Every call may time out at the page and go on at the server.             *)
(*                                                                         *)
(* Posting is one step here (SalePosting takes it apart); a refused posting *)
(* leaves no trace.  Holding, customers, discounts and the way the payment  *)
(* is split are left out: changing them drops the review as well.           *)
(***************************************************************************)
EXTENDS Integers, FiniteSets

CONSTANTS Tickets,     \* sales rows
          Goods,       \* what may be in a basket
          Reviews,     \* review calls under way at the same time
          Postings,    \* posting calls under way at the same time
          NoTicket, NoGoods,
          MaxBaskets,  \* bound: baskets entered
          MaxReviewed  \* bound: reviews shown, each with a key of its own

ASSUME CounterAssumption ==
  /\ NoTicket \notin Tickets /\ NoGoods \notin Goods
  /\ MaxBaskets \in Nat /\ MaxReviewed \in Nat

VARIABLES ticket,   \* sales
          screen,   \* the page
          reviewing,\* its review calls
          posting,  \* its posting calls
          overlapped \* not the page's: baskets reviewed twice at once

counterVars == <<ticket, screen, reviewing, posting, overlapped>>

\* `agreed' is what the review that was confirmed showed.
NewTicket == [status |-> "none", basket |-> 0, goods |-> NoGoods, version |-> 0,
              key |-> 0, agreed |-> NoGoods]
NoDraft  == [id |-> NoTicket, version |-> 0, goods |-> NoGoods]
NoReview == [pc |-> "idle", basket |-> 0, goods |-> NoGoods, draft |-> NoDraft]
NoPosting == [pc |-> "idle", waited |-> FALSE, of |-> NoDraft, key |-> 0, answer |-> "none"]

Drafts == [id: Tickets \cup {NoTicket}, version: Nat, goods: Goods \cup {NoGoods}]

CounterTypeOK ==
  /\ ticket \in [Tickets -> [status: {"none", "draft", "posted"}, basket: 0..MaxBaskets,
                             goods: Goods \cup {NoGoods}, version: Nat,
                             key: 0..MaxReviewed, agreed: Goods \cup {NoGoods}]]
  /\ screen \in [basket: 0..MaxBaskets, cart: Goods \cup {NoGoods}, draft: Drafts,
                 review: Drafts, key: 0..MaxReviewed, reviewed: 0..MaxReviewed,
                 overlay: {"none", "review", "receipt"}]
  /\ reviewing \in [Reviews -> [pc: {"idle", "save", "late", "check", "done"},
                                basket: 0..MaxBaskets, goods: Goods \cup {NoGoods}, draft: Drafts]]
  /\ posting \in [Postings -> [pc: {"idle", "sent", "answered"}, waited: BOOLEAN, of: Drafts,
                               key: 0..MaxReviewed, answer: {"none", "posted", "refused"}]]
  /\ overlapped \subseteq 1..MaxBaskets

CounterInit ==
  /\ ticket = [t \in Tickets |-> NewTicket]
  /\ screen = [basket |-> 0, cart |-> NoGoods, draft |-> NoDraft, review |-> NoDraft,
               key |-> 0, reviewed |-> 0, overlay |-> "none"]
  /\ reviewing = [v \in Reviews |-> NoReview]
  /\ posting = [p \in Postings |-> NoPosting]
  /\ overlapped = {}

-----------------------------------------------------------------------------
(* The basket.                                                              *)

\* changeCart with resetReview; an empty cart that is filled is a new basket.
ChangeCart(g) ==
  /\ screen.overlay = "none" /\ g # screen.cart
  /\ screen.cart = NoGoods => screen.basket < MaxBaskets
  /\ screen' = [screen EXCEPT !.cart = g, !.review = NoDraft, !.key = 0,
                              !.basket = IF screen.cart = NoGoods THEN @ + 1 ELSE @]
  /\ UNCHANGED <<ticket, reviewing, posting, overlapped>>

\* Escape or "Back to sale"; "Done" with a receipt drops the key as well.
CloseOverlay ==
  /\ screen.overlay # "none"
  /\ \E key \in {screen.key} \cup (IF screen.overlay = "receipt" THEN {0} ELSE {}) :
       screen' = [screen EXCEPT !.overlay = "none", !.key = key]
  /\ UNCHANGED <<ticket, reviewing, posting, overlapped>>

-----------------------------------------------------------------------------
(* Reviewing.                                                               *)

UnderWay == {v \in Reviews : reviewing[v].pc \in {"save", "check", "done"}}

\* beginReview, by the button or the shortcut.
BeginReview(v) ==
  /\ screen.cart # NoGoods
  /\ reviewing[v] = NoReview
  /\ reviewing' = [reviewing EXCEPT ![v] =
       [pc |-> "save", basket |-> screen.basket, goods |-> screen.cart, draft |-> screen.draft]]
  /\ overlapped' = IF UnderWay = {} THEN overlapped
                   ELSE overlapped \cup {screen.basket} \cup {reviewing[w].basket : w \in UnderWay}
  /\ UNCHANGED <<ticket, screen, posting>>

Abandon(v) == reviewing' = [reviewing EXCEPT ![v] = NoReview]

\* saveDraft: createSaleDraft, or replaceSaleDraft guarded by the version.  A
\* page that has given up does not go on to the second request.
SaveDraft(v) ==
  LET r  == reviewing[v]
      id == r.draft.id
      Saved(t, version) ==
        reviewing' = [reviewing EXCEPT ![v] =
          IF r.pc = "late" THEN NoReview
          ELSE [r EXCEPT !.pc = "check",
                         !.draft = [id |-> t, version |-> version, goods |-> r.goods]]]
  IN  /\ r.pc \in {"save", "late"}
      /\ IF id = NoTicket
           THEN \E t \in Tickets :
                  /\ ticket[t].status = "none"
                  /\ ticket' = [ticket EXCEPT ![t] =
                       [NewTicket EXCEPT !.status = "draft", !.basket = r.basket,
                                         !.goods = r.goods, !.version = 1]]
                  /\ Saved(t, 1)
         ELSE IF ticket[id].status = "draft" /\ ticket[id].version = r.draft.version
           THEN /\ ticket' = [ticket EXCEPT ![id].basket = r.basket, ![id].goods = r.goods,
                                            ![id].version = @ + 1]
                /\ Saved(id, r.draft.version + 1)
         ELSE Abandon(v) /\ UNCHANGED ticket
      /\ UNCHANGED <<screen, posting, overlapped>>

\* reviewSale
CheckDraft(v) ==
  LET d == reviewing[v].draft
  IN  /\ reviewing[v].pc = "check"
      /\ IF ticket[d.id].status = "draft" /\ ticket[d.id].version = d.version
           THEN reviewing' = [reviewing EXCEPT ![v].pc = "done"]
           ELSE Abandon(v)
      /\ UNCHANGED <<ticket, screen, posting, overlapped>>

\* Fault: the page forgets which draft it saved.
ShowReviewOnly(v) ==
  /\ reviewing[v].pc = "done" /\ screen.reviewed < MaxReviewed
  /\ screen' = [screen EXCEPT !.review = reviewing[v].draft, !.reviewed = @ + 1,
                              !.key = screen.reviewed + 1, !.overlay = "review"]
  /\ Abandon(v)
  /\ UNCHANGED <<ticket, posting, overlapped>>

\* onSuccess: whatever the page shows by now.
ShowReview(v) ==
  /\ reviewing[v].pc = "done" /\ screen.reviewed < MaxReviewed
  /\ screen' = [screen EXCEPT !.draft = reviewing[v].draft, !.review = reviewing[v].draft,
                              !.key = screen.reviewed + 1, !.reviewed = @ + 1,
                              !.overlay = "review"]
  /\ Abandon(v)
  /\ UNCHANGED <<ticket, posting, overlapped>>

\* The call times out or fails; the server may not have saved the draft yet.
GiveUpReview(v) ==
  /\ v \in UnderWay
  /\ reviewing' = [reviewing EXCEPT ![v] =
       IF reviewing[v].pc = "save" THEN [@ EXCEPT !.pc = "late"] ELSE NoReview]
  /\ UNCHANGED <<ticket, screen, posting, overlapped>>

LoseReview(v) ==
  /\ reviewing[v].pc = "late"
  /\ Abandon(v)
  /\ UNCHANGED <<ticket, screen, posting, overlapped>>

-----------------------------------------------------------------------------
(* Posting.                                                                 *)

\* "Confirm & post", and the retry after an error.
Confirm(p) ==
  /\ screen.overlay = "review" /\ screen.review # NoDraft /\ screen.key # 0
  /\ \A q \in Postings : ~posting[q].waited
  /\ posting[p] = NoPosting
  /\ posting' = [posting EXCEPT ![p] =
       [NoPosting EXCEPT !.pc = "sent", !.waited = TRUE, !.of = screen.review,
                         !.key = screen.key]]
  /\ UNCHANGED <<ticket, screen, reviewing, overlapped>>

\* Fault: the version the review showed is not compared.
PostableAsIs(of) == ticket[of.id].status = "draft"

Postable(of) == ticket[of.id].status = "draft" /\ ticket[of.id].version = of.version

\* post: the sale is posted, was posted under this key, or cannot be.
ServePosting(p) ==
  LET r == posting[p]
      t == r.of.id
      replay == ticket[t].status = "posted" /\ ticket[t].key = r.key
      Answer(answer) == posting' = [posting EXCEPT ![p].pc = "answered", ![p].answer = answer]
  IN  /\ r.pc = "sent"
      /\ \/ /\ Postable(r.of)
            /\ ticket' = [ticket EXCEPT ![t].status = "posted", ![t].key = r.key,
                                        ![t].agreed = r.of.goods, ![t].version = @ + 1]
            /\ Answer("posted")
         \/ replay /\ Answer("posted") /\ UNCHANGED ticket
         \/ ~replay /\ Answer("refused") /\ UNCHANGED ticket
      /\ UNCHANGED <<screen, reviewing, overlapped>>

ReceivePosting(p) ==
  /\ posting[p].waited /\ posting[p].pc = "answered"
  /\ screen' = IF posting[p].answer = "posted"
                 THEN [screen EXCEPT !.cart = NoGoods, !.draft = NoDraft, !.review = NoDraft,
                                     !.overlay = "receipt"]
                 ELSE screen
  /\ posting' = [posting EXCEPT ![p] = NoPosting]
  /\ UNCHANGED <<ticket, reviewing, overlapped>>

\* The page gives up; the request may still be served, or be lost.
GiveUpPosting(p) ==
  /\ posting[p].waited
  /\ posting' = [posting EXCEPT ![p] =
       IF posting[p].pc = "sent" THEN [@ EXCEPT !.waited = FALSE] ELSE NoPosting]
  /\ UNCHANGED <<ticket, screen, reviewing, overlapped>>

LosePosting(p) ==
  /\ posting[p].pc # "idle" /\ ~posting[p].waited
  /\ posting' = [posting EXCEPT ![p] = NoPosting]
  /\ UNCHANGED <<ticket, screen, reviewing, overlapped>>

CounterNext ==
  \/ \E g \in Goods \cup {NoGoods} : ChangeCart(g)
  \/ CloseOverlay
  \/ \E v \in Reviews :
       BeginReview(v) \/ SaveDraft(v) \/ CheckDraft(v) \/ ShowReview(v)
       \/ GiveUpReview(v) \/ LoseReview(v)
  \/ \E p \in Postings :
       Confirm(p) \/ ServePosting(p) \/ ReceivePosting(p) \/ GiveUpPosting(p) \/ LosePosting(p)

CounterSpec == CounterInit /\ [][CounterNext]_counterVars

-----------------------------------------------------------------------------
(* Properties.                                                              *)

PostedOf(b) == {t \in Tickets : ticket[t].status = "posted" /\ ticket[t].basket = b}

\* What was posted is what the confirmed review showed, whatever other reviews,
\* changes of the basket and lost answers came between.
PostedAsReviewed ==
  \A t \in Tickets : ticket[t].status = "posted" => ticket[t].goods = ticket[t].agreed

\* "an uncertain network response cannot create a duplicate sale": a basket whose
\* reviews do not overlap is sold once, though answers are lost, reviews and
\* postings repeated and the basket changed between them.
BasketSoldOnce ==
  \A b \in (1..MaxBaskets) \ overlapped : Cardinality(PostedOf(b)) <= 1
=============================================================================
