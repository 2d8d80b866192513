---------------------------- MODULE ServiceProofs ----------------------------
(***************************************************************************)
(* Proofs about three services: the category tree stays acyclic, customer    *)
(* demand is counted once and rests when closed, and the login limits neither *)
(* overstay nor end a block early.  The three share no state.                *)
(***************************************************************************)
EXTENDS CategoryTree, Demand, LoginLimits, TLAPS, FiniteSetTheorems


-----------------------------------------------------------------------------
(* The category tree: CategoryTree.                                         *)

\* A category that is not there yet has no parent and is nobody's.
AbsentIsAlone ==
  \A c \in Categories : ~about[c].exists =>
    parent[c] = Root /\ \A d \in Categories : parent[d] # c

\* What an editor moves, and where to, is there.
EditExists(w) ==
  edit[w].pc # "idle" =>
    /\ edit[w].category \in Categories /\ about[edit[w].category].exists
    /\ edit[w].parent # Root =>
         edit[w].parent \in Categories /\ about[edit[w].parent].exists

\* Whoever has walked a new parent's ancestors holds the lock, so what the walk
\* found is still true.
WalkIsCurrent(w) ==
  edit[w].pc = "walked" /\ edit[w].parent # Root =>
    treeLock = w /\ Avoids(edit[w].parent, edit[w].category)

\* The inductive invariant: what is known while a move is under way.
TreeInv ==
  /\ CategoryTypeOK
  /\ TreeIsAcyclic
  /\ AbsentIsAlone
  /\ \A w \in Editors : EditExists(w) /\ WalkIsCurrent(w)

-----------------------------------------------------------------------------
(* The tree itself.                                                         *)

\* A new category that nothing hangs from closes no cycle.
LEMMA NewLeafKeepsAcyclic ==
  ASSUME NEW c \in Categories, NEW p \in Categories \cup {Root}, p # c,
         parent \in [Categories -> Categories \cup {Root}], TreeIsAcyclic,
         \A d \in Categories : parent[d] # c,
         parent' = [parent EXCEPT ![c] = p]
  PROVE  TreeIsAcyclic'
<1>1. SUFFICES ASSUME NEW S \in SUBSET Categories, S # {}
               PROVE  \E d \in S : parent'[d] \notin S
  BY DEF TreeIsAcyclic
<1>2. CASE c \notin S
  BY <1>1, <1>2 DEF TreeIsAcyclic
<1>3. CASE S = {c}
  BY <1>3
<1>4. CASE c \in S /\ S # {c}
  <2>1. PICK d \in S \ {c} : parent[d] \notin S \ {c}
    <3>1. S \ {c} \in SUBSET Categories /\ S \ {c} # {}
      BY <1>1, <1>4
    <3> QED BY <3>1 DEF TreeIsAcyclic
  <2>2. parent[d] \notin S /\ parent'[d] = parent[d]
    BY <2>1, <1>1
  <2> QED BY <2>1, <2>2
<1> QED BY <1>2, <1>3, <1>4

\* A move below a category whose ancestors avoid the one moved closes no cycle:
\* a set closed under parents would meet the ancestors in a smaller one.
LEMMA MoveKeepsAcyclic ==
  ASSUME NEW c \in Categories, NEW p \in Categories \cup {Root},
         parent \in [Categories -> Categories \cup {Root}], TreeIsAcyclic,
         p = Root \/ Avoids(p, c),
         parent' = [parent EXCEPT ![c] = p]
  PROVE  TreeIsAcyclic'
<1>1. SUFFICES ASSUME NEW S \in SUBSET Categories, S # {}
               PROVE  \E d \in S : parent'[d] \notin S
  BY DEF TreeIsAcyclic
<1>2. CASE c \notin S
  BY <1>1, <1>2 DEF TreeIsAcyclic
<1>3. CASE c \in S /\ p \notin S
  BY <1>3
<1>4. CASE c \in S /\ p \in S
  <2>1. p # Root
    BY <1>1, <1>4, CategoryAssumption DEF CategoryAssumption
  <2>2. PICK A \in SUBSET (Categories \ {c}) : Covers(A, p)
    BY <2>1 DEF Avoids
  <2>3. p \in S \cap A
    BY <1>4, <2>1, <2>2 DEF Covers
  <2>4. PICK d \in S \cap A : parent[d] \notin S \cap A
    BY <2>3, <1>1 DEF TreeIsAcyclic
  <2>5. parent[d] \notin S
    <3>1. parent[d] \in A \cup {Root}
      BY <2>2, <2>4 DEF Covers
    <3> QED BY <3>1, <2>4, <1>1, CategoryAssumption DEF CategoryAssumption
  <2>6. d \in Categories /\ d # c
    BY <2>2, <2>4
  <2>7. parent'[d] = parent[d]
    BY <2>6
  <2> QED BY <2>4, <2>5, <2>7
<1> QED BY <1>2, <1>3, <1>4

\* Taking a category to the root leaves every walk that was done true.
LEMMA RootKeepsWalks ==
  ASSUME NEW c \in Categories, NEW q, NEW x,
         parent \in [Categories -> Categories \cup {Root}], Avoids(q, x),
         parent' = [parent EXCEPT ![c] = Root]
  PROVE  Avoids(q, x)'
<1>1. PICK A \in SUBSET (Categories \ {x}) : Covers(A, q)
  BY DEF Avoids
<1>2. Covers(A, q)'
  BY <1>1 DEF Covers
<1> QED BY <1>1, <1>2 DEF Avoids

\* So does a new category.
LEMMA NewLeafKeepsWalks ==
  ASSUME NEW c \in Categories, NEW p, NEW q, NEW x, q # c,
         parent \in [Categories -> Categories \cup {Root}], Avoids(q, x),
         \A d \in Categories : parent[d] # c,
         parent' = [parent EXCEPT ![c] = p]
  PROVE  Avoids(q, x)'
<1>1. PICK A \in SUBSET (Categories \ {x}) : Covers(A, q)
  BY DEF Avoids
<1>2. Covers(A \ {c}, q)'
  BY <1>1 DEF Covers
<1>3. A \ {c} \in SUBSET (Categories \ {x})
  BY <1>1
<1> QED BY <1>2, <1>3 DEF Avoids

-----------------------------------------------------------------------------
(* The invariant is inductive.                                              *)

LEMMA TreeInitInv == TreeInit => TreeInv
<1> SUFFICES ASSUME TreeInit PROVE TreeInv
  OBVIOUS
<1>1. CategoryTypeOK
  BY DEF TreeInit, CategoryTypeOK, NoEdit
<1>2. TreeIsAcyclic
  BY CategoryAssumption DEF TreeInit, TreeIsAcyclic, CategoryAssumption
<1>3. AbsentIsAlone
  BY CategoryAssumption DEF TreeInit, AbsentIsAlone, CategoryAssumption
<1>4. ASSUME NEW w \in Editors PROVE EditExists(w) /\ WalkIsCurrent(w)
  BY DEF TreeInit, EditExists, WalkIsCurrent, NoEdit
<1> QED BY <1>1, <1>2, <1>3, <1>4 DEF TreeInv

LEMMA CreateKeepsInv ==
  ASSUME TreeInv, NEW c \in Categories, NEW p \in Categories \cup {Root},
         CreateCategory(c, p)
  PROVE  TreeInv'
<1> USE DEF TreeInv, CreateCategory
<1>1. CategoryTypeOK'
  BY DEF CategoryTypeOK
<1>2. \A d \in Categories : parent[d] # c
  BY DEF AbsentIsAlone
<1>3. TreeIsAcyclic'
  BY <1>2, NewLeafKeepsAcyclic DEF CategoryTypeOK
<1>4. AbsentIsAlone'
  BY CategoryAssumption DEF AbsentIsAlone, CategoryTypeOK, Selectable, CategoryAssumption
<1>5. ASSUME NEW w \in Editors PROVE (EditExists(w) /\ WalkIsCurrent(w))'
  <2>1. EditExists(w)'
    BY DEF EditExists, CategoryTypeOK
  <2>2. WalkIsCurrent(w)'
    <3> SUFFICES ASSUME NEW q, NEW x, q = edit[w].parent, x = edit[w].category,
                        edit[w].pc = "walked", q # Root
                 PROVE  treeLock = w /\ Avoids(q, x)'
      BY DEF WalkIsCurrent, Avoids, Covers
    <3>1. q # c
      BY DEF EditExists
    <3>2. treeLock = w /\ Avoids(q, x)
      BY DEF WalkIsCurrent
    <3>3. parent \in [Categories -> Categories \cup {Root}]
      BY DEF CategoryTypeOK
    <3> QED BY <1>2, <3>1, <3>2, <3>3, NewLeafKeepsWalks
  <2> QED BY <2>1, <2>2
<1> QED BY <1>1, <1>3, <1>4, <1>5

LEMMA CommitKeepsInv ==
  ASSUME TreeInv, NEW w \in Editors, CommitMove(w)
  PROVE  TreeInv'
<1> DEFINE c == edit[w].category
           p == edit[w].parent
<1> USE DEF TreeInv, CommitMove, GiveUpEdit
<1>1. c \in Categories /\ p \in Categories \cup {Root} /\ parent' = [parent EXCEPT ![c] = p]
  BY DEF CategoryTypeOK, EditExists
<1>2. CategoryTypeOK'
  BY <1>1 DEF CategoryTypeOK, NoEdit
<1>3. TreeIsAcyclic'
  <2>1. p = Root \/ Avoids(p, c)
    BY DEF WalkIsCurrent
  <2> HIDE DEF c, p
  <2> QED BY <1>1, <2>1, MoveKeepsAcyclic DEF CategoryTypeOK
<1>4. \A d \in Categories : about'[d].exists = about[d].exists
  BY <1>1 DEF CategoryTypeOK
<1>5. AbsentIsAlone'
  <2>1. about[c].exists /\ (p # Root => about[p].exists)
    BY DEF EditExists
  <2> QED BY <1>1, <1>4, <2>1, CategoryAssumption
          DEF AbsentIsAlone, CategoryTypeOK, CategoryAssumption
<1>6. ASSUME NEW v \in Editors PROVE (EditExists(v) /\ WalkIsCurrent(v))'
  <2>1. EditExists(v)'
    BY <1>4 DEF EditExists, CategoryTypeOK, NoEdit
  <2>2. WalkIsCurrent(v)'
    <3> SUFFICES ASSUME NEW q, NEW x, q = edit'[v].parent, x = edit'[v].category,
                        edit'[v].pc = "walked", q # Root
                 PROVE  treeLock' = v /\ Avoids(q, x)'
      BY DEF WalkIsCurrent, Avoids, Covers
    <3>1. v # w /\ edit'[v] = edit[v]
      BY DEF CategoryTypeOK, NoEdit
    <3>2. treeLock = v /\ Avoids(q, x)
      BY <3>1 DEF WalkIsCurrent
    <3>3. p = Root
      BY <3>1, <3>2 DEF WalkIsCurrent
    <3>4. parent \in [Categories -> Categories \cup {Root}]
      BY DEF CategoryTypeOK
    <3> QED BY <1>1, <3>1, <3>2, <3>3, <3>4, RootKeepsWalks
  <2> QED BY <2>1, <2>2
<1> QED BY <1>2, <1>3, <1>5, <1>6

\* A step that moves nothing, removes nothing and releases no lock, and whose
\* editor ends up with a move that is as well known as it has to be.
LEMMA EditKeepsInv ==
  ASSUME TreeInv, NEW w \in Editors, UNCHANGED parent, CategoryTypeOK',
         \A c \in Categories : about'[c].exists = about[c].exists,
         treeLock' # treeLock => treeLock = Unlocked,
         \A v \in Editors \ {w} : edit'[v] = edit[v],
         EditExists(w)', WalkIsCurrent(w)'
  PROVE  TreeInv'
<1> USE DEF TreeInv
<1>1. TreeIsAcyclic' /\ AbsentIsAlone'
  BY DEF TreeIsAcyclic, AbsentIsAlone
<1>2. ASSUME NEW v \in Editors \ {w} PROVE (EditExists(v) /\ WalkIsCurrent(v))'
  <2>1. EditExists(v)'
    BY DEF EditExists, CategoryTypeOK
  <2>2. WalkIsCurrent(v)'
    BY CategoryAssumption DEF WalkIsCurrent, Avoids, Covers, CategoryAssumption
  <2> QED BY <2>1, <2>2
<1> QED BY <1>1, <1>2

LEMMA CheckKeepsInv ==
  ASSUME TreeInv, NEW w \in Editors, NEW c \in Categories, NEW p \in Categories \cup {Root},
         NEW version \in 1..MaxTreeVersion, CheckMove(w, c, p, version)
  PROVE  TreeInv'
<1> USE DEF TreeInv, CheckMove
<1>1. CategoryTypeOK'
  BY CategoryAssumption DEF CategoryTypeOK, CategoryAssumption
<1>2. EditExists(w)' /\ WalkIsCurrent(w)'
  BY DEF EditExists, WalkIsCurrent, Selectable, CategoryTypeOK
<1> QED BY <1>1, <1>2, EditKeepsInv DEF CategoryTypeOK

LEMMA LockKeepsInv ==
  ASSUME TreeInv, NEW w \in Editors, LockCategory(w)
  PROVE  TreeInv'
<1> USE DEF TreeInv, LockCategory, GiveUpEdit
<1>1. CategoryTypeOK'
  BY DEF CategoryTypeOK, NoEdit
<1>2. EditExists(w)' /\ WalkIsCurrent(w)'
  BY DEF EditExists, WalkIsCurrent, CategoryTypeOK, NoEdit
<1> QED BY <1>1, <1>2, EditKeepsInv DEF CategoryTypeOK

LEMMA WalkKeepsInv ==
  ASSUME TreeInv, NEW w \in Editors, WalkLocked(w)
  PROVE  TreeInv'
<1> USE DEF TreeInv, WalkLocked, GiveUpEdit
<1>1. CategoryTypeOK'
  BY DEF CategoryTypeOK, NoEdit
<1>2. EditExists(w)'
  BY DEF EditExists, CategoryTypeOK, NoEdit
<1>3. WalkIsCurrent(w)'
  BY DEF WalkIsCurrent, CategoryTypeOK, NoEdit, Avoids, Covers
<1> QED BY <1>1, <1>2, <1>3, EditKeepsInv DEF CategoryTypeOK

LEMMA SetActiveKeepsInv ==
  ASSUME TreeInv, NEW c \in Categories, NEW active \in BOOLEAN, SetActive(c, active)
  PROVE  TreeInv'
<1> USE DEF TreeInv, SetActive
<1>1. CategoryTypeOK'
  BY DEF CategoryTypeOK
<1>2. \A d \in Categories : about'[d].exists = about[d].exists
  BY DEF CategoryTypeOK
<1>3. TreeIsAcyclic' /\ AbsentIsAlone'
  BY <1>2 DEF TreeIsAcyclic, AbsentIsAlone
<1>4. ASSUME NEW w \in Editors PROVE (EditExists(w) /\ WalkIsCurrent(w))'
  BY <1>2 DEF EditExists, WalkIsCurrent, Avoids, Covers, CategoryTypeOK
<1> QED BY <1>1, <1>3, <1>4

LEMMA TreeStepInv == TreeInv /\ [TreeNext]_treeVars => TreeInv'
<1> SUFFICES ASSUME TreeInv, [TreeNext]_treeVars PROVE TreeInv'
  OBVIOUS
<1>1. CASE \E c \in Categories, p \in Categories \cup {Root} : CreateCategory(c, p)
  BY <1>1, CreateKeepsInv
<1>2. CASE \E w \in Editors, c \in Categories, p \in Categories \cup {Root},
             version \in 1..MaxTreeVersion : CheckMove(w, c, p, version)
  BY <1>2, CheckKeepsInv
<1>3. CASE \E w \in Editors : LockCategory(w)
  BY <1>3, LockKeepsInv
<1>4. CASE \E w \in Editors : WalkLocked(w)
  BY <1>4, WalkKeepsInv
<1>5. CASE \E w \in Editors : CommitMove(w)
  BY <1>5, CommitKeepsInv
<1>6. CASE \E c \in Categories, active \in BOOLEAN :
             about[c].version <= MaxTreeVersion /\ SetActive(c, active)
  BY <1>6, SetActiveKeepsInv
<1>7. CASE UNCHANGED treeVars
  BY <1>7 DEF treeVars, TreeInv, CategoryTypeOK, TreeIsAcyclic, AbsentIsAlone, EditExists,
              WalkIsCurrent, Avoids, Covers
<1> QED BY <1>1, <1>2, <1>3, <1>4, <1>5, <1>6, <1>7 DEF TreeNext

-----------------------------------------------------------------------------
(* The theorems.                                                            *)

\* The inductive invariant holds, for any categories, editors and bound.
THEOREM TreeInvariant == TreeSpec => []TreeInv
<1>1. TreeInit => TreeInv
  BY TreeInitInv
<1>2. TreeInv /\ [TreeNext]_treeVars => TreeInv'
  BY TreeStepInv
<1> QED BY <1>1, <1>2, PTL DEF TreeSpec

\* Rows and edits stay well typed.
THEOREM CategoryTypes == TreeSpec => []CategoryTypeOK
<1>1. TreeInv => CategoryTypeOK
  BY DEF TreeInv
<1> QED BY <1>1, TreeInvariant, PTL

\* No category is ever its own ancestor, however many moves are checked and
\* committed at the same time: the trigger's lock is enough.
THEOREM TreeStaysAcyclic == TreeSpec => []TreeIsAcyclic
<1>1. TreeInv => TreeIsAcyclic
  BY DEF TreeInv
<1> QED BY <1>1, TreeInvariant, PTL

-----------------------------------------------------------------------------
(* Customer demand: Demand.                                                 *)

AskType ==
  [status: AskStatuses \cup {"none"}, outcome: DemandOutcomes \cup {"sold_immediately"},
   captured: Customers \cup {NoCustomer}, customer: Customers \cup {NoCustomer},
   relabelled: BOOLEAN, missed: BOOLEAN, group: Asks \cup {NoAsk},
   sale: ServedBy \cup {NoSale}, version: Nat]
TaskType ==
  [kind: {"none", "capture", "change"}, ask: Asks \cup {NoAsk}, row: AskType, version: Nat]

DemandTypes ==
  /\ ask \in [Asks -> AskType]
  /\ captureLock \in [Customers -> DemandStaff \cup {NoAsk}]
  /\ task \in [DemandStaff -> TaskType]

\* A request that was not relabelled is the first customer's, and valid.
LabelOK(r) ==
  ~r.relabelled => r.customer = r.captured /\ r.outcome # "invalid_or_fraudulent"

RowInOrder(a) ==
  IF ask[a].status = "none" THEN ask[a] = NoDemand ELSE ask[a].version # 0 /\ LabelOK(ask[a])

\* What an update makes of a row.
Changed(old, r) ==
  /\ r.version = old.version + 1 /\ r.status # "none" /\ LabelOK(r)
  /\ r.captured = old.captured /\ r.missed = old.missed /\ r.group = old.group
  /\ old.relabelled => r.relabelled
  /\ old.status # "converted_to_sale"
  /\ old.status = "closed" => r.status = "converted_to_sale"

Countable(a)  == Counts(a) /\ ~ask[a].relabelled
NoneCounted(c) == \A a \in Asks : ask[a].captured = c => ~Countable(a)

\* A capture in progress is the only one of its request, holds its customer's
\* lock if something is missing, and founds a group only if there is none.
CaptureOK(w) ==
  LET t == task[w]
      c == t.row.captured
  IN  /\ t.ask \in Asks /\ ask[t.ask].status = "none" /\ t.version = 0
      /\ \A v \in DemandStaff : task[v].ask = t.ask => v = w
      /\ t.row.status = "new" /\ t.row.version = 1 /\ LabelOK(t.row) /\ c \in Customers
      /\ t.row.missed => /\ captureLock[c] = w
                         /\ t.row.group = NoAsk => NoneCounted(c)

\* An update in progress starts from the row as it is, or is out of date.
ChangeOK(w) ==
  LET t == task[w]
  IN  /\ t.ask \in Asks /\ t.version # 0 /\ t.version <= ask[t.ask].version
      /\ t.version = ask[t.ask].version => Changed(ask[t.ask], t.row)

TaskOK(w) ==
  /\ task[w].kind = "none" => task[w] = NoTask
  /\ task[w].kind = "capture" => CaptureOK(w)
  /\ task[w].kind = "change" => ChangeOK(w)

DemandInv ==
  /\ DemandTypes
  /\ \A a \in Asks : RowInOrder(a)
  /\ \A w \in DemandStaff : TaskOK(w)
  /\ RepeatsCountOnce

\* What an update in preparation makes of a row.
Bumped(r) == [r EXCEPT !.version = @ + 1]

\* A row that was filled in: it has a version.
LEMMA FilledRow ==
  ASSUME DemandInv, NEW a \in Asks
  PROVE  /\ ask[a] \in AskType
         /\ ask[a].status = "none" => ask[a] = NoDemand /\ ask[a].version = 0
         /\ ask[a].status # "none" => ask[a].version # 0 /\ LabelOK(ask[a])
<1>1. ask[a] \in AskType /\ RowInOrder(a)
  BY DEF DemandInv, DemandTypes
<1> QED
  BY <1>1 DEF RowInOrder, NoDemand

\* A request that is not there and an idle task are of their types.
LEMMA BlankTyped == NoDemand \in AskType /\ NoTask \in TaskType
<1>1. "none" \in AskStatuses \cup {"none"} /\ "unknown" \in DemandOutcomes
  BY DEF DemandOutcomes
<1>2. NoDemand \in AskType
  BY <1>1 DEF NoDemand, AskType
<1> QED
  BY <1>2 DEF NoTask, TaskType

\* A row with its version counted up keeps its other fields.
LEMMA BumpedRow ==
  ASSUME NEW r \in AskType
  PROVE  /\ Bumped(r) \in AskType
         /\ Bumped(r).status = r.status /\ Bumped(r).outcome = r.outcome
         /\ Bumped(r).captured = r.captured /\ Bumped(r).customer = r.customer
         /\ Bumped(r).relabelled = r.relabelled /\ Bumped(r).missed = r.missed
         /\ Bumped(r).group = r.group /\ Bumped(r).sale = r.sale
         /\ Bumped(r).version = r.version + 1
  BY DEF Bumped, AskType

\* A step that fills in one member of staff's task leaves the types in order.
LEMMA TaskFilled ==
  ASSUME DemandTypes, NEW w \in DemandStaff, NEW t \in TaskType,
         task' = [task EXCEPT ![w] = t], ask' = ask,
         captureLock' \in [Customers -> DemandStaff \cup {NoAsk}]
  PROVE  /\ DemandTypes' /\ task'[w] = t
         /\ \A v \in DemandStaff : v # w => task'[v] = task[v]
  BY DEF DemandTypes

\* Beginning to change a request keeps the invariant.
LEMMA PrepareStep ==
  ASSUME DemandInv, NEW w \in DemandStaff, NEW a \in Asks, NEW row \in AskType,
         Prepare(w, a, row), Changed(ask[a], Bumped(row))
  PROVE  DemandInv'
<1> DEFINE t == [kind |-> "change", ask |-> a, version |-> ask[a].version, row |-> Bumped(row)]
<1>1. /\ task[w] = NoTask /\ task' = [task EXCEPT ![w] = t]
      /\ ask' = ask /\ captureLock' = captureLock /\ ask[a].version \in 1..MaxAskVersion
  BY DEF Prepare, Bumped
<1>2. DemandTypes /\ ask[a] \in AskType /\ ask[a].version \in Nat
  BY FilledRow DEF DemandInv, AskType
<1>3. t \in TaskType
  BY <1>2, BumpedRow DEF TaskType
<1>4. /\ t.kind = "change" /\ t.ask = a /\ t.version = ask[a].version /\ t.row = Bumped(row)
  OBVIOUS
<1> HIDE DEF t
<1>5. /\ DemandTypes' /\ task'[w] = t
      /\ \A v \in DemandStaff : v # w => task'[v] = task[v]
  BY <1>1, <1>2, <1>3, TaskFilled DEF DemandTypes
<1>6. \A b \in Asks : RowInOrder(b)' 
  BY <1>1 DEF DemandInv, RowInOrder, LabelOK
<1>7. RepeatsCountOnce'
  BY <1>1 DEF DemandInv, RepeatsCountOnce, Counts, Qualified
<1>8. ChangeOK(w)'
  <2>1. ask[a].version # 0 /\ MaxAskVersion \in Nat
    BY <1>1, <1>2, DemandAssumption
  <2> QED
    BY <2>1, <1>1, <1>2, <1>4, <1>5 DEF ChangeOK
<1>9. ASSUME NEW v \in DemandStaff PROVE TaskOK(v)'
  <2>1. CASE v = w
    BY <2>1, <1>4, <1>5, <1>8 DEF TaskOK
  <2>2. CASE v # w
    <3>1. TaskOK(v) /\ task'[v] = task[v]
      BY <2>2, <1>5 DEF DemandInv
    <3>2. ASSUME CaptureOK(v) PROVE CaptureOK(v)'
      <4>1. task[v].ask \in Asks /\ ask[task[v].ask].status = "none"
        BY <3>2 DEF CaptureOK
      <4>2. task[v].ask # a
        BY <4>1, <1>1, <1>2, FilledRow, DemandAssumption
      <4>3. \A u \in DemandStaff : task'[u].ask = task'[v].ask => u = v
        BY <3>1, <3>2, <4>2, <1>4, <1>5 DEF CaptureOK
      <4> QED
        BY <3>1, <3>2, <4>3, <1>1
        DEF CaptureOK, LabelOK, NoneCounted, Countable, Counts, Qualified
    <3>3. ASSUME ChangeOK(v) PROVE ChangeOK(v)'
      BY <3>1, <3>3, <1>1 DEF ChangeOK, Changed, LabelOK
    <3> QED
      BY <3>1, <3>2, <3>3 DEF TaskOK
  <2> QED
    BY <2>1, <2>2
<1> QED
  BY <1>5, <1>6, <1>7, <1>9 DEF DemandInv

\* Each of the four changes makes of the row what an update may make of it.
LEMMA StartUpdateStep ==
  ASSUME DemandInv, NEW w \in DemandStaff, NEW a \in Asks, NEW c \in Customers,
         StartUpdate(w, a, c)
  PROVE  DemandInv'
<1>1. PICK old \in AskType : old = ask[a]
  BY FilledRow
<1>2. PICK r : r = [old EXCEPT !.customer = c, !.relabelled = @ \/ c # old.customer]
  OBVIOUS
<1>3. /\ old.status \notin {"none", "converted_to_sale", "closed"}
      /\ Prepare(w, a, r)
  BY <1>1, <1>2 DEF StartUpdate
<1>4. /\ r \in AskType /\ r.customer = c /\ (r.relabelled <=> (old.relabelled \/ c # old.customer))
      /\ r.status = old.status /\ r.outcome = old.outcome /\ r.captured = old.captured
      /\ r.missed = old.missed /\ r.group = old.group /\ r.version = old.version
  BY <1>2 DEF AskType
<1>5. LabelOK(old)
  BY <1>1, <1>3, FilledRow
<1>6. Changed(old, Bumped(r))
  BY <1>3, <1>4, <1>5, BumpedRow DEF Changed, LabelOK
<1> QED
  BY <1>1, <1>3, <1>4, <1>6, PrepareStep

\* Beginning to set a status keeps the invariant.
LEMMA StartTransitionStep ==
  ASSUME DemandInv, NEW w \in DemandStaff, NEW a \in Asks, NEW status \in Targets,
         NEW outcome \in Outcomes, StartTransition(w, a, status, outcome)
  PROVE  DemandInv'
<1>1. PICK old \in AskType : old = ask[a]
  BY FilledRow
<1>2. PICK r : r = [old EXCEPT !.status = status, !.outcome = outcome,
                               !.relabelled = @ \/ outcome = "invalid_or_fraudulent"]
  OBVIOUS
<1>3. /\ old.status # "none" /\ status \in MayMoveTo[old.status]
      /\ Prepare(w, a, r)
  BY <1>1, <1>2 DEF StartTransition
<1>4. /\ old.status \notin {"converted_to_sale", "closed"}
      /\ status \in AskStatuses /\ status # "none"
  BY <1>1, <1>3 DEF MayMoveTo, AskStatuses, AskType
<1>5. outcome \in DemandOutcomes
  BY DemandAssumption
<1>6. /\ r \in AskType /\ r.status = status /\ r.outcome = outcome
      /\ (r.relabelled <=> (old.relabelled \/ outcome = "invalid_or_fraudulent"))
      /\ r.customer = old.customer /\ r.captured = old.captured
      /\ r.missed = old.missed /\ r.group = old.group /\ r.version = old.version
  BY <1>2, <1>4, <1>5 DEF AskType
<1>7. LabelOK(old)
  BY <1>1, <1>3, FilledRow
<1>8. Changed(old, Bumped(r))
  BY <1>3, <1>4, <1>6, <1>7, BumpedRow DEF Changed, LabelOK
<1> QED
  BY <1>1, <1>3, <1>6, <1>8, PrepareStep

\* Beginning a follow-up keeps the invariant.
LEMMA StartFollowUpStep ==
  ASSUME DemandInv, NEW w \in DemandStaff, NEW a \in Asks, StartFollowUp(w, a)
  PROVE  DemandInv'
<1>1. PICK old \in AskType : old = ask[a]
  BY FilledRow
<1>2. old.status \notin {"none", "converted_to_sale", "closed"} /\ Prepare(w, a, old)
  BY <1>1 DEF StartFollowUp
<1>3. LabelOK(old)
  BY <1>1, <1>2, FilledRow
<1>4. Changed(old, Bumped(old))
  BY <1>2, <1>3, BumpedRow DEF Changed, LabelOK
<1> QED
  BY <1>1, <1>2, <1>4, PrepareStep

\* Beginning to link a sale keeps the invariant.
LEMMA StartConvertStep ==
  ASSUME DemandInv, NEW w \in DemandStaff, NEW a \in Asks, NEW s \in ServedBy,
         StartConvert(w, a, s)
  PROVE  DemandInv'
<1>1. PICK old \in AskType : old = ask[a]
  BY FilledRow
<1>2. PICK r : r = [old EXCEPT !.status = "converted_to_sale", !.sale = s,
                               !.outcome = "sold_immediately"]
  OBVIOUS
<1>3. old.status \notin {"none", "converted_to_sale"} /\ Prepare(w, a, r)
  BY <1>1, <1>2 DEF StartConvert
<1>4. "converted_to_sale" \in AskStatuses
  BY DEF AskStatuses, MayMoveTo
<1>5. /\ r \in AskType /\ r.status = "converted_to_sale" /\ r.outcome = "sold_immediately"
      /\ r.relabelled = old.relabelled /\ r.customer = old.customer
      /\ r.captured = old.captured /\ r.missed = old.missed /\ r.group = old.group
      /\ r.version = old.version
  BY <1>2, <1>4 DEF AskType
<1>6. LabelOK(old)
  BY <1>1, <1>3, FilledRow
<1>7. Changed(old, Bumped(r))
  BY <1>3, <1>5, <1>6, BumpedRow DEF Changed, LabelOK
<1> QED
  BY <1>1, <1>3, <1>5, <1>7, PrepareStep

\* The row a capture inserts, field by field.
LEMMA CapturedRow ==
  ASSUME NEW c \in Customers, NEW missed \in BOOLEAN, NEW group \in Asks \cup {NoAsk}
  PROVE  LET r == Capture(c, missed, group)
         IN  /\ r \in AskType /\ r.status = "new" /\ r.version = 1 /\ LabelOK(r)
             /\ r.captured = c /\ (r.missed <=> missed) /\ r.group = group
<1>1. PICK old \in AskType : old = NoDemand
  BY BlankTyped
<1>2. PICK r : r = [old EXCEPT !.status = "new",
                      !.outcome = IF missed THEN "unavailable" ELSE "unknown",
                      !.captured = c, !.customer = c, !.missed = missed, !.group = group,
                      !.version = 1]
  OBVIOUS
<1>3. r = Capture(c, missed, group)
  BY <1>1, <1>2 DEF Capture
<1>4. PICK o \in DemandOutcomes : /\ o = IF missed THEN "unavailable" ELSE "unknown"
                                  /\ o # "invalid_or_fraudulent"
  BY DEF DemandOutcomes
<1>5. "new" \in AskStatuses
  BY DEF AskStatuses, MayMoveTo
<1>6. r = [old EXCEPT !.status = "new", !.outcome = o,
                      !.captured = c, !.customer = c, !.missed = missed, !.group = group,
                      !.version = 1]
  BY <1>2, <1>4
<1>7. /\ r \in AskType /\ r.status = "new" /\ r.version = 1 /\ r.outcome = o
      /\ r.captured = c /\ r.customer = c /\ (r.missed <=> missed) /\ r.group = group
  BY <1>5, <1>6 DEF AskType
<1> QED
  BY <1>3, <1>4, <1>7 DEF LabelOK

\* Whoever finds no earlier request of the customer has none that is counted.
LEMMA NoGroupNoneCounted ==
  ASSUME DemandInv, NEW c \in Customers, GroupsOf(c) = {}
  PROVE  NoneCounted(c)
<1>1. ASSUME NEW a \in Asks, ask[a].captured = c, Countable(a) PROVE FALSE
  <2>1. ask[a].status # "none" /\ Qualified(ask[a]) /\ ~ask[a].relabelled
    BY <1>1 DEF Countable, Counts
  <2>2. ask[a].customer = c
    BY <1>1, <2>1, FilledRow DEF LabelOK
  <2>3. a \in {b \in Captured : ask[b].customer = c /\ Qualified(ask[b])}
    BY <2>1, <2>2 DEF Captured
  <2> QED
    BY <2>3 DEF GroupsOf
<1> QED
  BY <1>1 DEF NoneCounted

\* A group is a request.
LEMMA GroupsTyped ==
  ASSUME DemandInv, NEW c \in Customers
  PROVE  GroupsOf(c) \subseteq Asks \cup {NoAsk}
<1>1. \A a \in Asks : ask[a].group \in Asks \cup {NoAsk}
  BY FilledRow DEF AskType
<1> QED
  BY <1>1 DEF GroupsOf, Captured

\* Beginning a capture keeps the invariant.
LEMMA StartCaptureStep ==
  ASSUME DemandInv, NEW w \in DemandStaff, NEW a \in Asks, NEW c \in Customers,
         NEW missed \in BOOLEAN, StartCapture(w, a, c, missed)
  PROVE  DemandInv'
<1>1. PICK group \in (IF missed /\ GroupsOf(c) # {} THEN GroupsOf(c) ELSE {NoAsk}) :
        task' = [task EXCEPT ![w] = [kind |-> "capture", ask |-> a, version |-> 0,
                                     row |-> Capture(c, missed, group)]]
  BY DEF StartCapture
<1>2. group \in Asks \cup {NoAsk} /\ (missed /\ group = NoAsk => GroupsOf(c) = {})
  <2>1. CASE missed /\ GroupsOf(c) # {}
    <3>1. \A b \in Asks : ask[b].group \in Asks \cup {NoAsk}
      BY FilledRow DEF AskType
    <3>2. group \in GroupsOf(c)
      BY <2>1, <1>1
    <3>3. NoAsk \notin GroupsOf(c)
      BY <3>1, DemandAssumption DEF GroupsOf, Captured
    <3> QED
      BY <3>2, <3>3, GroupsTyped
  <2>2. CASE ~(missed /\ GroupsOf(c) # {})
    BY <2>2, <1>1
  <2> QED
    BY <2>1, <2>2
<1>3. PICK r : r = Capture(c, missed, group)
  OBVIOUS
<1>4. /\ r \in AskType /\ r.status = "new" /\ r.version = 1 /\ LabelOK(r)
      /\ r.captured = c /\ (r.missed <=> missed) /\ r.group = group
  BY <1>2, <1>3, CapturedRow
<1> DEFINE t == [kind |-> "capture", ask |-> a, version |-> 0, row |-> r]
<1>5. task' = [task EXCEPT ![w] = t] /\ t \in TaskType
  BY <1>1, <1>3, <1>4 DEF TaskType
<1>6. t.kind = "capture" /\ t.ask = a /\ t.version = 0 /\ t.row = r
  OBVIOUS
<1> HIDE DEF t
<1>7. /\ DemandTypes /\ task[w] = NoTask /\ ask' = ask /\ ask[a].status = "none"
      /\ \A v \in DemandStaff : task[v].ask # a
      /\ IF missed THEN captureLock[c] = NoAsk /\ captureLock' = [captureLock EXCEPT ![c] = w]
         ELSE captureLock' = captureLock
  BY DEF StartCapture, DemandInv
<1>8. captureLock' \in [Customers -> DemandStaff \cup {NoAsk}]
  BY <1>7 DEF DemandTypes
<1>9. /\ DemandTypes' /\ task'[w] = t
      /\ \A v \in DemandStaff : v # w => task'[v] = task[v]
  BY <1>5, <1>7, <1>8, TaskFilled
<1>10. \A b \in Asks : RowInOrder(b)'
  BY <1>7 DEF DemandInv, RowInOrder, LabelOK
<1>11. RepeatsCountOnce' /\ (NoneCounted(c) => NoneCounted(c)')
  BY <1>7 DEF DemandInv, RepeatsCountOnce, Counts, Qualified, NoneCounted, Countable
<1>12. CaptureOK(w)'
  <2>1. \A v \in DemandStaff : task'[v].ask = a => v = w
    BY <1>7, <1>9
  <2>2. missed => captureLock'[c] = w
    BY <1>7 DEF DemandTypes
  <2>3. missed /\ group = NoAsk => NoneCounted(c)'
    BY <1>2, <1>11, NoGroupNoneCounted
  <2>4. LabelOK(r)'
    BY <1>4 DEF LabelOK
  <2> QED
    BY <2>1, <2>2, <2>3, <1>4, <1>6, <1>7, <1>9 DEF CaptureOK, LabelOK, NoneCounted
<1>13. ASSUME NEW v \in DemandStaff PROVE TaskOK(v)'
  <2>1. CASE v = w
    BY <2>1, <1>6, <1>9, <1>12 DEF TaskOK
  <2>2. CASE v # w
    <3>1. TaskOK(v) /\ task'[v] = task[v]
      BY <2>2, <1>9 DEF DemandInv
    <3>2. ASSUME CaptureOK(v) PROVE CaptureOK(v)'
      <4>1. \A u \in DemandStaff : task'[u].ask = task'[v].ask => u = v
        BY <3>1, <3>2, <1>6, <1>7, <1>9 DEF CaptureOK
      <4>2. /\ task[v].row.captured \in Customers
            /\ task[v].row.missed => captureLock[task[v].row.captured] = v
        BY <3>2 DEF CaptureOK
      <4>3. NoAsk # v
        BY DemandAssumption
      <4>4. task[v].row.missed => captureLock'[task[v].row.captured] = v
        BY <4>2, <4>3, <1>7 DEF DemandTypes
      <4> QED
        BY <3>1, <3>2, <4>1, <4>4, <1>7
        DEF CaptureOK, LabelOK, NoneCounted, Countable, Counts, Qualified
    <3>3. ASSUME ChangeOK(v) PROVE ChangeOK(v)'
      BY <3>1, <3>3, <1>7 DEF ChangeOK, Changed, LabelOK
    <3> QED
      BY <3>1, <3>2, <3>3 DEF TaskOK
  <2> QED
    BY <2>1, <2>2
<1> QED
  BY <1>9, <1>10, <1>11, <1>13 DEF DemandInv

\* What ending a task does to the tasks and the locks.
LEMMA FinishFrame ==
  ASSUME DemandInv, NEW w \in DemandStaff, Finish(w)
  PROVE  /\ task[w].kind \in {"capture", "change"} /\ task[w].ask \in Asks
         /\ task[w] \in TaskType /\ task'[w] = NoTask
         /\ \A v \in DemandStaff : v # w => task'[v] = task[v]
         /\ \A c \in Customers : captureLock[c] # w => captureLock'[c] = captureLock[c]
         /\ task' \in [DemandStaff -> TaskType]
         /\ captureLock' \in [Customers -> DemandStaff \cup {NoAsk}]
<1>1. DemandTypes /\ TaskOK(w) /\ task[w] # NoTask
  BY DEF DemandInv, Finish
<1>2. task[w] \in TaskType
  BY <1>1 DEF DemandTypes
<1>3. task[w].kind \in {"capture", "change"}
  BY <1>1, <1>2 DEF TaskOK, TaskType
<1>4. task[w].ask \in Asks
  BY <1>1, <1>3 DEF TaskOK, CaptureOK, ChangeOK
<1>5. task' = [task EXCEPT ![w] = NoTask]
  BY DEF Finish
<1>6. captureLock' = [c \in Customers |-> IF captureLock[c] = w THEN NoAsk ELSE captureLock[c]]
  BY DEF Finish
<1>7. captureLock' \in [Customers -> DemandStaff \cup {NoAsk}]
  BY <1>1, <1>6 DEF DemandTypes
<1>8. /\ task'[w] = NoTask /\ task' \in [DemandStaff -> TaskType]
      /\ \A v \in DemandStaff : v # w => task'[v] = task[v]
  BY <1>1, <1>5, BlankTyped DEF DemandTypes
<1> QED
  BY <1>2, <1>3, <1>4, <1>6, <1>7, <1>8

\* Inserting the captured row keeps the invariant.
LEMMA FinishCapture ==
  ASSUME DemandInv, NEW w \in DemandStaff, Finish(w), task[w].kind = "capture"
  PROVE  DemandInv' /\ ask[task[w].ask].status = "none"
                    /\ \A b \in Asks : b # task[w].ask => ask'[b] = ask[b]
<1>1. PICK t \in TaskType : t = task[w] /\ t.ask \in Asks /\ t.kind = "capture"
  BY FinishFrame
<1>2. PICK a \in Asks : a = t.ask
  BY <1>1
<1>3. PICK r \in AskType : r = t.row
  BY <1>1 DEF TaskType
<1>4. CaptureOK(w)
  BY DEF DemandInv, TaskOK
<1>5. /\ ask[a].status = "none" /\ t.version = 0
      /\ \A v \in DemandStaff : task[v].ask = a => v = w
      /\ r.status = "new" /\ r.version = 1 /\ LabelOK(r) /\ r.captured \in Customers
      /\ r.missed => /\ captureLock[r.captured] = w
                     /\ r.group = NoAsk => NoneCounted(r.captured)
  BY <1>1, <1>2, <1>3, <1>4 DEF CaptureOK
<1>6. ask[a].version = 0
  BY <1>5, FilledRow
<1>7. ask' = [ask EXCEPT ![a] = r]
  BY <1>1, <1>2, <1>3, <1>5, <1>6 DEF Finish, StillCurrent
<1>8. DemandTypes
  BY DEF DemandInv
<1>9. /\ ask'[a] = r /\ ask' \in [Asks -> AskType]
      /\ \A b \in Asks : b # a => ask'[b] = ask[b]
  BY <1>7, <1>8 DEF DemandTypes
<1>10. DemandTypes'
  BY <1>9, FinishFrame DEF DemandTypes
<1>11. ASSUME NEW b \in Asks PROVE RowInOrder(b)'
  <2>1. RowInOrder(b)
    BY DEF DemandInv
  <2> QED
    BY <2>1, <1>5, <1>9 DEF RowInOrder, LabelOK
<1>12. \A b \in Asks : b # a => (Countable(b)' <=> Countable(b))
  BY <1>9 DEF Countable, Counts, Qualified
<1>13. Countable(a)' => r.missed /\ r.group = NoAsk
  BY <1>9 DEF Countable, Counts, Qualified
<1>14. \A b, d \in Asks :
         Countable(b) /\ Countable(d) /\ ask[b].captured = ask[d].captured => b = d
  BY DEF DemandInv, RepeatsCountOnce, Countable
<1>15. ASSUME NEW b \in Asks, NEW d \in Asks, Countable(b)', Countable(d)',
              ask'[b].captured = ask'[d].captured
       PROVE  b = d
  <2>1. CASE b = a /\ d # a
    BY <2>1, <1>5, <1>9, <1>12, <1>13, <1>15 DEF NoneCounted
  <2>2. CASE b # a /\ d = a
    BY <2>2, <1>5, <1>9, <1>12, <1>13, <1>15 DEF NoneCounted
  <2>3. CASE b # a /\ d # a
    BY <2>3, <1>9, <1>12, <1>14, <1>15
  <2> QED
    BY <2>1, <2>2, <2>3
<1>16. RepeatsCountOnce'
  BY <1>15 DEF RepeatsCountOnce, Countable
<1>17. ASSUME NEW v \in DemandStaff PROVE TaskOK(v)'
  <2>1. CASE v = w
    BY <2>1, FinishFrame DEF TaskOK, NoTask
  <2>2. CASE v # w
    <3>1. TaskOK(v) /\ task'[v] = task[v] /\ task[v] \in TaskType
      BY <2>2, <1>8, FinishFrame DEF DemandInv, DemandTypes
    <3>2. task[v].ask # a
      BY <2>2, <1>5
    <3>3. ASSUME CaptureOK(v) PROVE CaptureOK(v)'
      <4>1. PICK c \in Customers : c = task[v].row.captured
        BY <3>3 DEF CaptureOK
      <4>2. \A u \in DemandStaff : task'[u].ask = task'[v].ask => u = v
        <5>1. NoTask.ask = NoAsk /\ task[v].ask \in Asks
          BY <3>3 DEF NoTask, CaptureOK
        <5> QED
          BY <5>1, <3>1, <3>3, FinishFrame, DemandAssumption DEF CaptureOK
      <4>3. task[v].row.missed => captureLock[c] = v
        BY <4>1, <3>3 DEF CaptureOK
      <4>4. task[v].row.missed => captureLock'[c] = v
        BY <4>3, <2>2, FinishFrame
      <4>5. ASSUME task[v].row.missed, NoneCounted(c) PROVE NoneCounted(c)'
        <5>1. Countable(a)' => r.captured # c
          BY <1>5, <1>13, <4>3, <4>5, <2>2
        <5> QED
          BY <5>1, <4>5, <1>9, <1>12 DEF NoneCounted
      <4>6. /\ task[v].ask \in Asks /\ ask'[task[v].ask].status = "none"
            /\ task[v].version = 0 /\ task[v].row.status = "new"
            /\ task[v].row.version = 1 /\ LabelOK(task[v].row)
            /\ task[v].row.missed /\ task[v].row.group = NoAsk => NoneCounted(c)
        BY <3>2, <3>3, <4>1, <1>9 DEF CaptureOK
      <4> QED
        BY <4>1, <4>2, <4>4, <4>5, <4>6, <3>1 DEF CaptureOK, LabelOK, NoneCounted
    <3>4. ASSUME ChangeOK(v) PROVE ChangeOK(v)'
      BY <3>1, <3>2, <3>4, <1>9 DEF ChangeOK, Changed, LabelOK
    <3> QED
      BY <3>1, <3>3, <3>4 DEF TaskOK
  <2> QED
    BY <2>1, <2>2
<1> QED
  BY <1>1, <1>2, <1>5, <1>9, <1>10, <1>11, <1>16, <1>17 DEF DemandInv

\* The guarded update of a request keeps the invariant.
LEMMA FinishChange ==
  ASSUME DemandInv, NEW w \in DemandStaff, Finish(w), task[w].kind = "change"
  PROVE  /\ DemandInv' /\ \A b \in Asks : b # task[w].ask => ask'[b] = ask[b]
         /\ \/ ask' = ask
            \/ ask'[task[w].ask] = task[w].row /\ Changed(ask[task[w].ask], task[w].row)
<1>1. PICK t \in TaskType : t = task[w] /\ t.ask \in Asks /\ t.kind = "change"
  BY FinishFrame
<1>2. PICK a \in Asks : a = t.ask
  BY <1>1
<1>3. PICK r \in AskType : r = t.row
  BY <1>1 DEF TaskType
<1>4. DemandTypes /\ ask[a] \in AskType
  BY FilledRow DEF DemandInv
<1>5. /\ t.version # 0 /\ t.version <= ask[a].version
      /\ t.version = ask[a].version => Changed(ask[a], r)
  BY <1>1, <1>2, <1>3 DEF DemandInv, TaskOK, ChangeOK
<1>6. /\ \A b \in Asks : b # a => ask'[b] = ask[b]
      /\ ask' \in [Asks -> AskType]
      /\ ask' = ask \/ (ask'[a] = r /\ Changed(ask[a], r))
  <2>1. CASE StillCurrent(w)
    <3>1. ask' = [ask EXCEPT ![a] = r] /\ Changed(ask[a], r)
      BY <2>1, <1>1, <1>2, <1>3, <1>5 DEF Finish, StillCurrent
    <3> QED
      BY <3>1, <1>4 DEF DemandTypes
  <2>2. CASE ~StillCurrent(w)
    <3>1. ask' = ask
      BY <2>2 DEF Finish
    <3> QED
      BY <3>1, <1>4 DEF DemandTypes
  <2> QED
    BY <2>1, <2>2
<1>7. DemandTypes'
  BY <1>6, FinishFrame DEF DemandTypes
<1>8. ask[a].status # "none"
  BY <1>4, <1>5, FilledRow DEF TaskType, AskType
<1>9. ASSUME NEW b \in Asks PROVE RowInOrder(b)'
  <2>1. RowInOrder(b)
    BY DEF DemandInv
  <2>2. ask[a].version \in Nat
    BY <1>4 DEF AskType
  <2> QED
    BY <2>1, <2>2, <1>6 DEF RowInOrder, LabelOK, Changed
<1>10. ASSUME NEW b \in Asks, Countable(b)'
       PROVE  Countable(b) /\ ask'[b].captured = ask[b].captured
  <2>1. CASE ask'[b] = ask[b]
    BY <2>1, <1>10 DEF Countable, Counts, Qualified
  <2>2. CASE b = a /\ ask'[a] = r /\ Changed(ask[a], r)
    <3>1. LabelOK(ask[a])
      BY <1>8, FilledRow
    <3> QED
      BY <2>2, <3>1, <1>8, <1>10 DEF Countable, Counts, Qualified, Changed, LabelOK
  <2> QED
    BY <2>1, <2>2, <1>6
<1>11. RepeatsCountOnce'
  <2>1. \A b, d \in Asks :
          Countable(b) /\ Countable(d) /\ ask[b].captured = ask[d].captured => b = d
    BY DEF DemandInv, RepeatsCountOnce, Countable
  <2>2. \A b, d \in Asks :
          Countable(b)' /\ Countable(d)' /\ ask'[b].captured = ask'[d].captured => b = d
    BY <2>1, <1>10
  <2> QED
    BY <2>2 DEF RepeatsCountOnce, Countable
<1>12. ASSUME NEW v \in DemandStaff PROVE TaskOK(v)'
  <2>1. CASE v = w
    BY <2>1, FinishFrame DEF TaskOK, NoTask
  <2>2. CASE v # w
    <3>1. TaskOK(v) /\ task'[v] = task[v] /\ task[v] \in TaskType
      BY <2>2, <1>4, FinishFrame DEF DemandInv, DemandTypes
    <3>2. ASSUME CaptureOK(v) PROVE CaptureOK(v)'
      <4>1. PICK c \in Customers : c = task[v].row.captured
        BY <3>2 DEF CaptureOK
      <4>2. \A u \in DemandStaff : task'[u].ask = task'[v].ask => u = v
        <5>1. NoTask.ask = NoAsk /\ task[v].ask \in Asks
          BY <3>2 DEF NoTask, CaptureOK
        <5> QED
          BY <5>1, <3>1, <3>2, FinishFrame, DemandAssumption DEF CaptureOK
      <4>3. task[v].row.missed => captureLock'[c] = v
        BY <4>1, <3>2, <2>2, FinishFrame DEF CaptureOK
      <4>4. NoneCounted(c) => NoneCounted(c)'
        BY <1>10 DEF NoneCounted
      <4>5. /\ task[v].ask \in Asks /\ ask[task[v].ask].status = "none"
            /\ task[v].version = 0 /\ task[v].row.status = "new"
            /\ task[v].row.version = 1 /\ LabelOK(task[v].row)
            /\ task[v].row.missed /\ task[v].row.group = NoAsk => NoneCounted(c)
        BY <3>2, <4>1 DEF CaptureOK
      <4>6. ask'[task[v].ask].status = "none"
        BY <4>5, <1>6, <1>8
      <4> QED
        BY <4>1, <4>2, <4>3, <4>4, <4>5, <4>6, <3>1 DEF CaptureOK, LabelOK, NoneCounted
    <3>3. ASSUME ChangeOK(v) PROVE ChangeOK(v)'
      <4>1. CASE ask'[task[v].ask] = ask[task[v].ask]
        BY <4>1, <3>1, <3>3 DEF ChangeOK, Changed, LabelOK
      <4>2. CASE task[v].ask = a /\ ask'[a] = r /\ Changed(ask[a], r)
        <5>1. r.version = ask[a].version + 1 /\ ask[a].version \in Nat
          BY <4>2, <1>4 DEF Changed, AskType
        <5>2. task[v].version \in Nat /\ task[v].version <= ask[a].version
                /\ task[v].version # 0
          BY <4>2, <3>1, <3>3 DEF ChangeOK, TaskType
        <5> QED
          BY <4>2, <5>1, <5>2, <3>1 DEF ChangeOK
      <4> QED
        BY <4>1, <4>2, <3>3, <1>6 DEF ChangeOK
    <3> QED
      BY <3>1, <3>2, <3>3 DEF TaskOK
  <2> QED
    BY <2>1, <2>2
<1> QED
  BY <1>1, <1>2, <1>3, <1>6, <1>7, <1>9, <1>11, <1>12 DEF DemandInv

\* The invariant holds at first.
LEMMA DemandInitInv == DemandInit => DemandInv
<1> SUFFICES ASSUME DemandInit PROVE DemandInv
  OBVIOUS
<1>1. DemandTypes
  BY BlankTyped DEF DemandInit, DemandTypes
<1>2. \A a \in Asks : RowInOrder(a)
  BY DEF DemandInit, RowInOrder, NoDemand
<1>3. \A w \in DemandStaff : TaskOK(w)
  BY DEF DemandInit, TaskOK, NoTask
<1>4. RepeatsCountOnce
  BY DEF DemandInit, RepeatsCountOnce, Counts, NoDemand
<1> QED
  BY <1>1, <1>2, <1>3, <1>4 DEF DemandInv

\* Every step keeps the invariant.
LEMMA DemandNextInv == DemandInv /\ [DemandNext]_demandVars => DemandInv'
<1> SUFFICES ASSUME DemandInv, [DemandNext]_demandVars PROVE DemandInv'
  OBVIOUS
<1>1. ASSUME NEW w \in DemandStaff, NEW a \in Asks, NEW c \in Customers, NEW missed \in BOOLEAN,
             StartCapture(w, a, c, missed)
      PROVE  DemandInv'
  BY <1>1, StartCaptureStep
<1>2. ASSUME NEW w \in DemandStaff, NEW a \in Asks, NEW c \in Customers, StartUpdate(w, a, c)
      PROVE  DemandInv'
  BY <1>2, StartUpdateStep
<1>3. ASSUME NEW w \in DemandStaff, NEW a \in Asks, NEW status \in Targets,
             NEW outcome \in Outcomes, StartTransition(w, a, status, outcome)
      PROVE  DemandInv'
  BY <1>3, StartTransitionStep
<1>4. ASSUME NEW w \in DemandStaff, NEW a \in Asks, StartFollowUp(w, a) PROVE DemandInv'
  BY <1>4, StartFollowUpStep
<1>5. ASSUME NEW w \in DemandStaff, NEW a \in Asks, NEW s \in ServedBy, StartConvert(w, a, s)
      PROVE  DemandInv'
  BY <1>5, StartConvertStep
<1>6. ASSUME NEW w \in DemandStaff, Finish(w) PROVE DemandInv'
  BY <1>6, FinishFrame, FinishCapture, FinishChange
<1>7. CASE UNCHANGED demandVars
  BY <1>7 DEF demandVars, DemandInv, DemandTypes, RowInOrder, LabelOK, TaskOK, CaptureOK,
     ChangeOK, Changed, NoneCounted, Countable, Counts, Qualified, RepeatsCountOnce
<1> QED
  BY <1>1, <1>2, <1>3, <1>4, <1>5, <1>6, <1>7 DEF DemandNext

\* The rows, the tasks under way and the locks of captures fit together in every
\* reachable state (demand.service.ts).
THEOREM DemandInvariant == DemandSpec => []DemandInv
<1> QED
  BY DemandInitInv, DemandNextInv, PTL DEF DemandSpec

\* Demand keeps its shape.
THEOREM DemandTyped == DemandSpec => []DemandTypeOK
<1>1. DemandInv => DemandTypeOK
  BY DEF DemandInv, DemandTypes, DemandTypeOK, AskType
<1> QED
  BY <1>1, DemandInvariant, PTL

\* A customer's repeated requests count once towards the buying plan, however
\* captures and changes interleave (findDedupeGroup under its advisory lock).
THEOREM CountedOnce == DemandSpec => []RepeatsCountOnce
<1>1. DemandInv => RepeatsCountOnce
  BY DEF DemandInv
<1> QED
  BY <1>1, DemandInvariant, PTL

\* What a step may do to a closed or converted request.
Rests(a) ==
  /\ ask[a].status = "converted_to_sale" => ask'[a] = ask[a]
  /\ ask[a].status = "closed" => ask'[a].status = "converted_to_sale" \/ ask'[a] = ask[a]

\* Ending a task leaves the closed requests alone.
LEMMA FinishRests ==
  ASSUME DemandInv, NEW w \in DemandStaff, Finish(w), NEW a \in Asks
  PROVE  Rests(a)
<1>1. CASE task[w].kind = "capture"
  BY <1>1, FinishCapture DEF Rests
<1>2. CASE task[w].kind = "change"
  <2>1. CASE ask'[a] = ask[a]
    BY <2>1 DEF Rests
  <2>2. CASE ask'[a] = task[w].row /\ Changed(ask[a], task[w].row)
    BY <2>2 DEF Rests, Changed
  <2> QED
    BY <1>2, <2>1, <2>2, FinishChange
<1> QED
  BY <1>1, <1>2, FinishFrame

\* Closed requests rest: an update begun before the closing is refused by its
\* version (the guarded updates of update, transition, appendFollowUp, convert).
THEOREM ClosedRest == DemandSpec => ClosedRequestsRest
<1>1. ASSUME DemandInv, [DemandNext]_demandVars
      PROVE  [\A a \in Asks : Rests(a)]_demandVars
  <2>1. CASE ask' = ask
    BY <2>1 DEF Rests
  <2>2. CASE \E w \in DemandStaff : Finish(w)
    BY <2>2, <1>1, FinishRests
  <2>3. ask' = ask \/ \E w \in DemandStaff : Finish(w)
    BY <1>1 DEF DemandNext, demandVars, StartCapture, StartUpdate, StartTransition,
       StartFollowUp, StartConvert, Prepare
  <2> QED
    BY <2>1, <2>2, <2>3
<1> QED
  BY <1>1, DemandInvariant, PTL DEF DemandSpec, ClosedRequestsRest, Rests

-----------------------------------------------------------------------------
(* The login limits: LoginLimits.                                           *)

Times == {NotScheduled} \cup 0..Window

\* Only a block counts more attempts than the limit.
CountsOK(entries) == \A n \in Names : ~entries[n].blocked => entries[n].hits <= Limit

\* A store within its capacity, whose clean-up comes in time.
StoreOK(entries, at) ==
  /\ entries \in [Names -> Entry \cup {NoTracker}] /\ at \in Times /\ CountsOK(entries)
  /\ IsFiniteSet(Tracked(entries)) /\ Cardinality(Tracked(entries)) <= MaxTrackers
  /\ \A n \in Tracked(entries) : at # NotScheduled /\ at <= entries[n].left

LimitsInv == StoreOK(trackers, timer)

\* The entry of a name, or none, field by field.
LEMMA EntryFacts ==
  ASSUME NEW entries \in [Names -> Entry \cup {NoTracker}], NEW n \in Names
  PROVE  /\ entries[n].left \in 0..Window /\ entries[n].left \in Nat
         /\ entries[n].blocked \in BOOLEAN
         /\ n \in Live(entries) => n \in Tracked(entries)
         /\ n \in Tracked(entries) => entries[n] \in Entry
<1>1. Window \in Nat /\ 0 \in 0..Window
  BY LimitsAssumption
<1>2. NoTracker.left = 0 /\ NoTracker.blocked = FALSE
  BY DEF NoTracker
<1>3. PICK e : e = entries[n] /\ (e \in Entry \/ e = NoTracker)
  OBVIOUS
<1>4. e.left \in 0..Window /\ e.left \in Nat
  BY <1>1, <1>2, <1>3 DEF Entry
<1>5. e.blocked \in BOOLEAN
  BY <1>2, <1>3 DEF Entry
<1>6. e.left > 0 => e # NoTracker
  BY <1>2
<1> QED
  BY <1>3, <1>4, <1>5, <1>6 DEF Live, Tracked

\* Keeping the entries of some live names only.
LEMMA OnlyTracked ==
  ASSUME NEW entries \in [Names -> Entry \cup {NoTracker}], NEW S \in SUBSET Live(entries)
  PROVE  /\ Only(entries, S) \in [Names -> Entry \cup {NoTracker}]
         /\ Tracked(Only(entries, S)) = S
         /\ \A n \in S : n \in Names /\ Only(entries, S)[n] = entries[n]
<1>1. S \subseteq Names /\ \A n \in S : entries[n] # NoTracker
  BY EntryFacts DEF Live, Tracked
<1> QED
  BY <1>1 DEF Only, Tracked

\* A store has no more live entries than entries.
LEMMA LiveFinite ==
  ASSUME NEW entries \in [Names -> Entry \cup {NoTracker}], IsFiniteSet(Tracked(entries))
  PROVE  /\ IsFiniteSet(Live(entries)) /\ Cardinality(Live(entries)) \in Nat
         /\ Cardinality(Tracked(entries)) \in Nat
         /\ Cardinality(Live(entries)) <= Cardinality(Tracked(entries))
<1>1. Live(entries) \subseteq Tracked(entries)
  BY EntryFacts DEF Live
<1> QED
  BY <1>1, FS_Subset, FS_CardinalityType

\* What a blocked, live entry is in another state of the store.
BlocksKept(old, new) == \A n \in Live(old) : old[n].blocked => new[n] = old[n]

\* The store is full of active blocks.
FullOfBlocks(entries) ==
  /\ Cardinality(Live(entries)) = MaxTrackers
  /\ \A n \in Live(entries) : entries[n].blocked

\* Making room leaves room, and drops a block only from a store full of them.
LEMMA RoomMade ==
  ASSUME NEW entries \in [Names -> Entry \cup {NoTracker}], IsFiniteSet(Tracked(entries)),
         Cardinality(Tracked(entries)) <= MaxTrackers, NEW room \in MakeRoom(entries)
  PROVE  /\ room \in [Names -> Entry \cup {NoTracker}]
         /\ IsFiniteSet(Tracked(room)) /\ Cardinality(Tracked(room)) < MaxTrackers
         /\ \A n \in Tracked(room) : n \in Tracked(entries) /\ room[n] = entries[n]
         /\ BlocksKept(entries, room) \/ FullOfBlocks(entries)
<1> DEFINE live    == Live(entries)
           windows == {n \in live : ~entries[n].blocked}
<1>1. /\ IsFiniteSet(live) /\ Cardinality(live) \in Nat
      /\ Cardinality(Tracked(entries)) \in Nat
      /\ Cardinality(live) <= Cardinality(Tracked(entries)) /\ MaxTrackers \in Nat
  BY LiveFinite, LimitsAssumption
<1>2. \A n \in live : n \in Tracked(entries)
  BY EntryFacts DEF Live
<1>3. ASSUME Cardinality(Tracked(entries)) < MaxTrackers, room = entries
      PROVE  /\ IsFiniteSet(Tracked(room)) /\ Cardinality(Tracked(room)) < MaxTrackers
             /\ \A n \in Tracked(room) : n \in Tracked(entries) /\ room[n] = entries[n]
             /\ BlocksKept(entries, room) /\ room \in [Names -> Entry \cup {NoTracker}]
  BY <1>3 DEF BlocksKept
<1>4. ASSUME Cardinality(live) < MaxTrackers, room = Only(entries, live)
      PROVE  /\ IsFiniteSet(Tracked(room)) /\ Cardinality(Tracked(room)) < MaxTrackers
             /\ \A n \in Tracked(room) : n \in Tracked(entries) /\ room[n] = entries[n]
             /\ BlocksKept(entries, room) /\ room \in [Names -> Entry \cup {NoTracker}]
  <2>1. /\ Tracked(room) = live /\ \A n \in live : room[n] = entries[n]
        /\ room \in [Names -> Entry \cup {NoTracker}]
    BY <1>4, OnlyTracked
  <2> QED
    BY <2>1, <1>1, <1>2, <1>4 DEF BlocksKept
<1>5. ASSUME NEW n \in IF windows # {} THEN FirstToEnd(entries, windows) ELSE live,
             ~(Cardinality(live) < MaxTrackers), room = Only(entries, live \ {n})
      PROVE  /\ IsFiniteSet(Tracked(room)) /\ Cardinality(Tracked(room)) < MaxTrackers
             /\ \A m \in Tracked(room) : m \in Tracked(entries) /\ room[m] = entries[m]
             /\ BlocksKept(entries, room) \/ FullOfBlocks(entries)
             /\ room \in [Names -> Entry \cup {NoTracker}]
  <2>1. n \in live /\ (windows # {} => n \in windows)
    BY <1>5 DEF FirstToEnd
  <2>2. /\ Tracked(room) = live \ {n} /\ \A m \in live \ {n} : room[m] = entries[m]
        /\ room \in [Names -> Entry \cup {NoTracker}]
    BY <1>5, OnlyTracked
  <2>3. /\ IsFiniteSet(live \ {n}) /\ Cardinality(live \ {n}) = Cardinality(live) - 1
    BY <2>1, <1>1, FS_RemoveElement
  <2>4. Cardinality(live) = MaxTrackers
    BY <1>1, <1>5
  <2>5. CASE windows # {}
    <3>1. BlocksKept(entries, room)
      BY <2>1, <2>2, <2>5 DEF BlocksKept
    <3> QED
      BY <3>1, <2>2, <2>3, <2>4, <1>1, <1>2
  <2>6. CASE windows = {}
    <3>1. \A m \in live : entries[m].blocked
      BY <2>6
    <3>2. FullOfBlocks(entries)
      BY <3>1, <2>4 DEF FullOfBlocks
    <3> QED
      BY <3>2, <2>2, <2>3, <2>4, <1>1, <1>2
  <2> QED
    BY <2>5, <2>6
<1>6. \/ Cardinality(Tracked(entries)) < MaxTrackers /\ room = entries
      \/ Cardinality(live) < MaxTrackers /\ room = Only(entries, live)
      \/ /\ ~(Cardinality(live) < MaxTrackers)
         /\ \E n \in IF windows # {} THEN FirstToEnd(entries, windows) ELSE live :
              room = Only(entries, live \ {n})
  BY DEF MakeRoom
<1> QED
  BY <1>3, <1>4, <1>5, <1>6

\* A store of which entries were dropped counts as before.
LEMMA CountsKept ==
  ASSUME NEW old, NEW new, CountsOK(old),
         \A n \in Names : new[n] = old[n] \/ new[n] = NoTracker
  PROVE  CountsOK(new)
<1>1. NoTracker.hits = 0 /\ 0 <= Limit
  BY LimitsAssumption DEF NoTracker
<1> QED
  BY <1>1 DEF CountsOK

\* The clean-up is no later than it was, nor later than the new entry ends.
LEMMA Scheduled ==
  ASSUME NEW at \in Times, NEW left \in 0..Window
  PROVE  /\ Schedule(at, left) \in Times /\ Schedule(at, left) # NotScheduled
         /\ Schedule(at, left) <= left /\ (at # NotScheduled => Schedule(at, left) <= at)
<1>1. Window \in Nat
  BY LimitsAssumption
<1> QED
  BY <1>1 DEF Schedule, Times, NotScheduled

\* A store with one more entry, or an entry that lasts as long as before.
LEMMA EntryPut ==
  ASSUME NEW entries \in [Names -> Entry \cup {NoTracker}], NEW at \in Times,
         IsFiniteSet(Tracked(entries)),
         \A n \in Tracked(entries) : at # NotScheduled /\ at <= entries[n].left,
         CountsOK(entries), NEW name \in Names, NEW e \in Entry,
         ~e.blocked => e.hits <= Limit, NEW new, new = [entries EXCEPT ![name] = e],
         \/ Cardinality(Tracked(entries)) < MaxTrackers
         \/ name \in Tracked(entries) /\ Cardinality(Tracked(entries)) <= MaxTrackers,
         NEW then \in Times, then # NotScheduled, then <= e.left,
         at # NotScheduled => then <= at
  PROVE  StoreOK(new, then)
<1>1. /\ new \in [Names -> Entry \cup {NoTracker}] /\ new[name] = e
      /\ \A n \in Names \ {name} : new[n] = entries[n]
  OBVIOUS
<1>2. e # NoTracker
  BY DEF Entry, NoTracker
<1>3. Tracked(new) = Tracked(entries) \cup {name}
  BY <1>1, <1>2 DEF Tracked
<1>4. /\ IsFiniteSet(Tracked(new))
      /\ Cardinality(Tracked(new)) = IF name \in Tracked(entries)
           THEN Cardinality(Tracked(entries)) ELSE Cardinality(Tracked(entries)) + 1
  BY <1>3, FS_AddElement
<1>5. Cardinality(Tracked(entries)) \in Nat /\ MaxTrackers \in Nat
  BY FS_CardinalityType, LimitsAssumption
<1>6. Cardinality(Tracked(new)) <= MaxTrackers
  BY <1>4, <1>5
<1>7. ASSUME NEW n \in Tracked(new) PROVE then <= new[n].left
  <2>1. CASE n = name
    BY <2>1, <1>1
  <2>2. CASE n # name
    <3>1. n \in Tracked(entries) /\ n \in Names /\ new[n] = entries[n]
      BY <2>2, <1>1, <1>3 DEF Tracked
    <3>2. then <= at /\ at <= entries[n].left /\ entries[n].left \in Nat
      BY <3>1, EntryFacts
    <3> QED
      BY <3>1, <3>2, LimitsAssumption DEF Times, NotScheduled
  <2> QED
    BY <2>1, <2>2
<1>8. CountsOK(new)
  BY <1>1 DEF CountsOK
<1> QED
  BY <1>1, <1>4, <1>6, <1>7, <1>8 DEF StoreOK

\* What counting an attempt does to the store: it stays within its capacity with
\* a clean-up in time, keeps the blocks unless it is full of them, and whoever
\* is let through leaves a window that counts.
ConsumedOK(old, s, name) ==
  /\ StoreOK(s.entries, s.timer) /\ s.passes \in BOOLEAN
  /\ BlocksKept(old, s.entries) \/ FullOfBlocks(old)
  /\ s.passes => name \in Live(s.entries) /\ ~s.entries[name].blocked

\* Counting an attempt keeps the store in order (consume).
LEMMA ConsumeStep ==
  ASSUME NEW s, StoreOK(s.entries, s.timer), NEW name \in Names, NEW r \in Consume(s, name)
  PROVE  ConsumedOK(s.entries, r, name)
<1>1. PICK old \in [Names -> Entry \cup {NoTracker}] : old = s.entries
  BY DEF StoreOK
<1>2. PICK at \in Times : at = s.timer
  BY DEF StoreOK
<1>3. /\ IsFiniteSet(Tracked(old)) /\ Cardinality(Tracked(old)) <= MaxTrackers
      /\ \A n \in Tracked(old) : at # NotScheduled /\ at <= old[n].left
      /\ Cardinality(Tracked(old)) \in Nat /\ MaxTrackers \in Nat /\ CountsOK(old)
  BY <1>1, <1>2, FS_CardinalityType, LimitsAssumption DEF StoreOK
<1>4. PICK entries : entries = IF old[name].left > 0 THEN old
                               ELSE [old EXCEPT ![name] = NoTracker]
  OBVIOUS
<1>5. PICK e : e = entries[name]
  OBVIOUS
\* The entry that is over is gone; the others are what they were.
<1>6. /\ entries \in [Names -> Entry \cup {NoTracker}]
      /\ \A n \in Tracked(entries) : n \in Tracked(old) /\ entries[n] = old[n]
      /\ e = NoTracker \/ (entries = old /\ old[name].left > 0)
      /\ \A n \in Live(old) : entries[n] = old[n]
      /\ \A n \in Names : entries[n] = old[n] \/ entries[n] = NoTracker
      /\ Live(entries) = Live(old)
  <2>1. CASE old[name].left > 0
    BY <2>1, <1>4, <1>5 DEF Tracked, Live
  <2>2. CASE ~(old[name].left > 0)
    <3>1. /\ entries \in [Names -> Entry \cup {NoTracker}] /\ entries[name] = NoTracker
          /\ \A n \in Names : n # name => entries[n] = old[n]
      BY <2>2, <1>4
    <3>2. NoTracker.left = 0
      BY DEF NoTracker
    <3> QED
      BY <2>2, <3>1, <3>2, <1>5 DEF Tracked, Live
  <2> QED
    BY <2>1, <2>2
<1>7. /\ IsFiniteSet(Tracked(entries)) /\ Cardinality(Tracked(entries)) <= MaxTrackers
      /\ Cardinality(Tracked(entries)) \in Nat
      /\ \A n \in Tracked(entries) : at # NotScheduled /\ at <= entries[n].left
  <2>1. Tracked(entries) \subseteq Tracked(old)
    BY <1>6
  <2>2. /\ IsFiniteSet(Tracked(entries))
        /\ Cardinality(Tracked(entries)) <= Cardinality(Tracked(old))
    BY <2>1, <1>3, FS_Subset
  <2>3. Cardinality(Tracked(entries)) \in Nat
    BY <2>2, FS_CardinalityType
  <2> QED
    BY <2>2, <2>3, <1>3, <1>6
<1>8. BlocksKept(old, entries) /\ CountsOK(entries)
  BY <1>3, <1>6, CountsKept DEF BlocksKept
<1>9. FullOfBlocks(entries) => FullOfBlocks(old)
  BY <1>6 DEF FullOfBlocks
<1>10. Window \in 0..Window /\ Window > 0 /\ Limit \in Nat \ {0}
  BY LimitsAssumption
<1>11. PICK then : then = Schedule(at, Window)
  OBVIOUS
<1>12. /\ then \in Times /\ then # NotScheduled /\ then <= Window
       /\ at # NotScheduled => then <= at
  BY <1>10, <1>11, Scheduled
<1>13. \/ /\ e = NoTracker
          /\ \E room \in MakeRoom(entries) :
               r = [entries |-> [room EXCEPT ![name] =
                                   [hits |-> 1, left |-> Window, blocked |-> FALSE]],
                    timer |-> then, passes |-> TRUE]
       \/ /\ e # NoTracker /\ e.blocked
          /\ r = [entries |-> entries, timer |-> at, passes |-> FALSE]
       \/ /\ e # NoTracker /\ ~e.blocked /\ e.hits < Limit
          /\ r = [entries |-> [entries EXCEPT ![name].hits = @ + 1],
                  timer |-> at, passes |-> TRUE]
       \/ /\ e # NoTracker /\ ~e.blocked /\ ~(e.hits < Limit)
          /\ r = [entries |-> [entries EXCEPT ![name] =
                                 [hits |-> e.hits + 1, left |-> Window, blocked |-> TRUE]],
                  timer |-> then, passes |-> FALSE]
  BY <1>1, <1>2, <1>4, <1>5, <1>11 DEF Consume
\* A first attempt opens a window.
<1>14. ASSUME e = NoTracker, NEW room \in MakeRoom(entries),
              r = [entries |-> [room EXCEPT ![name] =
                                  [hits |-> 1, left |-> Window, blocked |-> FALSE]],
                   timer |-> then, passes |-> TRUE]
       PROVE  ConsumedOK(old, r, name)
  <2>1. /\ room \in [Names -> Entry \cup {NoTracker}]
        /\ IsFiniteSet(Tracked(room)) /\ Cardinality(Tracked(room)) < MaxTrackers
        /\ \A n \in Tracked(room) : n \in Tracked(entries) /\ room[n] = entries[n]
        /\ BlocksKept(entries, room) \/ FullOfBlocks(entries)
    BY <1>6, <1>7, RoomMade
  <2>2. PICK new : new = [hits |-> 1, left |-> Window, blocked |-> FALSE]
    OBVIOUS
  <2>3. new \in Entry /\ new.left = Window /\ new.blocked = FALSE
    BY <2>2, <1>10 DEF Entry
  <2>4. PICK after : after = [room EXCEPT ![name] = new]
    OBVIOUS
  <2>5. r.entries = after /\ r.timer = then /\ r.passes = TRUE
    BY <1>14, <2>2, <2>4
  <2>6. \A n \in Tracked(room) : at # NotScheduled /\ at <= room[n].left
    BY <2>1, <1>7
  <2>7. StoreOK(after, then)
    <3>1. CountsOK(room)
      <4>1. \A n \in Names : room[n] = entries[n] \/ room[n] = NoTracker
        BY <2>1 DEF Tracked
      <4> QED
        BY <4>1, <1>8, CountsKept
    <3>2. new.hits <= Limit
      BY <2>2, <1>10
    <3> QED
      BY <3>1, <3>2, <2>1, <2>3, <2>4, <2>6, <1>12, EntryPut
  <2>8. after[name] = new /\ \A n \in Names : n # name => after[n] = room[n]
    BY <2>1, <2>4
  <2>9. name \in Live(after) /\ ~after[name].blocked
    BY <2>3, <2>8, <1>10 DEF Live
  <2>10. BlocksKept(old, after) \/ FullOfBlocks(old)
    <3>1. CASE BlocksKept(entries, room)
      <4>1. name \notin Live(entries)
        BY <1>14, <1>5 DEF Live, NoTracker
      <4>2. BlocksKept(entries, after)
        BY <3>1, <4>1, <2>8 DEF BlocksKept, Live
      <4> QED
        BY <4>2, <1>6 DEF BlocksKept
    <3>2. CASE FullOfBlocks(entries)
      BY <3>2, <1>9
    <3> QED
      BY <3>1, <3>2, <2>1
  <2> QED
    BY <2>5, <2>7, <2>9, <2>10 DEF ConsumedOK
\* A blocked attempt changes nothing but what is over.
<1>15. ASSUME r = [entries |-> entries, timer |-> at, passes |-> FALSE]
       PROVE  ConsumedOK(old, r, name)
  <2>1. r.entries = entries /\ r.timer = at /\ r.passes = FALSE
    BY <1>15
  <2>2. StoreOK(entries, at)
    BY <1>6, <1>7, <1>8 DEF StoreOK, Times
  <2> QED
    BY <2>1, <2>2, <1>8 DEF ConsumedOK
\* A further attempt is counted, or turns the window into a block.
<1>16. ASSUME e # NoTracker, ~e.blocked, NEW new \in Entry,
              ~new.blocked => new.hits <= Limit, NEW at2 \in Times,
              at2 # NotScheduled, at2 <= new.left, at # NotScheduled => at2 <= at,
              r.entries = [entries EXCEPT ![name] = new], r.timer = at2,
              r.passes \in BOOLEAN, r.passes => ~new.blocked /\ new.left > 0
       PROVE  ConsumedOK(old, r, name)
  <2>1. PICK after : after = [entries EXCEPT ![name] = new]
    OBVIOUS
  <2>2. name \in Tracked(entries)
    BY <1>5, <1>16 DEF Tracked
  <2>3. StoreOK(after, at2)
    BY <2>1, <2>2, <1>6, <1>7, <1>8, <1>16, EntryPut
  <2>4. after[name] = new /\ \A n \in Names : n # name => after[n] = entries[n]
    BY <2>1, <1>6
  <2>5. BlocksKept(old, after)
    <3>1. ~old[name].blocked
      BY <1>5, <1>6, <1>16
    <3> QED
      BY <3>1, <2>4, <1>6 DEF BlocksKept, Live
  <2>6. r.passes => name \in Live(after) /\ ~after[name].blocked
    BY <2>4, <1>16 DEF Live
  <2> QED
    BY <2>1, <2>3, <2>5, <2>6, <1>16 DEF ConsumedOK
<1>17. ASSUME e # NoTracker
       PROVE  /\ e \in Entry /\ e.hits \in 1..(Limit + 1) /\ e.left \in 0..Window
              /\ e.left > 0 /\ at # NotScheduled /\ at <= e.left
  <2>1. name \in Tracked(entries) /\ e.left > 0
    BY <1>5, <1>6, <1>17 DEF Tracked
  <2>2. e \in Entry
    BY <1>5, <1>6, <1>17
  <2> QED
    BY <2>1, <2>2, <1>5, <1>7 DEF Entry
<1>18. ASSUME e # NoTracker, ~e.blocked, e.hits < Limit,
              r = [entries |-> [entries EXCEPT ![name].hits = @ + 1],
                   timer |-> at, passes |-> TRUE]
       PROVE  ConsumedOK(old, r, name)
  <2>1. PICK new : new = [e EXCEPT !.hits = @ + 1]
    OBVIOUS
  <2>2. e.hits + 1 \in 1..(Limit + 1)
    BY <1>10, <1>17, <1>18
  <2>3. new \in Entry /\ new.left = e.left /\ (new.blocked <=> e.blocked)
    BY <2>1, <2>2, <1>17, <1>18 DEF Entry
  <2>4. [entries EXCEPT ![name].hits = @ + 1] = [entries EXCEPT ![name] = new]
    BY <2>1, <1>5
  <2>5. r.entries = [entries EXCEPT ![name] = new] /\ r.timer = at /\ r.passes = TRUE
    BY <2>4, <1>18
  <2>6. at <= at /\ at <= new.left /\ new.left > 0 /\ new.hits <= Limit
    BY <2>1, <2>2, <2>3, <1>10, <1>17, <1>18 DEF Times, NotScheduled, Entry
  <2> QED
    BY <2>3, <2>5, <2>6, <1>16, <1>17, <1>18
<1>19. ASSUME e # NoTracker, ~e.blocked, ~(e.hits < Limit),
              r = [entries |-> [entries EXCEPT ![name] =
                                  [hits |-> e.hits + 1, left |-> Window, blocked |-> TRUE]],
                   timer |-> then, passes |-> FALSE]
       PROVE  ConsumedOK(old, r, name)
  <2>1. PICK new : new = [hits |-> e.hits + 1, left |-> Window, blocked |-> TRUE]
    OBVIOUS
  <2>2. r.entries = [entries EXCEPT ![name] = new] /\ r.timer = then /\ r.passes = FALSE
    BY <2>1, <1>19
  <2>3. e.hits + 1 \in 1..(Limit + 1)
    <3>1. e.hits <= Limit
      BY <1>5, <1>8, <1>19 DEF CountsOK
    <3> QED
      BY <3>1, <1>10, <1>17, <1>19
  <2>4. new \in Entry /\ new.left = Window /\ new.blocked = TRUE
    BY <2>1, <2>3, <1>10 DEF Entry
  <2> QED
    BY <2>2, <2>4, <1>12, <1>16, <1>19
<1> QED
  BY <1>1, <1>13, <1>14, <1>15, <1>18, <1>19

\* What a step may do to the blocks.
BlocksLast ==
  \/ BlocksKept(trackers, trackers') \/ FullOfBlocks(trackers)
  \/ Tracked(trackers') = {}
  \/ \A n \in Live(trackers) : /\ trackers'[n].blocked <=> trackers[n].blocked
                               /\ trackers'[n].left = trackers[n].left - 1

\* Counting a login keeps the invariant, and the blocks unless the store is full
\* of them: what the account's attempt drops is a window, if only the address's.
LEMMA LoginStep ==
  ASSUME LimitsInv, NEW address \in Addresses, NEW account \in Accounts,
         Login(address, account)
  PROVE  LimitsInv' /\ BlocksLast
<1>1. PICK s : s = [entries |-> trackers, timer |-> timer]
  OBVIOUS
<1>2. s.entries = trackers /\ s.timer = timer /\ StoreOK(s.entries, s.timer)
  BY <1>1 DEF LimitsInv
<1>3. PICK first \in Consume(s, address) :
        \E second \in IF first.passes THEN Consume(first, account) ELSE {first} :
          trackers' = second.entries /\ timer' = second.timer
  BY <1>1 DEF Login
<1>4. address \in Names /\ account \in Names
  BY DEF Names
<1>5. ConsumedOK(trackers, first, address)
  BY <1>2, <1>4, ConsumeStep
<1>6. /\ StoreOK(first.entries, first.timer)
      /\ BlocksKept(trackers, first.entries) \/ FullOfBlocks(trackers)
  BY <1>5 DEF ConsumedOK
<1>7. CASE ~first.passes
  <2>1. trackers' = first.entries /\ timer' = first.timer
    BY <1>3, <1>7
  <2> QED
    BY <2>1, <1>6 DEF LimitsInv, BlocksLast
<1>8. CASE first.passes
  <2>1. PICK second \in Consume(first, account) :
          trackers' = second.entries /\ timer' = second.timer
    BY <1>3, <1>8
  <2>2. ConsumedOK(first.entries, second, account)
    BY <1>4, <1>6, ConsumeStep
  <2>3. ~FullOfBlocks(first.entries)
    BY <1>5, <1>8 DEF ConsumedOK, FullOfBlocks
  <2>4. StoreOK(second.entries, second.timer) /\ BlocksKept(first.entries, second.entries)
    BY <2>2, <2>3 DEF ConsumedOK
  <2>5. LimitsInv'
    BY <2>1, <2>4 DEF LimitsInv
  <2>6. CASE BlocksKept(trackers, first.entries)
    <3>1. BlocksKept(trackers, second.entries)
      BY <2>4, <2>6 DEF BlocksKept, Live
    <3> QED
      BY <3>1, <2>1, <2>5 DEF BlocksLast
  <2>7. CASE FullOfBlocks(trackers)
    BY <2>5, <2>7 DEF BlocksLast
  <2> QED
    BY <2>6, <2>7, <1>6
<1> QED
  BY <1>7, <1>8

\* A clean-up keeps the invariant: the next one is set to the first end.
LEMMA CleanUpStep ==
  ASSUME LimitsInv, CleanUp
  PROVE  LimitsInv' /\ BlocksLast
<1> DEFINE live == Live(trackers)
<1>1. /\ trackers \in [Names -> Entry \cup {NoTracker}] /\ IsFiniteSet(Tracked(trackers))
      /\ Cardinality(Tracked(trackers)) <= MaxTrackers /\ CountsOK(trackers)
  BY DEF LimitsInv, StoreOK
<1>2. /\ IsFiniteSet(live) /\ Cardinality(live) \in Nat
      /\ Cardinality(Tracked(trackers)) \in Nat
      /\ Cardinality(live) <= Cardinality(Tracked(trackers)) /\ MaxTrackers \in Nat
  BY <1>1, LiveFinite, LimitsAssumption
<1>3. /\ trackers' \in [Names -> Entry \cup {NoTracker}] /\ Tracked(trackers') = live
      /\ \A n \in live : n \in Names /\ trackers'[n] = trackers[n]
  BY <1>1, OnlyTracked DEF CleanUp
<1>4. CountsOK(trackers')
  <2>1. \A n \in Names : trackers'[n] = trackers[n] \/ trackers'[n] = NoTracker
    BY DEF CleanUp, Only
  <2> QED
    BY <2>1, <1>1, CountsKept
<1>5. BlocksLast
  BY <1>3 DEF BlocksLast, BlocksKept
<1>6. timer' \in Times /\ \A n \in live : timer' # NotScheduled /\ timer' <= trackers'[n].left
  <2>1. CASE live = {}
    BY <2>1 DEF CleanUp, Times
  <2>2. CASE live # {}
    <3>1. PICK n \in FirstToEnd(trackers, live) : timer' = trackers[n].left
      BY <2>2 DEF CleanUp
    <3>2. n \in Names /\ \A m \in live : trackers[n].left <= trackers[m].left
      BY <3>1 DEF FirstToEnd, Live
    <3>3. trackers[n].left \in 0..Window /\ trackers[n].left \in Nat
      BY <1>1, <3>2, EntryFacts
    <3> QED
      BY <3>1, <3>2, <3>3, <1>3 DEF Times, NotScheduled
  <2> QED
    BY <2>1, <2>2
<1>7. StoreOK(trackers', timer')
  BY <1>2, <1>1, <1>3, <1>4, <1>6 DEF StoreOK
<1> QED
  BY <1>5, <1>7 DEF LimitsInv

\* The passing of time keeps the invariant.
LEMMA TickStep ==
  ASSUME LimitsInv, Tick
  PROVE  LimitsInv' /\ BlocksLast
<1>1. /\ trackers \in [Names -> Entry \cup {NoTracker}] /\ CountsOK(trackers)
      /\ timer \in Times /\ Window \in Nat
  BY LimitsAssumption DEF LimitsInv, StoreOK
<1>2. \A l \in 0..Window : /\ Less(l) \in 0..Window /\ (l > 0 => Less(l) = l - 1)
                           /\ (l = 0 => Less(l) = 0)
  BY <1>1 DEF Less
<1>3. ASSUME NEW n \in Names
      PROVE  /\ trackers'[n] \in Entry \cup {NoTracker}
             /\ trackers'[n].left = Less(trackers[n].left)
             /\ trackers'[n].blocked = trackers[n].blocked
             /\ trackers'[n].hits = trackers[n].hits
             /\ trackers'[n] = NoTracker <=> trackers[n] = NoTracker
  <2>1. PICK e \in Entry \cup {NoTracker} : e = trackers[n]
    BY <1>1
  <2>2. e.left \in 0..Window
    BY <2>1, <1>1, EntryFacts
  <2>3. PICK new : new = [e EXCEPT !.left = Less(@)]
    OBVIOUS
  <2>4. trackers'[n] = new
    BY <2>1, <2>3 DEF Tick
  <2>5. CASE e = NoTracker
    <3>1. NoTracker.left = 0
      BY DEF NoTracker
    <3>2. new = [e EXCEPT !.left = 0]
      BY <2>3, <2>5, <3>1 DEF Less
    <3>3. new = NoTracker
      BY <3>2, <2>5 DEF NoTracker
    <3> QED
      BY <3>1, <3>3, <2>1, <2>4, <2>5 DEF Less
  <2>6. CASE e \in Entry
    <3>1. /\ new \in Entry /\ new.left = Less(e.left) /\ new.blocked = e.blocked
          /\ new.hits = e.hits
      BY <2>2, <2>3, <2>6, <1>2 DEF Entry
    <3>2. new # NoTracker /\ e # NoTracker
      BY <3>1, <2>6 DEF Entry, NoTracker
    <3> QED
      BY <3>1, <3>2, <2>1, <2>4
  <2> QED
    BY <2>5, <2>6
<1>4. Tracked(trackers') = Tracked(trackers)
  BY <1>3 DEF Tracked
<1>5. trackers' \in [Names -> Entry \cup {NoTracker}] /\ CountsOK(trackers')
  <2>1. CountsOK(trackers')
    BY <1>1, <1>3 DEF CountsOK
  <2>2. trackers' = [n \in Names |-> trackers'[n]]
    BY DEF Tick
  <2> QED
    BY <2>1, <2>2, <1>3
<1>6. timer' \in Times
  BY <1>1 DEF Tick, Less, Times, NotScheduled
<1>7. ASSUME NEW n \in Tracked(trackers')
      PROVE  timer' # NotScheduled /\ timer' <= trackers'[n].left
  <2>1. n \in Names /\ timer # NotScheduled /\ timer <= trackers[n].left
    BY <1>4, <1>7 DEF LimitsInv, StoreOK, Tracked
  <2>2. PICK l \in 0..Window : l = trackers[n].left
    BY <2>1, <1>1, EntryFacts
  <2>3. trackers'[n].left = Less(l)
    BY <2>1, <2>2, <1>3
  <2>4. timer \in Nat
    BY <2>1, <1>1 DEF Times
  <2>5. timer' = Less(timer)
    BY DEF Tick
  <2> QED
    BY <2>1, <2>2, <2>3, <2>4, <2>5, <1>1 DEF Less, NotScheduled
<1>8. LimitsInv'
  BY <1>4, <1>5, <1>6, <1>7 DEF LimitsInv, StoreOK
<1>9. BlocksLast
  <2>1. \A n \in Live(trackers) : trackers[n].left \in 0..Window /\ trackers[n].left > 0
                                  /\ n \in Names
    BY <1>1, EntryFacts DEF Live
  <2> QED
    BY <2>1, <1>2, <1>3 DEF BlocksLast
<1> QED
  BY <1>8, <1>9

\* An empty store is in order.
LEMMA EmptyStore == StoreOK([n \in Names |-> NoTracker], NotScheduled)
<1>1. PICK none : none = [n \in Names |-> NoTracker]
  OBVIOUS
<1>2. Tracked(none) = {} /\ none \in [Names -> Entry \cup {NoTracker}]
  BY <1>1 DEF Tracked
<1>3. IsFiniteSet({}) /\ Cardinality({}) = 0 /\ 0 <= MaxTrackers /\ NotScheduled \in Times
  BY FS_EmptySet, LimitsAssumption DEF Times
<1>4. CountsOK(none)
  BY <1>1, LimitsAssumption DEF CountsOK, NoTracker
<1> QED
  BY <1>1, <1>2, <1>3, <1>4 DEF StoreOK

\* Stopping the process keeps the invariant.
LEMMA ShutDownStep ==
  ASSUME LimitsInv, ShutDown
  PROVE  LimitsInv' /\ BlocksLast
<1>1. Tracked(trackers') = {}
  BY DEF ShutDown, Tracked
<1> QED
  BY <1>1, EmptyStore DEF ShutDown, LimitsInv, BlocksLast

\* Every step keeps the invariant, and the blocks as far as it must.
LEMMA LimitsStep ==
  ASSUME LimitsInv, [LimitsNext]_limitVars
  PROVE  LimitsInv' /\ BlocksLast
<1>1. CASE \E address \in Addresses, account \in Accounts : Login(address, account)
  BY <1>1, LoginStep
<1>2. CASE CleanUp
  BY <1>2, CleanUpStep
<1>3. CASE Tick
  BY <1>3, TickStep
<1>4. CASE ShutDown
  BY <1>4, ShutDownStep
<1>5. CASE UNCHANGED limitVars
  BY <1>5 DEF limitVars, LimitsInv, BlocksLast, BlocksKept
<1> QED
  BY <1>1, <1>2, <1>3, <1>4, <1>5 DEF LimitsNext

\* The store is within its capacity and its clean-up comes in time, for any
\* number of names, limit, window and capacity (auth-rate-limit.store.ts).
THEOREM LimitsInvariant == LimitsSpec => []LimitsInv
<1>1. LimitsInit => LimitsInv
  BY EmptyStore DEF LimitsInit, LimitsInv
<1>2. LimitsInv /\ [LimitsNext]_limitVars => LimitsInv'
  BY LimitsStep
<1> QED
  BY <1>1, <1>2, PTL DEF LimitsSpec

\* The login limits keep their shape.
THEOREM LimitsTyped == LimitsSpec => []LimitsTypeOK
<1>1. LimitsInv => LimitsTypeOK
  BY DEF LimitsInv, StoreOK, LimitsTypeOK, Times
<1> QED
  BY <1>1, LimitsInvariant, PTL

\* Nothing overstays: one timer that is set again by every clean-up is enough
\* (scheduleCleanup, scheduleNextCleanup).
THEOREM NoneOverstays == LimitsSpec => []NothingOverstays
<1>1. LimitsInv => NothingOverstays
  BY DEF LimitsInv, StoreOK, NothingOverstays
<1> QED
  BY <1>1, LimitsInvariant, PTL

\* What a step may do to one active block.
BlockLasts(n) ==
  trackers[n].blocked /\ trackers[n].left > 0 =>
    \/ /\ trackers'[n].blocked
       /\ trackers'[n].left \in {trackers[n].left, trackers[n].left - 1}
    \/ Tracked(trackers') = {}
    \/ /\ Cardinality(Live(trackers)) = MaxTrackers
       /\ \A m \in Live(trackers) : trackers[m].blocked

\* An active block neither ends early nor is prolonged, unless the store is full
\* of active blocks (ensureCapacity).
THEOREM BlocksEndInTime == LimitsSpec => BlocksLastAsLong
<1>1. ASSUME BlocksLast, NEW n \in Names PROVE BlockLasts(n)
  <2>1. SUFFICES ASSUME trackers[n].blocked, n \in Live(trackers) PROVE BlockLasts(n)
    BY DEF BlockLasts, Live
  <2> QED
    BY <2>1, <1>1 DEF BlockLasts, BlocksLast, BlocksKept, FullOfBlocks
<1>2. LimitsInv /\ [LimitsNext]_limitVars => [\A n \in Names : BlockLasts(n)]_limitVars
  BY <1>1, LimitsStep
<1> QED
  BY <1>2, LimitsInvariant, PTL DEF LimitsSpec, BlocksLastAsLong, BlockLasts
=============================================================================
