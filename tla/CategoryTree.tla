----------------------------- MODULE CategoryTree -----------------------------
(***************************************************************************)
(* The category tree: backend/src/modules/catalog/catalog.service.ts and    *)
(* the trigger categories_no_cycle of migration 0006.                       *)
(*                                                                         *)
(* Categories are created under an active parent, moved, retired and        *)
(* reactivated, each in one READ COMMITTED transaction whose update is      *)
(* guarded by the version the client read.  A move is walked twice: by the  *)
(* service, to explain a bad move, and by the trigger.  The update first    *)
(* locks the row, then the trigger takes the organization's advisory lock,  *)
(* which is held until the commit, and walks what is committed by then.     *)
(*                                                                         *)
(* A walk is described by what it finds, the ancestors.  Its limit of 64    *)
(* hops, names and slugs are left out.                                      *)
(***************************************************************************)
EXTENDS Integers

CONSTANTS Categories, Editors,
          Root,        \* the parent of a category that has none
          Unlocked,    \* the holder of the advisory lock while it is free
          MaxTreeVersion \* bound: how often a category is changed

ASSUME CategoryAssumption ==
  /\ Root \notin Categories /\ Unlocked \notin Editors
  /\ MaxTreeVersion \in Nat

VARIABLES parent,  \* parent_category_id
          about,   \* the rest of a row: whether it exists, is active, its version
          treeLock,\* the advisory lock
          edit     \* what every editor is doing

treeVars == <<parent, about, treeLock, edit>>

NoEdit == [pc |-> "idle", category |-> Root, parent |-> Root, version |-> 0]

CategoryTypeOK ==
  /\ parent \in [Categories -> Categories \cup {Root}]
  /\ about \in [Categories -> [exists: BOOLEAN, active: BOOLEAN, version: Nat]]
  /\ treeLock \in Editors \cup {Unlocked}
  /\ edit \in [Editors -> [pc: {"idle", "locked", "walked", "checked"}, version: Nat,
                           category: Categories \cup {Root},
                           parent: Categories \cup {Root}]]

TreeInit ==
  /\ parent = [c \in Categories |-> Root]
  /\ about = [c \in Categories |-> [exists |-> FALSE, active |-> FALSE, version |-> 0]]
  /\ treeLock = Unlocked
  /\ edit = [w \in Editors |-> NoEdit]

-----------------------------------------------------------------------------
\* What a walk from p upwards meets lies in A.
Covers(A, p) ==
  /\ p # Root => p \in A
  /\ \A a \in A : parent[a] \in A \cup {Root}

\* A walk from p reaches the root without meeting c.
Avoids(p, c) == \E A \in SUBSET (Categories \ {c}) : Covers(A, p)

\* A parent that may be chosen.
Selectable(p) == p # Root => about[p].exists /\ about[p].active

\* Nobody else has locked the row.
RowFree(w, c) ==
  \A v \in Editors \ {w} : edit[v].pc \in {"locked", "walked"} => edit[v].category # c

\* createCategory: a category without children cannot close a cycle, whatever
\* the trigger sees.
CreateCategory(c, p) ==
  /\ ~about[c].exists
  /\ p # c /\ Selectable(p)
  /\ parent' = [parent EXCEPT ![c] = p]
  /\ about' = [about EXCEPT ![c] = [exists |-> TRUE, active |-> TRUE, version |-> 1]]
  /\ UNCHANGED <<treeLock, edit>>

\* updateCategory: the client's version, then assertCategoryParent ...
CheckMove(w, c, p, version) ==
  /\ edit[w] = NoEdit
  /\ about[c].exists
  /\ version \in 1..about[c].version
  /\ p # c /\ Selectable(p) /\ Avoids(p, c)
  /\ edit' = [edit EXCEPT ![w] =
       [pc |-> "checked", category |-> c, parent |-> p, version |-> version]]
  /\ UNCHANGED <<parent, about, treeLock>>

GiveUpEdit(w) == edit' = [edit EXCEPT ![w] = NoEdit]

\* ... the update finds the row, if its version is still the same, and locks it ...
LockCategory(w) ==
  LET e == edit[w]
  IN  /\ e.pc = "checked"
      /\ RowFree(w, e.category)
      /\ IF about[e.category].version = e.version
           THEN edit' = [edit EXCEPT ![w].pc = "locked"]
           ELSE GiveUpEdit(w)
      /\ UNCHANGED <<parent, about, treeLock>>

\* Fault: the trigger does not take the lock.
WalkUnlocked(w) ==
  LET e == edit[w]
  IN  /\ e.pc = "locked"
      /\ IF Avoids(e.parent, e.category)
           THEN edit' = [edit EXCEPT ![w].pc = "walked"] ELSE GiveUpEdit(w)
      /\ UNCHANGED <<parent, about, treeLock>>

\* ... the trigger takes the lock and walks, when there is a new parent ...
WalkLocked(w) ==
  LET e == edit[w]
  IN  /\ e.pc = "locked"
      /\ IF e.parent = Root
           THEN edit' = [edit EXCEPT ![w].pc = "walked"] /\ UNCHANGED treeLock
         ELSE /\ treeLock = Unlocked
              /\ IF Avoids(e.parent, e.category)
                   THEN edit' = [edit EXCEPT ![w].pc = "walked"] /\ treeLock' = w
                   ELSE GiveUpEdit(w) /\ UNCHANGED treeLock
      /\ UNCHANGED <<parent, about>>

\* ... and the transaction commits.
CommitMove(w) ==
  LET e == edit[w]
  IN  /\ e.pc = "walked"
      /\ parent' = [parent EXCEPT ![e.category] = e.parent]
      /\ about' = [about EXCEPT ![e.category].version = @ + 1]
      /\ treeLock' = IF treeLock = w THEN Unlocked ELSE treeLock
      /\ GiveUpEdit(w)

\* setCategoryActive: one guarded update; a reactivation looks at the parent.
SetActive(c, active) ==
  /\ about[c].exists
  /\ \A v \in Editors : edit[v].pc \in {"locked", "walked"} => edit[v].category # c
  /\ active => Selectable(parent[c])
  /\ about' = [about EXCEPT ![c].active = active, ![c].version = @ + 1]
  /\ UNCHANGED <<parent, treeLock, edit>>

TreeNext ==
  \/ \E c \in Categories, p \in Categories \cup {Root} : CreateCategory(c, p)
  \/ \E w \in Editors :
       \/ \E c \in Categories, p \in Categories \cup {Root}, version \in 1..MaxTreeVersion :
            CheckMove(w, c, p, version)
       \/ LockCategory(w) \/ WalkLocked(w) \/ CommitMove(w)
  \/ \E c \in Categories, active \in BOOLEAN :
       about[c].version <= MaxTreeVersion /\ SetActive(c, active)

TreeSpec == TreeInit /\ [][TreeNext]_treeVars

-----------------------------------------------------------------------------
(* Properties.                                                              *)

\* No category is its own ancestor, though two moves that are harmless alone
\* are checked at the same time: every set of categories has one whose parent
\* lies outside.
TreeIsAcyclic ==
  \A S \in SUBSET Categories : S # {} => \E c \in S : parent[c] \notin S
=============================================================================
