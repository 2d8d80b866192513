------------------------------ MODULE LoginLimits ------------------------------
(***************************************************************************)
(* Limiting login attempts: auth-rate-limit.store.ts and                    *)
(* auth-rate-limit.guard.ts of backend/src/modules/auth.                    *)
(*                                                                         *)
(* Every login is counted under its network address and then under its      *)
(* account name.  The first attempt under a name opens a window, one beyond *)
(* the limit turns it into a block, and an entry whose time is over counts  *)
(* as absent.  The store has a fixed capacity and deletes what is over by   *)
(* one timer.                                                               *)
(*                                                                         *)
(* Times are kept as what is left of them: `left' of an entry, `timer' of   *)
(* the scheduled clean-up.  The event loop may be late.  The order in which *)
(* the store keeps its entries is left out: all windows are equally long,   *)
(* so the oldest is one that ends first, and any block may be the oldest.   *)
(***************************************************************************)
EXTENDS Integers, FiniteSets

CONSTANTS Addresses, Accounts, \* names of trackers
          Limit,       \* attempts in a window
          Window,      \* length of windows and blocks
          MaxTrackers

ASSUME LimitsAssumption ==
  /\ Addresses \cap Accounts = {}
  /\ Limit \in Nat \ {0} /\ Window \in Nat \ {0} /\ MaxTrackers \in Nat \ {0}

VARIABLES trackers, \* the entry of every name
          timer     \* time left to the clean-up, or NotScheduled

limitVars == <<trackers, timer>>

Names == Addresses \cup Accounts
NotScheduled == -1
Entry == [hits: 1..(Limit + 1), left: 0..Window, blocked: BOOLEAN]
NoTracker == [hits |-> 0, left |-> 0, blocked |-> FALSE]

LimitsTypeOK ==
  /\ trackers \in [Names -> Entry \cup {NoTracker}]
  /\ timer \in {NotScheduled} \cup 0..Window

LimitsInit == trackers = [n \in Names |-> NoTracker] /\ timer = NotScheduled

-----------------------------------------------------------------------------
\* The names the store has an entry for, and those whose time is not over.
Tracked(entries) == {n \in Names : entries[n] # NoTracker}
Live(entries)    == {n \in Names : entries[n].left > 0}

\* The entries of some names only.
Only(entries, names) == [n \in Names |-> IF n \in names THEN entries[n] ELSE NoTracker]

FirstToEnd(entries, names) == {n \in names : \A m \in names : entries[n].left <= entries[m].left}

\* scheduleCleanup: an earlier clean-up stays.
Schedule(at, left) == IF at # NotScheduled /\ at <= left THEN at ELSE left

\* Fault: the first to end is dropped, block or not.
MakeRoomFirst(entries) ==
  LET live == Live(entries)
  IN  IF Cardinality(Tracked(entries)) < MaxTrackers THEN {entries}
      ELSE IF Cardinality(live) < MaxTrackers THEN {Only(entries, live)}
      ELSE {Only(entries, live \ {n}) : n \in FirstToEnd(entries, live)}

\* ensureCapacity: what is over goes first, then the oldest window, and a
\* block only if there is nothing else.  What it may leave.
MakeRoom(entries) ==
  LET live    == Live(entries)
      windows == {n \in live : ~entries[n].blocked}
  IN  IF Cardinality(Tracked(entries)) < MaxTrackers THEN {entries}
      ELSE IF Cardinality(live) < MaxTrackers THEN {Only(entries, live)}
      ELSE {Only(entries, live \ {n}) :
              n \in IF windows # {} THEN FirstToEnd(entries, windows) ELSE live}

\* consume, for the state [entries, timer]: the states it may lead to.  Whether
\* the attempt is let through is told by `passes'.
Consume(s, name) ==
  LET entries == IF s.entries[name].left > 0 THEN s.entries
                 ELSE [s.entries EXCEPT ![name] = NoTracker]
      e       == entries[name]
  IN  IF e = NoTracker
        THEN {[entries |-> [room EXCEPT ![name] =
                              [hits |-> 1, left |-> Window, blocked |-> FALSE]],
               timer |-> Schedule(s.timer, Window), passes |-> TRUE] :
                room \in MakeRoom(entries)}
      ELSE IF e.blocked
        THEN {[entries |-> entries, timer |-> s.timer, passes |-> FALSE]}
      ELSE IF e.hits < Limit
        THEN {[entries |-> [entries EXCEPT ![name].hits = @ + 1],
               timer |-> s.timer, passes |-> TRUE]}
      ELSE {[entries |-> [entries EXCEPT ![name] =
                            [hits |-> e.hits + 1, left |-> Window, blocked |-> TRUE]],
             timer |-> Schedule(s.timer, Window), passes |-> FALSE]}

\* canActivate: the account is counted only when the address is let through.
Login(address, account) ==
  \E first \in Consume([entries |-> trackers, timer |-> timer], address) :
    \E second \in IF first.passes THEN Consume(first, account) ELSE {first} :
      trackers' = second.entries /\ timer' = second.timer

\* Fault: the clean-up does not schedule the next one.
CleanUpOnce ==
  /\ timer = 0
  /\ trackers' = Only(trackers, Live(trackers))
  /\ timer' = NotScheduled

\* The timer fires: cleanupExpired and scheduleNextCleanup.
CleanUp ==
  /\ timer = 0
  /\ trackers' = Only(trackers, Live(trackers))
  /\ timer' \in IF Live(trackers) = {} THEN {NotScheduled}
                ELSE {trackers[n].left : n \in FirstToEnd(trackers, Live(trackers))}

Less(n) == IF n > 0 THEN n - 1 ELSE n

Tick ==
  /\ trackers' = [n \in Names |-> [trackers[n] EXCEPT !.left = Less(@)]]
  /\ timer' = Less(timer)

\* onApplicationShutdown
ShutDown == trackers' = [n \in Names |-> NoTracker] /\ timer' = NotScheduled

LimitsNext ==
  \/ \E address \in Addresses, account \in Accounts : Login(address, account)
  \/ CleanUp \/ Tick \/ ShutDown

LimitsSpec == LimitsInit /\ [][LimitsNext]_limitVars

-----------------------------------------------------------------------------
(* Properties.                                                              *)

\* Nothing is kept longer than it counts: while there are entries a clean-up is
\* scheduled, no later than the first of them is over, and there are never more
\* than the capacity.
NothingOverstays ==
  /\ Cardinality(Tracked(trackers)) <= MaxTrackers
  /\ \A n \in Tracked(trackers) : timer # NotScheduled /\ timer <= trackers[n].left

\* "Preserve active blocks where possible": an active block neither ends early
\* nor is it prolonged by further attempts, unless it makes room in a store that
\* is full of active blocks, or the process stops.
BlocksLastAsLong ==
  [][ \A n \in Names :
        trackers[n].blocked /\ trackers[n].left > 0 =>
          \/ /\ trackers'[n].blocked
             /\ trackers'[n].left \in {trackers[n].left, trackers[n].left - 1}
          \/ Tracked(trackers') = {}
          \/ /\ Cardinality(Live(trackers)) = MaxTrackers
             /\ \A m \in Live(trackers) : trackers[m].blocked
    ]_limitVars
=============================================================================
