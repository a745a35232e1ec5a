------------------------------ MODULE UserDict ------------------------------
(***************************************************************************)
(* What the input method learns (librime/src/gear/memory.cc,               *)
(* librime/src/dict/user_dictionary.cc, librime/src/dict/tree_db.cc).      *)
(*                                                                         *)
(* Each session has a UserDictionary of its own, but those of one          *)
(* dictionary share a db, and with it the one transaction a db can have.   *)
(* Every commit is learned in a new transaction, which the next plain key  *)
(* makes permanent, unless it is a BackSpace within three seconds.         *)
(*                                                                         *)
(* An entry is a sequence of syllables; that of a phrase made of several   *)
(* is their concatenation.  Weights (dee) decay with the tick and decide   *)
(* an order only: they are left out.  Time is the seconds since an event,  *)
(* up to the number at which it makes no difference any more.              *)
(***************************************************************************)
EXTENDS Integers, SequencesExt, FiniteSets

CONSTANTS
  Sessions,
  Syllabic,      \* those of a script translator; the others have a table's
  Syllables,
  MaxCode,       \* bound on the syllables of a commit
  MaxEdits       \* bound on the commits and deletions of a behaviour

ASSUME UserDictAssumption ==
  Syllabic \subseteq Sessions /\ MaxCode \in Nat /\ MaxEdits \in Nat

RevertSeconds == 3
LongAgo       == RevertSeconds + 1
Age(n)        == IF n = LongAgo THEN n ELSE n + 1

Entries == UNION {[1..n -> Syllables] : n \in 1..MaxCode}

\* A selected segment as a commit finds it: the entry of its candidate, or
\* << >> if the candidate is not a phrase of this dictionary.
CommitSegments == [entry : Entries \cup {<< >>}, confirmed : BOOLEAN]

Syllables_(segs) == FoldLeft(LAMBDA n, seg : n + Len(seg.entry), 0, segs)

Commits == {segs \in UNION {[1..n -> CommitSegments] : n \in 1..MaxCode} :
              Syllables_(segs) <= MaxCode}

VARIABLES
  db,            \* the records: commits and tick of each entry, and "/tick"
  saved,         \* the records a transaction goes back to when aborted
  inTransaction, \* Transactional::in_transaction_
  users,         \* the sessions whose UserDictionary is loaded
  tick,          \* UserDictionary::tick_ of each
  since,         \* seconds since its transaction_time_
  composing,     \* the sessions that have looked words up for a composition
  edits,         \* how many commits and deletions there have been
  last           \* of the last commit: its session, how old it is, the
                 \* records before it, and whether it can still be forgotten

vars == << db, saved, inTransaction, users, tick, since, composing, edits, last >>

NoEntry == [commits |-> 0, tick |-> 0]

Init ==
  /\ db = [entry |-> [e \in Entries |-> NoEntry], tick |-> 0]
  /\ saved = db
  /\ inTransaction = FALSE
  /\ users = {}
  /\ tick = [s \in Sessions |-> 0]
  /\ since = [s \in Sessions |-> LongAgo]
  /\ composing = {}
  /\ edits = 0
  /\ last = [age |-> LongAgo, before |-> db, open |-> FALSE]

-----------------------------------------------------------------------------
(* Class UserDictionary on the db it shares.                               *)

\* UpdateEntry on the records and the tick of one dictionary.
UpdateEntry(state, entry, commits) ==
  LET old == state.db.entry[entry].commits
      now == IF commits > 0 THEN state.tick + 1 ELSE state.tick
      new == IF commits > 0 THEN (IF old < 0 THEN -old ELSE old) + commits
             ELSE IF commits = 0 THEN old
             ELSE IF old > 1 THEN -old ELSE -1
  IN  [db   |-> [entry |-> [state.db.entry EXCEPT ![entry] =
                              [commits |-> new, tick |-> now]],
                 tick  |-> IF commits > 0 THEN now ELSE state.db.tick],
       tick |-> now]

\* Fault: a transaction is begun on top of the one before.
NewTransaction_Nested(s) ==
  /\ saved' = IF inTransaction THEN saved ELSE db
  /\ inTransaction' = TRUE
  /\ since' = [since EXCEPT ![s] = 0]

\* NewTransaction commits the pending one, whichever session began it.
NewTransaction(s) ==
  /\ saved' = db
  /\ inTransaction' = TRUE
  /\ since' = [since EXCEPT ![s] = 0]

CanRevert(s) == inTransaction /\ since[s] <= RevertSeconds

AbortTransaction ==
  /\ db' = saved
  /\ inTransaction' = FALSE
  /\ UNCHANGED saved

CommitPendingTransaction ==
  /\ inTransaction' = FALSE
  /\ UNCHANGED << db, saved >>

-----------------------------------------------------------------------------
(* Class Memory.                                                           *)

\* The phrases of a commit entry, as Memorize of either translator learns
\* them.  A script translator learns the whole, and refreshes the parts of a
\* whole that is not made of single syllables only; a table translator
\* learns the parts.
Memorize(state, s, elements) ==
  IF s \in Syllabic
    THEN LET refreshed ==
               IF Len(elements) > 1 /\ \E i \in 1..Len(elements) : Len(elements[i]) > 1
                 THEN FoldLeft(LAMBDA st, e : UpdateEntry(st, e, 0), state, elements)
                 ELSE state
         IN  UpdateEntry(refreshed, FlattenSeq(elements), 1)
    ELSE FoldLeft(LAMBDA st, e : UpdateEntry(st, e, 1), state, elements)

Save(state, s, elements) ==
  IF elements = << >> THEN state ELSE Memorize(state, s, elements)

\* The loop of OnCommit: phrases are collected and saved at each segment
\* that is confirmed or not recognized.  What is left at its end is dropped.
Learn(state, s, segs) ==
  FoldLeft(
    LAMBDA acc, seg :
      LET recognized == seg.entry # << >>
          elements   == IF recognized THEN Append(acc.elements, seg.entry) ELSE acc.elements
      IN  IF ~recognized \/ seg.confirmed
            THEN [state |-> Save(acc.state, s, elements), elements |-> << >>]
            ELSE [acc EXCEPT !.elements = elements],
    [state |-> state, elements |-> << >>], segs).state

OnCommit(s, segs) ==
  /\ s \in composing /\ edits < MaxEdits
  /\ NewTransaction(s)
  /\ LET state == Learn([db |-> db, tick |-> tick[s]], s, segs)
     IN  /\ db' = state.db
         /\ tick' = [tick EXCEPT ![s] = state.tick]
  /\ composing' = composing \ {s}
  /\ edits' = edits + 1
  /\ last' = [age |-> 0, before |-> db, open |-> TRUE]
  /\ UNCHANGED users

\* In or out of a transaction, and followed by looking everything up again.
OnDeleteEntry(s, entry) ==
  /\ s \in composing /\ edits < MaxEdits
  /\ LET state == UpdateEntry([db |-> db, tick |-> tick[s]], entry, -1)
     IN  /\ db' = state.db
         /\ tick' = IF s \in Syllabic THEN [tick EXCEPT ![s] = state.db.tick] ELSE tick
  /\ edits' = edits + 1
  /\ UNCHANGED << saved, inTransaction, users, since, composing, last >>

\* Fault: the time is not looked at.
BackSpace_Anytime(s) ==
  /\ s \in users \ composing
  /\ IF inTransaction THEN AbortTransaction ELSE CommitPendingTransaction
  /\ last' = [last EXCEPT !.open = FALSE]
  /\ UNCHANGED << users, tick, since, composing, edits >>

\* OnUnhandledKey for BackSpace: one that no composition has taken.
BackSpace(s) ==
  /\ s \in users \ composing
  /\ IF CanRevert(s) THEN AbortTransaction ELSE CommitPendingTransaction
  /\ last' = [last EXCEPT !.open = FALSE]
  /\ UNCHANGED << users, tick, since, composing, edits >>

\* Fault: keys are not taken for the end of the matter.
PlainKey_Ignored(s) ==
  /\ s \in users
  /\ last' = [last EXCEPT !.open = FALSE]
  /\ UNCHANGED << db, saved, inTransaction, users, tick, since, composing, edits >>

\* OnUnhandledKey for any other key without modifiers but Shift.
PlainKey(s) ==
  /\ s \in users
  /\ CommitPendingTransaction
  /\ last' = [last EXCEPT !.open = FALSE]
  /\ UNCHANGED << users, tick, since, composing, edits >>

-----------------------------------------------------------------------------
(* What else a session does with its dictionary.                           *)

\* Created with a session, or as a schema is applied to it: Load.
Load(s) ==
  /\ s \notin users
  /\ users' = users \cup {s}
  /\ tick' = [tick EXCEPT ![s] = db.tick]
  /\ since' = [since EXCEPT ![s] = LongAgo]
  /\ UNCHANGED << db, saved, inTransaction, composing, edits, last >>

\* Destroyed: ~UserDictionary.
Unload(s) ==
  /\ s \in users
  /\ users' = users \ {s} /\ composing' = composing \ {s}
  /\ CommitPendingTransaction
  /\ last' = [last EXCEPT !.open = FALSE]
  /\ UNCHANGED << tick, since, edits >>

\* Each key that composes looks words up: Lookup, which fetches the tick, or
\* LookupWords of a table, which does not.
LookUp(s) ==
  /\ s \in users
  /\ composing' = composing \cup {s}
  /\ tick' = IF s \in Syllabic THEN [tick EXCEPT ![s] = db.tick] ELSE tick
  /\ UNCHANGED << db, saved, inTransaction, users, since, edits, last >>

\* The composition is given up.
GiveUp(s) ==
  /\ s \in composing
  /\ composing' = composing \ {s}
  /\ UNCHANGED << db, saved, inTransaction, users, tick, since, edits, last >>

Second ==
  /\ since' = [s \in Sessions |-> Age(since[s])]
  /\ last' = [last EXCEPT !.age = Age(@)]
  /\ UNCHANGED << db, saved, inTransaction, users, tick, composing, edits >>

Next ==
  \/ \E s \in Sessions :
       \/ \E segs \in Commits : OnCommit(s, segs)
       \/ \E entry \in Entries : OnDeleteEntry(s, entry)
       \/ BackSpace(s) \/ PlainKey(s)
       \/ Load(s) \/ Unload(s) \/ LookUp(s) \/ GiveUp(s)
  \/ Second

Spec == Init /\ [][Next]_vars

-----------------------------------------------------------------------------
\* The records change, and not by learning or deleting anything.
Forgets == edits' = edits /\ db' # db

\* The sessions tell the age of a transaction each by its own clock, and
\* abort whichever one is open in the db they share.  Nevertheless nothing
\* is ever forgotten that was learned longer than three seconds ago.
RevertIsRecent == [][Forgets => last.age <= RevertSeconds]_vars

\* What is forgotten is the last commit as a whole and nothing of any commit
\* before it; and no more when, in any session, a key has been typed since,
\* or a dictionary has been closed.
RevertIsLast == [][Forgets => last.open /\ db' = last.before]_vars
=============================================================================
