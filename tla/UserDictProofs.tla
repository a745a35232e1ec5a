--------------------------- MODULE UserDictProofs ---------------------------
(***************************************************************************)
(* What a BackSpace can make the user dictionary forget, for any number of *)
(* sessions that share it, any phrases and any clocks.                     *)
(*                                                                         *)
(* Both theorems rest on one invariant: while a transaction is open in the *)
(* db it is the one of the last commit - its age is last.age, and what it  *)
(* goes back to is last.before - and no session's clock shows less than    *)
(* that age.  The clocks are needed because a session asks its own.        *)
(***************************************************************************)
EXTENDS UserDict, TLAPS

Ages == 0..LongAgo

\* The part of the type invariant that the arguments on time rest on.
ClockOK ==
  /\ since \in [Sessions -> Ages]
  /\ last.age \in Ages
  /\ edits \in Int

\* An open transaction is that of the last commit.
TransactionOK ==
  inTransaction =>
    /\ last.open
    /\ saved = last.before
    /\ \A s \in Sessions : last.age <= since[s]

IInv == ClockOK /\ TransactionOK /\ last = [age |-> last.age,
                                           before |-> last.before, open |-> last.open]

LEMMA AgeGrows == \A m, n \in Ages : Age(m) \in Ages /\ (m <= n => Age(m) <= Age(n))
  BY DEF Ages, Age, LongAgo, RevertSeconds

\* The invariant holds throughout.
THEOREM Invariance == Spec => []IInv
<1>1. Init => IInv
  BY DEF Init, IInv, ClockOK, TransactionOK, Ages, LongAgo, RevertSeconds
<1>2. IInv /\ [Next]_vars => IInv'
  <2> SUFFICES ASSUME IInv, [Next]_vars PROVE IInv'
    OBVIOUS
  <2> USE DEF IInv
  <2>1. ASSUME NEW s \in Sessions, NEW segs \in Commits, OnCommit(s, segs) PROVE IInv'
    <3>1. last' = [age |-> 0, before |-> db, open |-> TRUE] /\ saved' = db
      BY <2>1 DEF OnCommit, NewTransaction
    <3>2. since' = [since EXCEPT ![s] = 0] /\ edits' = edits + 1
      BY <2>1 DEF OnCommit, NewTransaction
    <3>3. ClockOK'
      BY <3>1, <3>2 DEF ClockOK, Ages, LongAgo, RevertSeconds
    <3>4. \A r \in Sessions : last'.age <= since'[r]
      BY <3>1, <3>3 DEF ClockOK, Ages, LongAgo, RevertSeconds
    <3> QED BY <3>1, <3>3, <3>4 DEF TransactionOK
  <2>2. ASSUME NEW s \in Sessions, NEW entry \in Entries, OnDeleteEntry(s, entry) PROVE IInv'
    BY <2>2 DEF OnDeleteEntry, ClockOK, TransactionOK
  <2>3. ASSUME NEW s \in Sessions, BackSpace(s) PROVE IInv'
    BY <2>3 DEF BackSpace, AbortTransaction, CommitPendingTransaction, ClockOK, TransactionOK
  <2>4. ASSUME NEW s \in Sessions, PlainKey(s) PROVE IInv'
    BY <2>4 DEF PlainKey, CommitPendingTransaction, ClockOK, TransactionOK
  <2>5. ASSUME NEW s \in Sessions, Load(s) PROVE IInv'
    <3>1. since' = [since EXCEPT ![s] = LongAgo]
      BY <2>5 DEF Load
    <3>2. ClockOK'
      BY <2>5, <3>1 DEF Load, ClockOK, Ages, LongAgo, RevertSeconds
    <3>3. inTransaction => \A r \in Sessions : last.age <= since'[r]
      BY <3>1 DEF ClockOK, TransactionOK, Ages, LongAgo, RevertSeconds
    <3> QED BY <2>5, <3>2, <3>3 DEF Load, TransactionOK
  <2>6. ASSUME NEW s \in Sessions, Unload(s) PROVE IInv'
    BY <2>6 DEF Unload, CommitPendingTransaction, ClockOK, TransactionOK
  <2>7. ASSUME NEW s \in Sessions, LookUp(s) PROVE IInv'
    BY <2>7 DEF LookUp, ClockOK, TransactionOK
  <2>8. ASSUME NEW s \in Sessions, GiveUp(s) PROVE IInv'
    BY <2>8 DEF GiveUp, ClockOK, TransactionOK
  <2>9. CASE Second
    <3>1. since' = [s \in Sessions |-> Age(since[s])] /\ last' = [last EXCEPT !.age = Age(@)]
      BY <2>9 DEF Second
    <3>2. last' = [age |-> Age(last.age),
                   before |-> last.before, open |-> last.open]
      BY <3>1
    <3>3. ClockOK'
      BY <2>9, <3>1, <3>2, AgeGrows DEF Second, ClockOK
    <3>4. inTransaction => \A s \in Sessions : last'.age <= since'[s]
      BY <3>1, <3>2, AgeGrows DEF ClockOK, TransactionOK
    <3> QED BY <2>9, <3>2, <3>3, <3>4 DEF Second, TransactionOK
  <2>10. CASE UNCHANGED vars
    BY <2>10 DEF vars, ClockOK, TransactionOK
  <2> QED BY <2>1, <2>2, <2>3, <2>4, <2>5, <2>6, <2>7, <2>8, <2>9, <2>10 DEF Next
<1> QED BY <1>1, <1>2, PTL DEF Spec

\* The one way to forget anything: a BackSpace that finds a transaction open
\* and its own session's clock in time, and takes the transaction back.
LEMMA HowToForget ==
  ASSUME IInv, Next, Forgets
  PROVE  inTransaction /\ db' = saved /\ \E s \in Sessions : since[s] <= RevertSeconds
<1>1. db' # db /\ edits' = edits
  BY DEF Forgets
<1>2. edits + 1 # edits
  BY DEF IInv, ClockOK
<1>3. PICK s \in Sessions : BackSpace(s)
  BY <1>1, <1>2 DEF Next, OnCommit, OnDeleteEntry, PlainKey, Load, Unload, LookUp, GiveUp,
                    Second, CommitPendingTransaction
<1> QED BY <1>1, <1>3 DEF BackSpace, CanRevert, AbortTransaction, CommitPendingTransaction

\* Nothing is forgotten that was learned more than three seconds ago,
\* whichever session learned it and whichever session's BackSpace it was.
THEOREM ForgetsOnlyRecent == Spec => RevertIsRecent
<1>1. IInv /\ [Next]_vars => [Forgets => last.age <= RevertSeconds]_vars
  <2> SUFFICES ASSUME IInv, Next, Forgets PROVE last.age <= RevertSeconds
    OBVIOUS
  <2>1. PICK s \in Sessions : inTransaction /\ since[s] <= RevertSeconds
    BY HowToForget
  <2>2. last.age <= since[s] /\ last.age \in Int /\ since[s] \in Int
    BY <2>1 DEF IInv, ClockOK, TransactionOK, Ages, LongAgo, RevertSeconds
  <2> QED BY <2>1, <2>2 DEF RevertSeconds
<1> QED BY <1>1, Invariance, PTL DEF Spec, RevertIsRecent

\* What is forgotten is the last commit, all of it, and nothing before it.
THEOREM ForgetsOnlyLast == Spec => RevertIsLast
<1>1. IInv /\ [Next]_vars => [Forgets => last.open /\ db' = last.before]_vars
  BY HowToForget DEF IInv, TransactionOK
<1> QED BY <1>1, Invariance, PTL DEF Spec, RevertIsLast
=============================================================================
