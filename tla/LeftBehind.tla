----------------------------- MODULE LeftBehind -----------------------------
(***************************************************************************)
(* The deployer with a history variable: how many tasks had been scheduled *)
(* when StartWork was last turned away because a thread was at work.  Who  *)
(* made that call was left to rely on the thread for them (rime_api.cc and *)
(* ibus-rime do not ask again).                                            *)
(***************************************************************************)
EXTENDS Deployer

VARIABLE relied    \* history: the tasks that are left to the thread at work

reliedVars == << vars, relied >>

\* "a work thread is already running."
TurnedAway(mode) ==
  /\ Working /\ StartWork(mode)
  /\ relied' = Len(scheduled)

RelyingInit == Init /\ relied = 0
RelyingNext ==
  \/ \E mode \in BOOLEAN : TurnedAway(mode)
  \/ Next /\ UNCHANGED relied
RelyingSpec == RelyingInit /\ [][RelyingNext]_reliedVars

\* A task whose StartWork was turned away because the thread was working is
\* run by that thread: deployer.cc:100-102 has the thread look once more
\* before it quits, so that none is left behind.
NothingLeftBehind ==
  \A w \in Workers :
    handle = w /\ thread[w] = "exited" => relied <= Len(ran)
=============================================================================
