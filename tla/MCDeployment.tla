---------------------------- MODULE MCDeployment ----------------------------
(* Three schemas: one is listed at first and needs the next, which has the *)
(* same dictionary; a patch of the list adds the user's own.               *)
EXTENDS Deployment

MCNames == <<"abc", "luna", "mine">>
MCDictOf == [abc |-> "dict", luna |-> "dict", mine |-> "none"]
MCDependencies == [abc |-> <<"luna">>, luna |-> << >>, mine |-> << >>]
MCUserOnly == {"mine"}
MCListedBy(patch) == IF patch = 0 THEN <<"abc", "gone">> ELSE <<"mine", "luna">>
MCApplies(patch) == patch # 2
MCPrebuilt == {"dict"}
=============================================================================
