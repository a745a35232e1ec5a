---------------------------- MODULE MCSwitching ----------------------------
(* Two sessions of the switcher over two schemas of luna_pinyin's kind.   *)
EXTENDS Switching

Toggle(name, reset) == [options |-> << name >>, reset |-> reset]
Radio(names, reset) == [options |-> names, reset |-> reset]

MCSchemaList == << "luna", "bopomo" >>
MCSwitches ==
  [luna   |-> << Toggle("ascii_mode", 0), Toggle("full_shape", 0) >>,
   bopomo |-> << Toggle("full_shape", NoReset), Radio(<< "zh_hans", "zh_hant" >>, NoReset) >>]
MCComponents ==
  [luna   |-> [on |-> {"_auto_commit"}, off |-> {}],
   bopomo |-> [on |-> {"_chord_typing"}, off |-> {"_auto_commit"}]]

SwitchingSymmetry == Permutations(Sessions)
=============================================================================
