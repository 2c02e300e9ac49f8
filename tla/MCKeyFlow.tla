------------------------------ MODULE MCKeyFlow ------------------------------
(* KeyFlow with model values, and every choice of what an operator may     *)
(* have beside the tool.  What lies there meets each flow folder alone, so *)
(* one folder is enough with it; with nothing there two folders are tried. *)
EXTENDS KeyFlow, TLC

MCAnything == {o \in Own : o.prereq.wrapped # Absent => o.prereq.ufpk = o.prereq.wrapped}
MCNothing == [prereq |-> Nothing, reusable |-> Absent, mailName |-> "attachment"]
MCFolders == own # MCNothing => Len(fs.flows) <= 1
Symmetry == Permutations(Ufpk)
==============================================================================
