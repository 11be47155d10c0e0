------------------------------ MODULE MCClient ------------------------------
(* Two curves and a duty, two presets, and operators of different habits.  *)
EXTENDS Client
CONSTANTS f1, f2, c1, c2, p1, p2
OnDays == {[habit |-> {"mode", "fixed", "duty"}, weather |-> {"refuse", "uncertain", "elsewhere"}],
           [habit |-> {"mode", "node"}, weather |-> {"refuse"}],
           [habit |-> {"node", "revert"}, weather |-> {"late"}],
           [habit |-> {"curve", "activate"}, weather |-> {"late"}],
           [habit |-> {"panel", "brightness"}, weather |-> {"crash"}]}
Calm(gestures) == {[habit |-> gestures, weather |-> {}]}
UnsureDay == {[habit |-> {"curve"}, weather |-> {"uncertain"}]}
PanelDay == Calm({"panel"})
ProfileDay == Calm({"curve", "activate"})
AnswerDay == Calm({"curve", "activate"})
SomeLeft == {None, c1}
=============================================================================
