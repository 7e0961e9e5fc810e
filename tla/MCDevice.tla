------------------------------- MODULE MCDevice -------------------------------
(* Two boards with a display, the icon shorter or longer than the panel is on, *)
(* and a headless one whose settings are changed and saved.                    *)
EXTENDS Device

Screen(i, o) == [fitted |-> TRUE, icon |-> i, on |-> o, stages |-> 2, presses |-> 1,
                 edits |-> 0, cuts |-> 1]
Boards == {Screen(1, 3), Screen(4, 1),
           [fitted |-> FALSE, icon |-> 0, on |-> 0, stages |-> 0, presses |-> 0,
            edits |-> 3, cuts |-> 1]}

===============================================================================
