------------------------------ MODULE MCInput ------------------------------
(* Instances of Input: a session that types through an input method, one     *)
(* with the modifiers of both sides, one of hot keys.                        *)
EXTENDS Input

MCTtys == {0, 1}
Line(key, cands) == [key |-> key, cands |-> cands]
MCRules == <<
    <<>>,
    <<Line(<<"a">>, <<<<"X">>, <<"Y">>>>), Line(<<"a", "c">>, <<<<"P", "Q">>, <<"X">>>>),
      Line(<<"c">>, <<<<"Z">>>>), Line(<<"a", "c">>, <<<<"R">>>>)>>,
    <<Line(<<"a">>, <<<<"U">>>>)>> >>
Table(name, rule, split) ==
    [name |-> name, table |-> TRUE, lower |-> TRUE, split |-> split, raw |-> ~split, rule |-> rule]
MCInstalled == <<Table("Pinyin", 2, TRUE)>>
MCOffered == {Table("Pinyin", 3, FALSE), Table("Other", 3, FALSE)}
NoMouse(keys) == [keys |-> keys, faulty |-> FALSE]
MCSessions == {[keys |-> {"lctrl"}, faulty |-> TRUE],
               NoMouse({"a", "c", "lshift", "=", "1"}),
               NoMouse({"a", "bksp", "-", " ", "enter", "esc"}),
               NoMouse({"lctrl", "rctrl", "ralt", "lalt", "c", "left"}),
               NoMouse({"lctrl", "lshift", "rshift", " ", "pgup"}),
               NoMouse({"lalt", "F1", "F2", "a", "prtsc"})}
Byte(sync, overflow, d) == [sync |-> sync, overflow |-> overflow, buttons |-> FALSE, d |-> d]
MCMouseBytes == {Byte(TRUE, FALSE, 1), Byte(FALSE, TRUE, -1), Byte(TRUE, TRUE, -2)}
=============================================================================
