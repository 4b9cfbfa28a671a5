------------------------------ MODULE MCUsers ------------------------------
(* Instances of Users: a database that nearly fills the buffer, with a       *)
(* comment, an empty line, a name twice and records without uid; and none.   *)
EXTENDS Users, TLC

r == <<"r">>
b == <<"b">>
bb == <<"b", "b">>
MCSymmetry == Permutations(Procs)
MCNames == {r, b, bb}
Records0 == <<Junk(2), Line(r, "root", Hash("x"), <<>>, 0), Blank,
              Line(b, "user", Hash("x"), HomeFor(b), NoUid), Line(b, "admin", Hash("y"), HomeFor(b), NoUid)>>
Text0(ls, open0) == [lines |-> ls, open |-> open0, loose |-> FALSE]
Database == Text0(Records0, FALSE)
Edited == Text0(<<Line(b, "admin", Hash("x"), HomeFor(b), NoUid)>>, TRUE)
Rules0(ls, open0) == [lines |-> ls, open |-> open0]
Manage(boot0, file0, names0, fails0, grow0) ==
    [boot |-> boot0, file |-> file0, rules |-> Rules0(<<>>, FALSE), apps |-> {"app1"}, calls |-> {"manage"},
     names |-> names0, fails |-> fails0, grow |-> grow0]
Call(rules0) ==
    [boot |-> "disk", file |-> Database, rules |-> rules0, apps |-> {"app1", "app2"}, calls |-> {"dangerous"},
     names |-> MCNames, fails |-> FALSE, grow |-> 0]
MCScenarios == {Manage("disk", Database, MCNames, FALSE, 5), Manage("disk", Edited, {b, bb}, TRUE, 2),
                Manage("live", NoFile, MCNames, FALSE, 5),
                Call(Rules0(<<<<"#comment">>, <<"app1">>>>, FALSE)),
                Call(Rules0(<<<<"#comment">>>>, TRUE)), Call(Rules0(<<<<"app1">>>>, TRUE))}
MCLower == [B |-> "b", H |-> "h"]
h == <<"h">>
MCPaths == {<<h>>, <<h, Dot, b>>, <<h, bb, <<>>, <<"f">>>>, <<h, b, DotDot, bb>>, <<h, r>>, <<<<"t">>, b>>,
            <<<<"H">>, bb, <<"f">>>>, <<<<"H">>, b>>, <<h, <<"B">>>>, <<h, <<"B", "b">>>>}
=============================================================================
