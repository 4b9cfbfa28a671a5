------------------------------- MODULE MCFs -------------------------------
(* Instances of Fs: a RAM disk with a file, one with its own /proc and       *)
(* redundant or skipped entries, and ones clks_fs_init refuses.              *)
EXTENDS Fs

E(kind, path, data) == [kind |-> kind, path |-> path, data |-> data]
MCImages ==
    {<<E("dir", <<".", "">>, <<>>), E("dir", <<".", "sys", "">>, <<>>), E("file", <<"sys", "a">>, <<1>>),
       E("zero", <<>>, <<>>), E("file", <<"b">>, <<1>>)>>,
     <<E("dir", <<"sys">>, <<>>), E("dir", <<"proc">>, <<>>), E("other", <<"b">>, <<1>>)>>,
     <<E("dir", <<"sys">>, <<>>), E("bad", <<"b">>, <<>>)>>,
     <<E("file", <<"sys">>, <<1>>)>>,
     <<E("file", <<"sys">>, <<1>>), E("dir", <<"sys">>, <<>>)>>}
MCRequired == {<<"sys">>, <<"dev">>}
MCExtPaths == {<<"a">>, <<"a", ".", "b">>, <<"sys", "a">>, <<"proc", "a">>, <<"dev", "fb0", "a">>}
MCListPaths == {<<>>, <<"proc">>, <<"dev">>, <<"sys">>}
MCBootMount == <<"a">>
MCPayloads == {<<>>, <<1>>, <<1, 2>>}
MCMounts == {<<"a">>, <<"..", "a">>}
MCDevTree == [p \in {<<"dev">>, <<"dev", "input">>} |-> IF Len(p) = 1 THEN <<"fb0", "input">> ELSE <<"kbd">>]
MCPids == <<"1", "2">>
=============================================================================
