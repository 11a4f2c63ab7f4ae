-------------------------------- MODULE MCDataset --------------------------------
(* Manifests of up to three captures whose names repeat and collide. *)
EXTENDS Dataset, TLC

RowOf(workload, id, label, kind, windows) ==
    [workload |-> workload, id |-> id, label |-> label, kind |-> kind, windows |-> windows]

ManifestsDef ==
    {<<RowOf(<<"a">>, "x", "mining", "ok", <<"s", "s">>), RowOf(<<"a">>, "y", "mining", "unmapped", <<>>)>>,
     <<RowOf(<<"a">>, "x", "mining", "counted empty", <<>>), RowOf(<<"b">>, "y", "mining", "bad", <<>>)>>,
     <<RowOf(<<"a">>, "x", "mining", "unlaunched", <<>>), RowOf(<<"b">>, "y", "mining", "ok", <<"s">>)>>,
     <<RowOf(<<"a">>, "x", "mining", "counted empty", <<>>), RowOf(<<"a">>, "x", "mining", "ok", <<>>),
       RowOf(<<"a", "x">>, "y", "other", "ok", <<"s">>)>>,
     <<RowOf(<<"a">>, "x", "mining", "counted empty", <<>>), RowOf(<<"a">>, "x", "mining", "ok", <<>>),
       RowOf(<<"a", "x">>, "y", "mining", "unlaunched", <<>>)>>}

OldDef == {{}, {<<"a">>, <<"b">>, <<"a", "x">>}}
Symmetric == Permutations(Workers)
ShareDef == [train |-> 70, val |-> 15, test |-> 15]
================================================================================
