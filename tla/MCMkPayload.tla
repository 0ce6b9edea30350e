---------------------------- MODULE MCMkPayload -----------------------------
(* A small instance of MkPayload: a word of two bytes that counts to
   six, and partitions of four bytes. *)
EXTENDS MkPayload

Config(apexes, system_apexes, apk) ==
    [apexes |-> apexes, system_apexes |-> system_apexes, apk |-> apk]

MCConfigs == {Config(<<"a">>, <<"adbd">>, <<"k">>), Config(<<"a">>, <<>>, <<>>),
              Config(<<>>, <<"adbd">>, <<"a">>), Config(<<>>, <<"gone">>, <<"k">>),
              Config(<<"a", NotAString>>, <<>>, <<>>)}
MCApexInfo == [name \in {"adbd"} |-> "s"]
=============================================================================
