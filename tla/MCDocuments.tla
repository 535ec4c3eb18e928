------------------------------ MODULE MCDocuments ------------------------------
EXTENDS Documents

Value(x) == <<x, FALSE>>
A == <<"a", FALSE>>
B == <<"b", FALSE>>

MCPuts == {[name |-> A, values |-> [k \in {"batch"} |-> Value("1")]],
           [name |-> B, values |-> [k \in {"batch", "batch-size"} |-> Value("2")]],
           [name |-> <<"a", TRUE>>, values |-> [k \in {"model"} |-> Value("m")]],
           [name |-> B, values |-> [k \in {"model"} |-> <<"m", TRUE>>]],
           [name |-> B, values |-> [k \in {"models-dir"} |-> Value("d")]]}

MCServiceLists == {<<"control">>, <<"other">>}

Config(router, auto, max, preset, exe) ==
    [services |-> Node("absent"), router |-> router, auto |-> auto,
     max |-> max, preset |-> preset, exe |-> exe]
MCHandConfigs == {Config("absent", Node("absent"), 0, "absent", "absent"),
                  Config("null", Node("absent"), 0, "absent", "absent"),
                  Config("map", Node("null"), 2, "a", "own"),
                  Config("map", List(<<"a", "b">>), 2, "a", "old"),
                  Config("map", List(<<"a", "b">>), 1, "", "own"),
                  Config("map", Node("absent"), 0, "b", "")}
MCSetupConfig == [Config("map", List(<<"default">>), 1, "default", DefaultExe)
                    EXCEPT !.services = List(<<"control">>)]

MCHandPresets ==
    {<<Note(1), Header(A), Entry("batch", Value("1")), Entry("batch-size", Value("2")), Blank,
       Note(2), Header(B), Entry("model", <<"m", TRUE>>)>>,
     <<Header(<<"b", TRUE>>), Entry("models-dir", Value("d")), Note(1), Header(A)>>,
     <<Header(A), NoEqual>>}
MCSetupPresets == <<Header(<<"default", FALSE>>), Blank, Entry("models-dir", Value("d")), Blank>>
MCPath == Value("file")
================================================================================
