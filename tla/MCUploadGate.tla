---------------------------- MODULE MCUploadGate ----------------------------
(* UploadGate with requests numbered as they arrive, one artifact that is valid *)
(* and one for each reason to refuse it.                                        *)
EXTENDS UploadGate

MCUploads == 1..4

Archive(paths) ==
    [tooLarge |-> FALSE, magic |-> "gzip", checksumOk |-> TRUE,
     entries |-> {[path |-> p, dir |-> FALSE] : p \in paths}]

Good == Archive({<<"go.mod">>, <<"cmd", "main.go">>})

MCUploadable ==
    {Good, [Good EXCEPT !.tooLarge = TRUE],
     [Good EXCEPT !.magic = "elf", !.entries = {}, !.checksumOk = FALSE],
     [Good EXCEPT !.magic = "other", !.entries = {}],
     Archive({<<"cmd", "tool", "go.mod">>, <<"README">>}),
     [Good EXCEPT !.entries = {[path |-> <<"Makefile">>, dir |-> TRUE]}]}

\* Requests are interchangeable: they arrive in the order of their numbers.
MCNext ==
    /\ Next
    /\ \A u \in Uploads : pc'[u] # "new" => \A v \in 1..u : pc'[v] # "new"

MCSpec == Init /\ [][MCNext]_vars
=============================================================================
