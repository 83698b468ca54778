------------------------- MODULE MCSubmissionPipeline -------------------------
(* SubmissionPipeline with requests numbered as they arrive.  Both artifacts are *)
(* accepted, but only one has a manifest where the executor looks for it; the    *)
(* others are refused.                                                           *)
EXTENDS SubmissionPipeline

MCUploads == 1..2

Archive(paths) ==
    [tooLarge |-> FALSE, magic |-> "zip", checksumOk |-> TRUE,
     entries |-> {[path |-> p, dir |-> FALSE] : p \in paths}]

AtRoot == Archive({<<"Makefile">>, <<"src", "Cargo.toml">>})
Nested == Archive({<<"project", "Makefile">>})

MCUploadable ==
    {AtRoot, Nested, [AtRoot EXCEPT !.checksumOk = FALSE], [AtRoot EXCEPT !.tooLarge = TRUE],
     Archive({<<"project", "src", "Makefile">>})}

\* Requests are interchangeable: they arrive in the order of their numbers.
MCNext ==
    /\ Next
    /\ \A u \in Uploads : pc'[u] # "new" => \A v \in 1..u : pc'[v] # "new"

MCSpec == Init /\ [][MCNext]_vars /\ Build!Fairness
=============================================================================
