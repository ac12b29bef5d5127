------------------------------ MODULE MCServer ------------------------------
(***************************************************************************)
(* One process and its first requests.                                     *)
(***************************************************************************)
EXTENDS Server

Good == [dotenv |-> "absent", port |-> "number", level |-> "known",
         format |-> "known", redis |-> "good"]

MCEnvironment ==
    {Good, [Good EXCEPT !.redis = "bad"],
     [Good EXCEPT !.dotenv = "broken"], [Good EXCEPT !.port = "blank"],
     [Good EXCEPT !.level = "unknown"]}

Member == [op |-> "member", valid |-> TRUE, word |-> "ann", capital |-> FALSE]
Category == [op |-> "category", valid |-> TRUE, word |-> "art", capital |-> FALSE]

MCCall ==
    {Member, [Member EXCEPT !.valid = FALSE],
     Category, [Category EXCEPT !.capital = TRUE],
     [NoCall EXCEPT !.op = "health"]}
=============================================================================
