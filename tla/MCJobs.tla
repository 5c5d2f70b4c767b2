-------------------------------- MODULE MCJobs --------------------------------
(* Small deployments of PoolJobs. *)
EXTENDS PoolJobs

\* Standard and extended channels, with and without standard jobs.
Plain ==
    [gridPool |-> FALSE, jobDeclarator |-> FALSE,
     flags |-> {<<FALSE, FALSE>>, <<FALSE, TRUE>>},
     values |-> {2}, suffixes |-> {1},
     cycle |-> 1, duration |-> 0, offset |-> [a \in Payees |-> 0],
     templates |-> 4, seconds |-> 1, channels |-> {2, 3}]

\* GridPool: a suffix that fits some templates and not others, and the fee slices of
\* two addresses staggered over the cycle.
Grid ==
    [gridPool |-> TRUE, jobDeclarator |-> FALSE,
     flags |-> {<<FALSE, TRUE>>},
     values |-> {2, 3}, suffixes |-> {1, 3},
     cycle |-> 2, duration |-> 1, offset |-> [a \in Payees |-> IF a = Pool THEN 0 ELSE 1],
     templates |-> 3, seconds |-> 2, channels |-> {2}]

\* GridPool for clients without standard jobs, some of which bring their own
\* work.
GridExtended ==
    [Grid EXCEPT !.jobDeclarator = TRUE, !.flags = {<<FALSE, FALSE>>, <<TRUE, FALSE>>},
                 !.values = {2}, !.suffixes = {1}, !.seconds = 3]

\* Clients that bring their own work, and have said so at setup or have not.
Declared ==
    [Plain EXCEPT !.jobDeclarator = TRUE, !.flags = {<<TRUE, FALSE>>, <<FALSE, FALSE>>},
                  !.values = {2, 3}, !.templates = 3, !.channels = {2}]

AllSetups == {Plain, Grid, GridExtended, Declared}
===============================================================================
