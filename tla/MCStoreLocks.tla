---------------------------- MODULE MCStoreLocks ----------------------------
EXTENDS StoreLocks

CONSTANTS s1, s2

\* The pairs of maps are at stake when sessions come and go, so those loads have
\* two sessions to draw; what actions and extensions do to one session shows
\* with one.
MCLoads ==
    {[ops |-> {"create", "end", "sweep", "expire"},  ids |-> {s1, s2}],
     [ops |-> {"create", "end", "list"},             ids |-> {s1, s2}],
     [ops |-> {"create", "list", "sweep", "expire"}, ids |-> {s1}],
     [ops |-> {"create", "end", "action", "tick"},   ids |-> {s1}],
     [ops |-> {"create", "extend", "sweep", "expire"}, ids |-> {s1}]}

=============================================================================
