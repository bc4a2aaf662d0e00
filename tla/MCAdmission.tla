----------------------------- MODULE MCAdmission -----------------------------
EXTENDS Admission

act(id, kind, has) == [id |-> id, kind |-> kind, has |-> has]
scen(id, where, acts, breaks) ==
    [id |-> id, source_id |-> "pg", deployment |-> where, actions |-> acts, break_scenarios |-> breaks]

\* A manifest with one scenario for everywhere and one for development only.
Good ==
    [version |-> 1, sources |-> <<"pg">>,
     scenarios |-> <<scen("orders", {}, <<act("insert", "sql", {"sql"})>>, <<act("drop", "shell", {"shell_cmd"})>>),
                     scen("chaos", {"dev"}, <<act("loss", "toxiproxy", {"shell_cmd"})>>, << >>)>>]

\* The ways in which one is rejected, one at a time.
Bad ==
    {[Good EXCEPT !.version = 2],
     [Good EXCEPT !.sources = <<"pg", "pg">>],
     [Good EXCEPT !.sources = <<"my">>],
     [Good EXCEPT !.scenarios[2].id = "orders"],
     [Good EXCEPT !.scenarios[2].actions = @ \o @],
     [Good EXCEPT !.scenarios[1].break_scenarios[1].id = "insert"]}
    \cup {[Good EXCEPT !.scenarios[1].actions[1] = act("insert", p[1], {p[2]})] :
            p \in {<<"sql", "shell_cmd">>, <<"http", "sql">>, <<"shell", "payload_file">>,
                   <<"produce-kafka", "shell_cmd">>, <<"upload-file", "http_request">>}}

\* Another good one: the alternative payload, nothing for development only.
Other == [Good EXCEPT !.scenarios[1].actions[1] = act("insert", "sql", {"sql_file"}),
                      !.scenarios[2].deployment = {"cloud"}]

\* One path when it is configured, two when not.
MCCandidates ==
    {<<f>> : f \in Bad \cup {Other, Absent, Unreadable}}
        \cup {<<f, Good>> : f \in Bad \cup {Absent, Unreadable}}

Symmetry == Permutations(Tenants) \cup Permutations(Requests)

=============================================================================
