-------------------------- MODULE MCGalaxyLauncher --------------------------
EXTENDS GalaxyLauncher

Sections == {<<"port: other">>, <<AuthDir>>, <<"usage-statistics-enabled: false">>,
             <<"api-keys: []">>, <<KeysHeader, "  - old key">>, <<KeysHeader, "- old key">>,
             <<Remote, Allow(FALSE)>>, <<Remote, "  panel-github-repository: other">>,
             <<Remote, "  nested", "  panel-github-repository: other">>,
             <<"other:", "  nested">>, <<Blank>>}

\* every file of two sections, with and without a newline at its end, and some of
\* them given by the environment
MCDocs == {a \o b : a, b \in Sections} \cup {a \o b \o <<Blank>> : a, b \in Sections}

\* what concerns the file, what concerns the ports, and the repository
Base == [given |-> <<>>, keys |-> TRUE, allow |-> "unset", password |-> TRUE, store |-> "file",
         token |-> FALSE, force |-> FALSE, route |-> "off", public |-> 1, internal |-> 0]

MCEnvs ==
  {[Base EXCEPT !.keys = k, !.allow = a, !.password = p] :
     k \in BOOLEAN, a \in {"unset", "on", "off"}, p \in BOOLEAN}
  \cup {[Base EXCEPT !.given = <<Remote, line, "other:", "  nested">>, !.allow = a] :
     line \in {Allow(FALSE), "  panel-github-repository: other"}, a \in {"off", "on"}}
  \cup {[Base EXCEPT !.store = "git", !.token = t, !.route = r, !.public = p, !.internal = i] :
     t \in BOOLEAN, r \in {"off", "on", "only"}, p \in 1..MaxPort, i \in 0..MaxPort}

MCGitKeys == {<<"example", "example">>, <<"example", "own">>, <<"own", "example">>}
=============================================================================
