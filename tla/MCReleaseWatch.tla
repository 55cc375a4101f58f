--------------------------- MODULE MCReleaseWatch ---------------------------
(* The surroundings of a release on small scenes.                            *)
EXTENDS ReleaseWatch

\* sites-available and sites-enabled
Host(x, xOn, y, yOn) ==
    [available |-> [n \in VhostNames |-> IF n = "x.conf" THEN x ELSE y],
     enabled |-> [n \in VhostNames |-> IF n = "x.conf" THEN xOn ELSE yOn]]

NoBudget == [changes |-> 0, faults |-> 0, narrow |-> 0, forced |-> 0, calls |-> 0]
Still == [ready |-> {}, auth |-> {}, browser |-> {}, narrow |-> {}, deployed |-> {}, callers |-> {},
          force |-> FALSE, pages |-> FALSE, gates |-> <<>>, vhosts |-> {},
          hosts |-> {Host(NoFile, NoFile, NoFile, NoFile)},
          protect |-> [units |-> {}, parts |-> <<>>], left |-> NoBudget]
Pages == [Still EXCEPT !.pages = TRUE]

\* a file edited since the commit, edited once more, and committed
Edited == [head |-> "c1", changed |-> 1, text |-> "one"]
MCTrees == {Edited, [Edited EXCEPT !.text = "two"], [head |-> "c2", changed |-> 0, text |-> "one"]}

Pinned == [kind |-> "test", repo |-> "shared", files |-> {"release"}, pinned |-> TRUE, base |-> FALSE]
Again == [Pinned EXCEPT !.pinned = FALSE]
Both == [Again EXCEPT !.files = {"release", "update"}]
Open == [Pinned EXCEPT !.kind = "open", !.files = {}]
Record == [Pinned EXCEPT !.kind = "record", !.repo = "host", !.files = {"proofs"}, !.pinned = FALSE]
OnSite == [Record EXCEPT !.kind = "test", !.files = {"smoke"}, !.base = TRUE]

InX(t) == [name |-> "x.conf", text |-> t]
InY(t) == [name |-> "y.conf", text |-> t]
\* a commit that moves the zone to the first file, and one with a mistake in the second
VhostSets == {[who |-> "deploy", files |-> <<InX("zone"), InY("plain")>>],
            [who |-> "deploy", files |-> <<InX("plain"), InY("bad")>>],
            [who |-> "person", files |-> <<InY("zone")>>]}
\* nothing yet; both there; a file that is not linked beside a plain copy
Hosts == {Host(NoFile, NoFile, NoFile, NoFile), Host("plain", "link", "zone", "link"),
          Host("plain", NoFile, "plain", "zone")}
BothInstalled == {Host("plain", "link", "zone", "link")}

\* Media's readiness, and a sum over two units
Part(kind, field, add) == [kind |-> kind, field |-> field, add |-> add]
Media == [units |-> {"media"}, parts |-> <<Part("field", "recordings", {"uploads"})>>]
Summed == [units |-> {"web", "worker"}, parts |-> <<Part("array", "streams", {}), Part("field", "jobs", {"sockets"})>>]

MCScenes == {
    \* a service that stops being ready and comes back, under two faults
    [Pages EXCEPT !.ready = {"a"}, !.left = [NoBudget EXCEPT !.changes = 2, !.faults = 2]],
    \* the sign-in of two sites
    [Pages EXCEPT !.auth = {"a", "b"}, !.left = [NoBudget EXCEPT !.changes = 2, !.faults = 1]],
    \* and a run with --sites beside the timer's
    [Pages EXCEPT !.auth = {"a", "b"}, !.narrow = {"a"}, !.left = [NoBudget EXCEPT !.changes = 1, !.narrow = 1]],
    \* deploys and a rollback under the browser check, forced runs beside it
    [Pages EXCEPT !.browser = {"a"}, !.deployed = {"a"}, !.left = [NoBudget EXCEPT !.changes = 2, !.faults = 1]],
    [Pages EXCEPT !.browser = {"a"}, !.deployed = {"a"},
                  !.left = [NoBudget EXCEPT !.changes = 2, !.forced = 1]],
    \* announcements of a service that is deployed and rolled back meanwhile
    [Still EXCEPT !.deployed = {"a"}, !.callers = {"deploy", "operator"},
                  !.left = [NoBudget EXCEPT !.changes = 2, !.faults = 1, !.calls = 3]],
    [Still EXCEPT !.deployed = {"a"}, !.callers = {"deploy", "operator"}, !.force = TRUE,
                  !.left = [NoBudget EXCEPT !.changes = 1, !.faults = 2, !.calls = 2]],
    \* vhosts of a repository and of a person, one of them cut short
    [Still EXCEPT !.vhosts = VhostSets, !.hosts = Hosts,
                  !.left = [NoBudget EXCEPT !.calls = 2, !.faults = 1]],
    [Still EXCEPT !.vhosts = VhostSets, !.hosts = BothInstalled, !.left = [NoBudget EXCEPT !.calls = 3]],
    \* visitors come and go while the sessions are counted
    [Still EXCEPT !.protect = Media, !.left = [NoBudget EXCEPT !.changes = 1, !.faults = 2, !.calls = 2]],
    [Still EXCEPT !.protect = Summed, !.left = [NoBudget EXCEPT !.changes = 2, !.faults = 1, !.calls = 1]],
    \* the acceptance suite: gates that share a test, one with two, a record and a site's gate
    [Still EXCEPT !.gates = <<Pinned, Again>>],
    [Still EXCEPT !.gates = <<Both, Open>>],
    [Still EXCEPT !.gates = <<Record, OnSite>>]}

MediaScenes == {s \in MCScenes : s.protect = Media}

\* Init, where each test of a table with two of them fails at one tree at most: a mix of two
\* contents is met with less
MCInit ==
    /\ Init
    /\ Cardinality(Files) > 1 => \A f \in Files : Cardinality({t \in Trees : truth[f][t] # "pass"}) <= 1

MCSpec == MCInit /\ [][Next]_vars /\ Fairness

=============================================================================
