----------------------------- MODULE Acceptance -----------------------------
(* scripts/release-acceptance.js and lib/acceptance.js: before a release,    *)
(* gates are judged one after another by tests run in their repositories,    *)
(* while people go on working in those repositories.  A test file runs once  *)
(* and the gates share its output; each gate's pins are read when the gate   *)
(* is judged.  What a test prints, measures and is allowed is its outcome.      *)
(* git answers.                                                              *)
EXTENDS Naturals, Sequences

CONSTANTS Repos,
          Trees,        \* what a checkout may hold: [head, changed, text], changed uncommitted files
          FirstTree     \* what the checkouts hold at first

VARIABLES gates,        \* the table, in order: [kind, repo, files, pinned, base]
          tree,         \* the tree each repository is at
          truth,        \* what a test file does at a tree of its repository
          pins,         \* the trees whose tests still assert what the gates rest on
          suite,        \* the run
          unseen        \* history: the repositories that came to look again as they did when recorded

acceptVars == <<gates, tree, truth, pins, suite, unseen>>

Outcomes == {"pass", "fail", "skipped"}
Files == UNION {{<<gates[i].repo, f>> : f \in gates[i].files} : i \in DOMAIN gates}
Results == Outcomes \cup {"open"}
NotRun == "notRun"

AcceptInit ==
    /\ tree = [r \in Repos |-> FirstTree] /\ unseen = {}
    /\ suite = [at |-> "start", before |-> tree, after |-> tree, rows |-> <<>>,
                cache |-> [f \in Files |-> NotRun], base |-> FALSE]

Gate == gates[Len(suite.rows) + 1]
TestsOf(g) == {<<g.repo, f>> : f \in g.files}

(* What recordVersions notes of a checkout: the commit, and how many files   *)
(* git status lists.                                                         *)
Version(t) == <<t.head, t.changed>>

(* Somebody pulls, commits, edits or undoes an edit in a repository of a gate. *)
Work(r) ==
    /\ suite.at # "start" /\ suite.at # "done" /\ \E i \in DOMAIN gates : gates[i].repo = r
    /\ \E t \in Trees \ {tree[r]} :
          /\ tree' = [tree EXCEPT ![r] = t]
          /\ unseen' = IF Version(t) = Version(suite.before[r]) THEN unseen \cup {r} ELSE unseen
    /\ UNCHANGED <<gates, truth, pins, suite>>

RecordVersions ==
    /\ suite.at = "start"
    /\ \E base \in BOOLEAN : suite' = [suite EXCEPT !.at = "gate", !.before = tree, !.base = base]
    /\ UNCHANGED <<gates, tree, truth, pins, unseen>>

(* A gate known to be missing, and one that needs a site that was not given. *)
Unjudged(g) == g.kind = "open" \/ (g.base /\ ~suite.base)
PinsHold(g) == g.pinned => tree[g.repo] \in pins

Judged(result) == [suite EXCEPT !.rows = Append(@, result), !.at = "gate"]

(* Everything a gate is judged by before its tests run.                      *)
OpenGate ==
    /\ suite.at = "gate" /\ Len(suite.rows) < Len(gates)
    /\ suite' = IF Unjudged(Gate) THEN Judged(IF Gate.kind = "open" THEN "open" ELSE "skipped")
                ELSE IF ~PinsHold(Gate) THEN Judged("fail")
                ELSE [suite EXCEPT !.at = "run"]
    /\ UNCHANGED <<gates, tree, truth, pins, unseen>>

Seen(g) == {suite.cache[f] : f \in TestsOf(g)}
Decided(g) == Seen(g) \cap {"skipped", "fail"} # {} \/ Seen(g) = {"pass"}

(* What the file does at the tree it finds: it passes when it exits 0, prints *)
(* every expected line and the value measured in its output is in budget.    *)
Does(f) == truth[f][tree[f[1]]]

(* Its tests run, each once in a run of the suite.                           *)
RunFile(f) ==
    /\ suite.at = "run" /\ ~Decided(Gate) /\ f \in TestsOf(Gate) /\ suite.cache[f] = NotRun
    /\ suite' = [suite EXCEPT !.cache[f] = Does(f)]
    /\ UNCHANGED <<gates, tree, truth, pins, unseen>>

(* The first test that skips or fails decides; a record that is not passed   *)
(* yet leaves its gate open rather than skipped.                             *)
Verdict(g) ==
    CASE Seen(g) = {"pass"} -> {"pass"}
      [] g.kind = "record" /\ "skipped" \in Seen(g) -> {"open"}
      [] OTHER -> Seen(g) \cap {"skipped", "fail"}

CloseGate ==
    /\ suite.at = "run" /\ Decided(Gate)
    /\ \E result \in Verdict(Gate) : suite' = Judged(result)
    /\ UNCHANGED <<gates, tree, truth, pins, unseen>>

RecordAgain_Once ==
    /\ suite.at = "gate" /\ Len(suite.rows) = Len(gates)
    /\ suite' = [suite EXCEPT !.at = "done", !.after = suite.before]
    /\ UNCHANGED <<gates, tree, truth, pins, unseen>>
RecordAgain ==
    /\ suite.at = "gate" /\ Len(suite.rows) = Len(gates)
    /\ suite' = [suite EXCEPT !.at = "done", !.after = tree]
    /\ UNCHANGED <<gates, tree, truth, pins, unseen>>

(* The repositories the report says changed during the run.                  *)
ChangedDuringRun == {r \in Repos : Version(suite.after[r]) # Version(suite.before[r])}

(* The exit code: skipped and open gates are never passes, and count against *)
(* a --strict run only.                                                      *)
ExitCode(strict) ==
    LET results == {suite.rows[i] : i \in DOMAIN suite.rows}
    IN  IF "fail" \in results \/ (strict /\ results # {"pass"}) THEN 1 ELSE 0

AcceptNext ==
    \/ RecordVersions \/ OpenGate \/ CloseGate \/ RecordAgain
    \/ \E f \in Files : RunFile(f)
    \/ \E r \in Repos : Work(r)

-----------------------------------------------------------------------------
AcceptTypeOK ==
    /\ tree \in [Repos -> Trees] /\ pins \subseteq Trees /\ unseen \subseteq Repos
    /\ suite.rows \in Seq(Results) /\ Len(suite.rows) <= Len(gates)

(* What a report says of a repository it does not name as changed is true of *)
(* what the repository held when it was recorded: a gate that passed there   *)
(* has its pins and passes its tests on that, and a run that exits 0 hides   *)
(* no failing test of a gate it judged.  Not so where somebody left the      *)
(* commit and the number of uncommitted files as they were recorded: the two *)
(* are all that is compared.                                                 *)
PassIsProven ==
    suite.at = "done" =>
      \A i \in DOMAIN gates :
         LET g == gates[i]
             shown == suite.before[g.repo]
             ThenDid(f) == truth[f][shown]
         IN  g.kind # "open" /\ g.repo \notin ChangedDuringRun \cup unseen =>
               /\ suite.rows[i] = "pass" => (g.pinned => shown \in pins) /\ \A f \in TestsOf(g) : ThenDid(f) = "pass"
               /\ ExitCode(FALSE) = 0 /\ suite.rows[i] # "skipped" => \A f \in TestsOf(g) : ThenDid(f) # "fail"
               /\ ExitCode(TRUE) = 0 => \A f \in TestsOf(g) : ThenDid(f) = "pass"

(* "A repository that moved while its tests ran is named" (acceptance.js:837).*)
(* Not one with an uncommitted file that is edited once more.                *)
MovedIsNamed ==
    suite.at = "done" => \A r \in Repos : suite.after[r] # suite.before[r] => r \in ChangedDuringRun
=============================================================================
