----------------------------- MODULE Benchmarks -----------------------------
(***************************************************************************)
(* Benchmarks people run on their own servers                              *)
(* (server/catalog/benchmarks.js), beside the catalog they name plans of.  *)
(* A person asks for a link naming a plan; the benchmark script posts its  *)
(* result to the link; the first post spends it.  The link's row is locked *)
(* while a post checks and spends it; nothing is locked while a person's   *)
(* links of the day are counted.                                           *)
(***************************************************************************)
EXTENDS Catalog

CONSTANTS
    Links, Posters,     \* links that may be made; posts under way at a time
    LinkLife, Day,      \* how long a link works; the span a person's links are counted over
    LinksPerDay

VARIABLES
    asked,      \* per link: the plan it is asked for, while its row is being made
    link,       \* per link: when made and used, the plan it names, its results
    post        \* per poster: the link, the moment it began, where it is

benchVars == <<asked, link, post>>
siteVars == <<catalogVars, benchVars>>

LinkTypes == [plan : Plans, made : Nat, used : Nat \cup {None}, results : SUBSET Posters]
PostTypes == [link : Links, now : Nat, at : {"parsed", "locked"}]
AskTypes == [plan : Plans, now : Nat]
ASSUME BenchAssumption ==
    /\ {LinkLife, Day, LinksPerDay} \subseteq Nat
    /\ None \notin LinkTypes /\ None \notin PostTypes /\ None \notin AskTypes

Unused(l, now) == link[l] # None /\ link[l].used = None /\ link[l].made + LinkLife > now

\* The person's links of the day are counted, and the plan must be on sale.
AskLink(l, plan) ==
    /\ scene.benchmarks /\ link[l] = None /\ asked[l] = None /\ Active(plan)
    /\ Cardinality({k \in Links : link[k] # None /\ link[k].made > clock - Day}) < LinksPerDay
    /\ asked' = [asked EXCEPT ![l] = [plan |-> plan, now |-> clock]]
    /\ UNCHANGED <<link, post>>

\* Then the link is made: requests that counted together all get theirs.
MakeLink(l) ==
    /\ asked[l] # None
    /\ link' = [link EXCEPT ![l] = [plan |-> asked[l].plan, made |-> asked[l].now, used |-> None, results |-> {}]]
    /\ asked' = [asked EXCEPT ![l] = None]
    /\ UNCHANGED post

\* Before the body is read the link is looked at without its lock; the moment
\* that counts is taken then, the body's own checks follow.
PostBegin(p, l) ==
    /\ post[p] = None /\ link[l] # None
    /\ Unused(l, clock)
    /\ post' = [post EXCEPT ![p] = [link |-> l, now |-> clock, at |-> "parsed"]]
    /\ UNCHANGED <<asked, link>>

\* A body that is no result is refused before anything is spent.
PostRefused(p) ==
    /\ post[p] # None /\ post[p].at = "parsed"
    /\ post' = [post EXCEPT ![p] = None]
    /\ UNCHANGED <<asked, link>>

Locked(l) == \E p \in Posters : post[p] # None /\ post[p].link = l /\ post[p].at = "locked"

\* Mutant: the lookup before the body was read is trusted.
PostLock_Trusting(p) ==
    /\ post[p] # None /\ post[p].at = "parsed" /\ ~Locked(post[p].link)
    /\ post' = [post EXCEPT ![p].at = "locked"]
    /\ UNCHANGED <<asked, link>>

\* The link's row is locked and looked at again: a spent or expired one refuses the post.
PostLock(p) ==
    /\ post[p] # None /\ post[p].at = "parsed" /\ ~Locked(post[p].link)
    /\ post' = [post EXCEPT ![p] = IF Unused(post[p].link, post[p].now) THEN [@ EXCEPT !.at = "locked"] ELSE None]
    /\ UNCHANGED <<asked, link>>

\* The link is spent and the result stored in one transaction.
PostCommit(p) ==
    /\ post[p] # None /\ post[p].at = "locked"
    /\ link' = [link EXCEPT ![post[p].link].used = post[p].now, ![post[p].link].results = @ \cup {p}]
    /\ post' = [post EXCEPT ![p] = None]
    /\ UNCHANGED asked

BenchNext ==
    \/ \E l \in Links : (\E plan \in Plans : AskLink(l, plan)) \/ MakeLink(l) \/ (\E p \in Posters : PostBegin(p, l))
    \/ \E p \in Posters : PostRefused(p) \/ PostLock(p) \/ PostCommit(p)

SiteInit == CatalogInit /\ asked = [l \in Links |-> None] /\ link = [l \in Links |-> None] /\ post = [p \in Posters |-> None]

\* A restart rolls the posts back with everything else.
SiteNext ==
    \/ BenchNext /\ UNCHANGED catalogVars
    \/ CatalogNext /\ UNCHANGED link
       /\ IF restarts' = restarts THEN UNCHANGED <<asked, post>>
          ELSE asked' = [l \in Links |-> None] /\ post' = [p \in Posters |-> None]

\* The timers keep pulling and sweeping.
SiteSpec ==
    /\ SiteInit /\ [][SiteNext]_siteVars
    /\ WF_siteVars(Pulling /\ UNCHANGED benchVars)
    /\ WF_siteVars(Sweeping /\ UNCHANGED benchVars)

-----------------------------------------------------------------------------
\* A link is spent by exactly one result, whatever posts race for it and
\* wherever the process is restarted (server/catalog/benchmarks.js:128).
LinkSpentOnce ==
    \A l \in Links : link[l] # None =>
        Cardinality(link[l].results) = IF link[l].used = None THEN 0 ELSE 1
=============================================================================
