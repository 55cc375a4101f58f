------------------------------- MODULE Vhosts -------------------------------
(* nginx.install (lib/nginx.js): a deploy installs the vhosts its repository *)
(* holds, a person the one ovhost nginx render made, and no lock keeps the   *)
(* two apart.  A file in sites-available is replaced, and linked into        *)
(* sites-enabled when nothing is there; then nginx -t, and a reload or the   *)
(* old files again.                                                          *)
(*                                                                           *)
(* Of a text nginx -t can tell: a zone that another file declares as well,   *)
(* and a mistake.  No caller passes install a file to remove.                *)
EXTENDS HealthChecks, Sequences

CONSTANT VhostNames

VARIABLES available,    \* the text of each file in sites-available
          enabled,      \* what is in sites-enabled: the link, or a plain copy
          loaded,       \* what nginx serves of each
          install,      \* the calls
          loose         \* history: since the last reload a call was cut short, or two overlapped

vhostVars == <<available, enabled, loaded, install, loose>>

Installers == {"deploy", "person"}
Texts == {"plain", "zone", "bad", "empty"}
NoFile == "none"
VhostFiles == [name : VhostNames, text : Texts]
Rests == {"idle", "refused", "installed", "unchanged", "cut"}
Uninstalled == [at |-> "idle", asked |-> <<>>, todo |-> <<>>, prev |-> NoFile, undo |-> <<>>,
                changed |-> FALSE, found |-> <<>>, alone |-> TRUE]

\* What the include of sites-enabled finds.
Served ==
    [n \in VhostNames |-> IF enabled[n] # "link" THEN enabled[n]
                          ELSE IF available[n] = NoFile THEN "dangling" ELSE available[n]]

\* nginx -t
Clean ==
    /\ \A n \in VhostNames : Served[n] \notin {"bad", "dangling"}
    /\ \A m, n \in VhostNames : Served[m] = "zone" /\ Served[n] = "zone" => m = n

AvailTypes == [VhostNames -> Texts \cup {NoFile}]
EnabledTypes == [VhostNames -> Texts \cup {NoFile, "link"}]

\* The files of a call are those of one directory, or a single one (lib/release-ops.js:353-366).
ASSUME VhostsAssumption ==
    \A s \in Scenes :
       /\ \A v \in s.vhosts : /\ v.files \in Seq(VhostFiles)
                              /\ \A i, j \in DOMAIN v.files : v.files[i].name = v.files[j].name => i = j
       /\ \A host \in s.hosts : host.available \in AvailTypes /\ host.enabled \in EnabledTypes

VhostsTypeOK ==
    /\ available \in AvailTypes
    /\ enabled \in EnabledTypes
    /\ loaded \in [VhostNames -> Texts \cup {NoFile}]
    /\ DOMAIN install = Installers /\ loose \in BOOLEAN
    /\ \A w \in Installers :
          install[w].at \in Rests \cup {"read", "write", "stat", "link", "test", "undo", "reload"}

VhostsInit ==
    /\ \E host \in scene.hosts : available = host.available /\ enabled = host.enabled
    /\ Clean /\ loaded = Served
    /\ install = [w \in Installers |-> Uninstalled] /\ loose = FALSE

\* The sets of files the repository holds at its commits, and the ones the inventory renders.
RepoVhosts == {v.files : v \in {s \in scene.vhosts : s.who = "deploy"}}
Rendered == {v.files : v \in {s \in scene.vhosts : s.who = "person"}}
Asked(w) == IF w = "deploy" THEN RepoVhosts ELSE Rendered

OthersRest(w) == \A o \in Installers \ {w} : install[o].at \in Rests
File(w) == Head(install[w].todo)

-----------------------------------------------------------------------------
Begin(w) ==
    /\ install[w].at \in Rests /\ Spend("calls")
    /\ \E files \in Asked(w) :
          install' = [o \in Installers |->
             IF o = w THEN [Uninstalled EXCEPT !.at = "read", !.asked = files, !.todo = files,
                                               !.found = <<available, enabled>>, !.alone = OthersRest(w)]
             ELSE [install[o] EXCEPT !.alone = FALSE]]
    /\ loose' = (loose \/ ~OthersRest(w))
    /\ UNCHANGED <<available, enabled, loaded>>

\* The file there now; after the last file, nginx -t when anything was changed.
Read(w) ==
    /\ install[w].at = "read"
    /\ install' = IF install[w].todo = <<>>
                  THEN [install EXCEPT ![w].at = IF install[w].changed THEN "test" ELSE "unchanged"]
                  ELSE [install EXCEPT ![w].prev = available[File(w).name],
                                       ![w].at = IF available[File(w).name] = File(w).text THEN "stat" ELSE "write"]
    /\ UNCHANGED <<available, enabled, loaded, loose, left>>

Write(w) ==
    /\ install[w].at = "write"
    /\ available' = [available EXCEPT ![File(w).name] = File(w).text]
    /\ install' = [install EXCEPT ![w].undo = Append(@, [name |-> File(w).name, put |-> install[w].prev]),
                                  ![w].changed = TRUE, ![w].at = "stat"]
    /\ UNCHANGED <<enabled, loaded, loose, left>>

\* A link to a file that is not there counts as nothing there.
Enabled(n) == enabled[n] # NoFile /\ (enabled[n] = "link" => available[n] # NoFile)

Stat(w) ==
    /\ install[w].at = "stat"
    /\ install' = IF Enabled(File(w).name) THEN [install EXCEPT ![w].at = "read", ![w].todo = Tail(@)]
                  ELSE [install EXCEPT ![w].at = "link"]
    /\ UNCHANGED <<available, enabled, loaded, loose, left>>

\* Mutant: the new link is not taken out again.
Linked_NoUndo(w) ==
    [install EXCEPT ![w].changed = TRUE, ![w].at = "read", ![w].todo = Tail(@)]
Linked(w) ==
    [install EXCEPT ![w].undo = Append(@, [name |-> File(w).name, put |-> "unlink"]),
                    ![w].changed = TRUE, ![w].at = "read", ![w].todo = Tail(@)]

\* The call throws where it is: what it wrote stays, and nginx is not reloaded.
Throw(w) == install' = [install EXCEPT ![w].at = "cut"] /\ loose' = TRUE

Symlink(w) ==
    /\ install[w].at = "link"
    /\ IF enabled[File(w).name] = NoFile
       THEN /\ enabled' = [enabled EXCEPT ![File(w).name] = "link"]
            /\ install' = Linked(w) /\ loose' = loose
       ELSE Throw(w) /\ enabled' = enabled     \* EEXIST
    /\ UNCHANGED <<available, loaded, left>>

Test(w) ==
    /\ install[w].at = "test"
    /\ install' = [install EXCEPT ![w].at = IF Clean THEN "reload" ELSE "undo"]
    /\ UNCHANGED <<available, enabled, loaded, loose, left>>

\* The last change first.
UndoOne(w) ==
    /\ install[w].at = "undo"
    /\ LET undo == install[w].undo
           u == undo[Len(undo)]
       IN  IF undo = <<>> THEN /\ install' = [install EXCEPT ![w].at = "refused"]
                               /\ UNCHANGED <<available, enabled>>
           ELSE /\ install' = [install EXCEPT ![w].undo = SubSeq(undo, 1, Len(undo) - 1)]
                /\ enabled' = IF u.put = "unlink" THEN [enabled EXCEPT ![u.name] = NoFile] ELSE enabled
                /\ available' = IF u.put = "unlink" THEN available ELSE [available EXCEPT ![u.name] = u.put]
    /\ UNCHANGED <<loaded, loose, left>>

\* systemctl reload nginx fails when somebody else spoilt the files since nginx -t.
Reload(w) ==
    /\ install[w].at = "reload"
    /\ IF Clean THEN /\ loaded' = Served
                     /\ install' = [install EXCEPT ![w].at = "installed"]
                     /\ loose' = (loose /\ ~OthersRest(w))
                ELSE Throw(w) /\ loaded' = loaded
    /\ UNCHANGED <<available, enabled, left>>

\* ovhost is killed, a command fails, or a write does, perhaps with the file emptied already.
CutShort(w) ==
    /\ install[w].at \notin Rests /\ Spend("faults") /\ Throw(w)
    /\ available' \in {available} \cup
                      (IF install[w].at = "write" THEN {[available EXCEPT ![File(w).name] = "empty"]} ELSE {})
    /\ UNCHANGED <<enabled, loaded>>

VhostsNext ==
    \E w \in Installers :
       \/ Begin(w) \/ Read(w) \/ Write(w) \/ Stat(w) \/ Symlink(w) \/ Test(w) \/ UndoOne(w) \/ Reload(w)
       \/ CutShort(w)

-----------------------------------------------------------------------------
\* "install vhosts safely ... always transactional" (lib/nginx.js:3-8), at rest: what nginx
\* serves is what the files say, unless a call was cut short or two overlapped since the last
\* reload.  A refused call that was alone left every file and link as it found them, and one
\* that went well has its vhosts served, unless a plain copy stands in sites-enabled.
VhostsSettle ==
    (\A w \in Installers : install[w].at \in Rests) =>
       /\ ~loose => Clean /\ loaded = Served
       /\ \A w \in Installers : install[w].alone =>
             /\ install[w].at = "refused" => install[w].found = <<available, enabled>>
             /\ install[w].at = "installed" \/ (install[w].at = "unchanged" /\ ~loose) =>
                   \A i \in DOMAIN install[w].asked :
                      LET v == install[w].asked[i]
                      IN  enabled[v.name] = "link" => loaded[v.name] = v.text
=============================================================================
