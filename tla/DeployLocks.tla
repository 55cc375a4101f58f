---------------------------- MODULE DeployLocks ----------------------------
(***************************************************************************)
(* The two locks an operator command holds: the pid lock file of its       *)
(* service (lib/lock.js) and, for a deploy or a rollback, the host-wide    *)
(* kernel flock taken after it (lib/deploy-guard.js), given back while the *)
(* command waits for protected sessions to end.                            *)
(*                                                                         *)
(* An operation is one ovhost process.  The steps of lock.acquire are the  *)
(* system calls the other processes can run between: open(O_EXCL), write,  *)
(* read, kill(pid, 0), unlink, open(O_EXCL) again.                         *)
(***************************************************************************)
EXTENDS FiniteSets, Naturals

CONSTANTS
    Ops,        \* operator commands, each one process with a pid of its own
    Deploys,    \* the ones that deploy or roll back: they take the host lock
    Services,   \* names of lock files
    SvcOf,      \* SvcOf[o]: the lock file o takes
    NoOp        \* "nobody"

ASSUME DeploysAssumption == Deploys \subseteq Ops
ASSUME SvcOfAssumption == SvcOf \in [Ops -> Services]
ASSUME NoOpAssumption == NoOp \notin Ops

VARIABLES
    lockFile,   \* per service: who created the file now at the path, if one is there
    written,    \* the services whose lock file has its body
    hostLock,   \* the operation whose flock child holds the kernel lock
    pc,         \* where each operation is
    seen,       \* the pid each operation read from a lock file it found
    moved,      \* the operations that have moved their service's checkout
    waited,     \* the session guards (before, after the move) that made it wait
    stolen      \* history: the services where a live operation's lock file was removed as stale

vars == <<lockFile, written, hostLock, pc, seen, moved, waited, stolen>>

FileOf(o) == lockFile[SvcOf[o]]

Acquiring == {"write", "read", "probe", "remove", "recreate"}
Holding == {"queue", "work", "wait", "requeue", "restore", "unhost", "unlock"}
Ended == {"done", "refused", "dead"}
PCs == {"start"} \cup Acquiring \cup Holding \cup Ended

\* The two calls of guardSessions in one operation.
Guards == {"before the checkout moves", "immediately before the restart"}
Guard(o) == IF o \in moved THEN "immediately before the restart" ELSE "before the checkout moves"

\* kill(pid, 0): the process exists.
Alive(o) == pc[o] \notin Ended

TypeOK ==
    /\ lockFile \in [Services -> Ops \cup {NoOp}]
    /\ written \subseteq Services
    /\ hostLock \in Ops \cup {NoOp}
    /\ pc \in [Ops -> PCs]
    /\ seen \in [Ops -> Ops \cup {NoOp}]
    /\ moved \subseteq Ops
    /\ waited \in [Ops -> SUBSET Guards]
    /\ stolen \subseteq Services

Init ==
    /\ lockFile = [s \in Services |-> NoOp]
    /\ written = {}
    /\ hostLock = NoOp
    /\ pc = [o \in Ops |-> "start"]
    /\ seen = [o \in Ops |-> NoOp]
    /\ moved = {}
    /\ waited = [o \in Ops |-> {}]
    /\ stolen = {}

Goto(o, label) == pc' = [pc EXCEPT ![o] = label]

-----------------------------------------------------------------------------
(* lib/lock.js: acquire *)

\* Mutant: the lock file is opened without O_EXCL.
OpenExclusive_Overwrites(o, otherwise) ==
    /\ lockFile' = [lockFile EXCEPT ![SvcOf[o]] = o]
    /\ Goto(o, "write")
    /\ UNCHANGED <<written, hostLock, seen, moved, waited, stolen>>

\* createExclusive opens with O_EXCL: the file exists, empty, before its body does.
OpenExclusive(o, otherwise) ==
    /\ IF FileOf(o) = NoOp
       THEN /\ lockFile' = [lockFile EXCEPT ![SvcOf[o]] = o]
            /\ Goto(o, "write")
       ELSE /\ Goto(o, otherwise)
            /\ UNCHANGED lockFile
    /\ UNCHANGED <<written, hostLock, seen, moved, waited, stolen>>

Create(o) == pc[o] = "start" /\ OpenExclusive(o, "read")

\* The body goes to the inode this process created, whether or not the path still names it.
WriteBody(o) ==
    /\ pc[o] = "write"
    /\ written' = IF FileOf(o) = o THEN written \cup {SvcOf[o]} ELSE written
    /\ Goto(o, IF o \in Deploys THEN "queue" ELSE "work")
    /\ UNCHANGED <<lockFile, hostLock, seen, moved, waited, stolen>>

\* Mutant: a file that does not parse is taken for a held lock.
Read_EmptyIsHeld(o) ==
    /\ pc[o] = "read"
    /\ IF SvcOf[o] \in written
       THEN Goto(o, "probe") /\ seen' = [seen EXCEPT ![o] = FileOf(o)]
       ELSE Goto(o, "refused") /\ UNCHANGED seen
    /\ UNCHANGED <<lockFile, written, hostLock, moved, waited, stolen>>

\* A file that is gone, empty or half written does not parse and counts as stale.
Read(o) ==
    /\ pc[o] = "read"
    /\ IF SvcOf[o] \in written
       THEN Goto(o, "probe") /\ seen' = [seen EXCEPT ![o] = FileOf(o)]
       ELSE Goto(o, "remove") /\ UNCHANGED seen
    /\ UNCHANGED <<lockFile, written, hostLock, moved, waited, stolen>>

ProbeHolder(o) ==
    /\ pc[o] = "probe"
    /\ Goto(o, IF Alive(seen[o]) THEN "refused" ELSE "remove")
    /\ UNCHANGED <<lockFile, written, hostLock, seen, moved, waited, stolen>>

\* unlink by path: it removes whatever file is there by now.
Unlink(o) ==
    /\ lockFile' = [lockFile EXCEPT ![SvcOf[o]] = NoOp]
    /\ written' = written \ {SvcOf[o]}

RemoveStale(o) ==
    /\ pc[o] = "remove"
    /\ Unlink(o)
    /\ stolen' = IF FileOf(o) # NoOp /\ Alive(FileOf(o)) THEN stolen \cup {SvcOf[o]} ELSE stolen
    /\ Goto(o, "recreate")
    /\ UNCHANGED <<hostLock, seen, moved, waited>>

Recreate(o) == pc[o] = "recreate" /\ OpenExclusive(o, "refused")

\* held.release(): unlink by path again.
ReleaseService(o) ==
    /\ pc[o] = "unlock"
    /\ Unlink(o)
    /\ Goto(o, "done")
    /\ UNCHANGED <<hostLock, seen, moved, waited, stolen>>

-----------------------------------------------------------------------------
(* lib/deploy-guard.js, and the parts of release-ops.apply around it *)

AcquireHost(o) ==
    /\ pc[o] \in {"queue", "requeue"}
    /\ hostLock = NoOp
    /\ hostLock' = o
    /\ Goto(o, "work")
    /\ UNCHANGED <<lockFile, written, seen, moved, waited, stolen>>

\* flock -w gave up.  After the checkout moved, apply's inner catch still puts it back.
HostTimeout(o) ==
    /\ pc[o] \in {"queue", "requeue"}
    /\ hostLock # NoOp
    /\ Goto(o, IF o \in moved THEN "restore" ELSE "unlock")
    /\ UNCHANGED <<lockFile, written, hostLock, seen, moved, waited, stolen>>

\* The checkout moves between the two session guards.
MoveCheckout(o) ==
    /\ pc[o] = "work" /\ o \in Deploys /\ o \notin moved
    /\ moved' = moved \cup {o}
    /\ UNCHANGED <<lockFile, written, hostLock, pc, seen, waited, stolen>>

\* Mutant: the deploy polls for idle with the host lock held.
IdleWait_KeepsHostLock(o) ==
    /\ pc[o] = "work" /\ o \in Deploys /\ Guard(o) \notin waited[o]
    /\ waited' = [waited EXCEPT ![o] = @ \cup {Guard(o)}]
    /\ Goto(o, "wait")
    /\ UNCHANGED <<lockFile, written, hostLock, seen, moved, stolen>>

\* waitOutsideLock: each of the two guards polls at most once, without the host lock.
IdleWait(o) ==
    /\ pc[o] = "work" /\ o \in Deploys /\ Guard(o) \notin waited[o]
    /\ hostLock' = NoOp
    /\ waited' = [waited EXCEPT ![o] = @ \cup {Guard(o)}]
    /\ Goto(o, "wait")
    /\ UNCHANGED <<lockFile, written, seen, moved, stolen>>

\* Mutant: the deploy continues without taking the host lock back.
EndIdleWait_NoRelock(o) ==
    /\ pc[o] = "wait"
    /\ Goto(o, "work")
    /\ UNCHANGED <<lockFile, written, hostLock, seen, moved, waited, stolen>>

\* Idle, or gave up: either way waitOutsideLock's finally takes the host lock back.
EndIdleWait(o) ==
    /\ pc[o] = "wait"
    /\ Goto(o, "requeue")
    /\ UNCHANGED <<lockFile, written, hostLock, seen, moved, waited, stolen>>

Restored(o) ==
    /\ pc[o] = "restore"
    /\ Goto(o, "unlock")
    /\ UNCHANGED <<lockFile, written, hostLock, seen, moved, waited, stolen>>

\* The operation returned or threw: apply's finally.
Finish(o) ==
    /\ pc[o] = "work"
    /\ Goto(o, IF o \in Deploys THEN "unhost" ELSE "unlock")
    /\ UNCHANGED <<lockFile, written, hostLock, seen, moved, waited, stolen>>

ReleaseHost(o) ==
    /\ pc[o] = "unhost"
    /\ hostLock' = NoOp
    /\ Goto(o, "unlock")
    /\ UNCHANGED <<lockFile, written, seen, moved, waited, stolen>>

-----------------------------------------------------------------------------
(* The process dies; its flock child reads end-of-file a little later. *)

Crash(o) ==
    /\ pc[o] \in Acquiring \cup Holding
    /\ Goto(o, "dead")
    /\ UNCHANGED <<lockFile, written, hostLock, seen, moved, waited, stolen>>

KernelReleasesHostLock ==
    /\ hostLock # NoOp /\ pc[hostLock] = "dead"
    /\ hostLock' = NoOp
    /\ UNCHANGED <<lockFile, written, pc, seen, moved, waited, stolen>>

-----------------------------------------------------------------------------
\* What the process does by itself, without waiting for people or giving up.
Progress(o) ==
    \/ Create(o) \/ WriteBody(o) \/ Read(o) \/ ProbeHolder(o) \/ RemoveStale(o) \/ Recreate(o)
    \/ AcquireHost(o) \/ Restored(o) \/ Finish(o) \/ ReleaseHost(o) \/ ReleaseService(o)

Next ==
    \/ \E o \in Ops : \/ Progress(o) \/ HostTimeout(o) \/ MoveCheckout(o)
                      \/ IdleWait(o) \/ EndIdleWait(o) \/ Crash(o)
    \/ KernelReleasesHostLock

Spec == Init /\ [][Next]_vars

\* A process that can run does; nobody promises that sessions ever end.
Fairness == WF_vars(KernelReleasesHostLock) /\ \A o \in Ops : WF_vars(Progress(o))
FairSpec == Spec /\ Fairness

\* The same system when no two operations are inside lock.acquire for one service at once.
Acquirers(s) == {o \in Ops : SvcOf[o] = s /\ pc[o] \in Acquiring}
OneAcquirer == \A o, p \in Ops : SvcOf[o] = SvcOf[p] /\ pc[o] \in Acquiring /\ pc[p] \in Acquiring => o = p
SerialSpec == Init /\ [][Next /\ OneAcquirer']_vars

-----------------------------------------------------------------------------
\* "One operation per service at a time" (lib/lock.js:2): two operations that
\* both returned from lock.acquire on one service are the same operation.
OneOperationPerService ==
    \A o, p \in Ops : SvcOf[o] = SvcOf[p] /\ pc[o] \in Holding /\ pc[p] \in Holding => o = p

\* What lock.acquire does give under every interleaving and crash: as long as
\* no live operation's file was taken for a stale one, the lock is exclusive.
ExclusiveUnlessStolen ==
    \A o, p \in Ops :
        /\ SvcOf[o] = SvcOf[p] /\ SvcOf[o] \notin stolen
        /\ pc[o] \in Holding /\ pc[p] \in Holding
        => o = p

\* Preparing, installing, building or restarting, or putting all that back.
Changing(o) == o \in Deploys /\ pc[o] \in {"work", "restore"}

\* The second guard let it wait, the host lock did not come back, and apply's inner
\* catch puts the checkout back, installing and building, without it.
RestoresUnlocked(o) == pc[o] = "restore" /\ o \in moved /\ "immediately before the restart" \in waited[o]

\* The host lock serialises deploys across services through idle waits, timeouts and
\* crashes: two of them never prepare, install, build or restart at the same time,
\* unless one puts back a checkout after an idle wait from which the lock did not return.
OneDeployWorks ==
    \A o, p \in Ops :
        Changing(o) /\ Changing(p) => o = p \/ RestoresUnlocked(o) \/ RestoresUnlocked(p)

\* "Deploys and rollbacks take one host-wide kernel lock [...] The lock remains held
\* through preflight, switching, restart, readiness and automatic rollback"
\* (docs/deploy-strategies.md:24): no two deploys change the host at once.
OneDeployChanges == \A o, p \in Ops : Changing(o) /\ Changing(p) => o = p

\* A lock file left by a crash, at whatever step the crash came, never keeps the
\* next operation out: once the others are over, an operation that starts gets
\* its lock (or dies itself).
LeftoverNeverBlocks ==
    \A o \in Ops :
        (pc[o] = "start" /\ \A p \in Ops \ {o} : SvcOf[p] = SvcOf[o] => pc[p] \in Ended)
            ~> pc[o] \in Holding \cup {"done", "dead"}

\* A deploy waiting for streams to end, however long, does not hold up the
\* deploys of other services: whoever queues for the host lock leaves the queue.
QueueMoves == \A o \in Ops : pc[o] = "queue" ~> pc[o] # "queue"
=============================================================================
