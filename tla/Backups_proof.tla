--------------------------- MODULE Backups_proof ---------------------------
(* Machine-checked proofs about Backups, for any services, retention policy,   *)
(* dump interval, faults and bounds, and about the archiver's count (WalCheck),*)
(* for any processes that look at it.                                          *)
EXTENDS Backups, WalCheck, FiniteSetTheorems, FunctionTheorems, TLAPS

-----------------------------------------------------------------------------
(* The retention policy *)

\* Slots that are still later than x's after some backups are gone are no more than before.
LEMMA LaterSlots ==
    ASSUME NEW S, NEW R, IsFiniteSet(R), S \subseteq R, NEW days, NEW n
    PROVE  LET In(T) == {Slot(u, days) : u \in {v \in T : Slot(v, days) > n}} IN
           /\ IsFiniteSet(In(S)) /\ IsFiniteSet(In(R))
           /\ Cardinality(In(S)) <= Cardinality(In(R))
           /\ Cardinality(In(S)) \in Nat /\ Cardinality(In(R)) \in Nat
<1> DEFINE Of(T) == {v \in T : Slot(v, days) > n}
           In(T) == {Slot(u, days) : u \in Of(T)}
<1>1. IsFiniteSet(Of(R))
  <2>1. Of(R) \subseteq R
    OBVIOUS
  <2> HIDE DEF Of
  <2> QED BY <2>1, FS_Subset
<1>2. IsFiniteSet(In(R))
  <2> DEFINE f == [v \in Of(R) |-> Slot(v, days)]
  <2>1. f \in Surjection(Of(R), In(R))
    BY DEF Surjection
  <2> HIDE DEF Of, In
  <2> QED BY <1>1, <2>1, FS_Surjection
<1>3. In(S) \subseteq In(R)
  OBVIOUS
<1> HIDE DEF In, Of
<1>4. IsFiniteSet(In(S)) /\ Cardinality(In(S)) <= Cardinality(In(R))
  BY <1>2, <1>3, FS_Subset
<1>5. Cardinality(In(S)) \in Nat /\ Cardinality(In(R)) \in Nat
  BY <1>2, <1>4, FS_CardinalityType
<1> QED
  <2> USE <1>2, <1>4, <1>5 DEF In, Of
  <2> QED OBVIOUS

\* What one kind of slot keeps of a set, it keeps of every subset that still has it.
LEMMA NewestPerSubset ==
    ASSUME NEW S, NEW R, IsFiniteSet(R), S \subseteq R, NEW days, NEW k \in Int,
           NEW x \in S, x \in NewestPer(R, days, k)
    PROVE  x \in NewestPer(S, days, k)
<1> DEFINE In(T) == {Slot(u, days) : u \in {v \in T : Slot(v, days) > Slot(x, days)}}
<1>1. Cardinality(In(S)) <= Cardinality(In(R)) /\ Cardinality(In(S)) \in Nat /\ Cardinality(In(R)) \in Nat
  BY LaterSlots
<1>2. Cardinality(In(R)) < k /\ \A u \in R : Slot(u, days) = Slot(x, days) => ~Later(u, x)
  BY DEF NewestPer
<1>3. Cardinality(In(S)) < k
  <2> HIDE DEF In
  <2> QED BY <1>1, <1>2
<1> QED BY <1>2, <1>3 DEF NewestPer

\* So does the whole policy: pruning night after night loses nothing pruning once would keep.
LEMMA KeepSubset ==
    ASSUME NEW S, NEW R, IsFiniteSet(R), S \subseteq R, NEW x \in S, x \in Keep(R)
    PROVE  x \in Keep(S)
BY NewestPerSubset, PolicyAssumption DEF Keep

-----------------------------------------------------------------------------
(* Types *)

\* The nightly run's next service is one of the inventory's.
LEMMA OrderShape ==
    /\ 1 \in DOMAIN Order /\ Len(Order) \in Nat /\ DOMAIN Order = 1..Len(Order)
    /\ \A i \in DOMAIN Order : Order[i] \in Services
BY OrderAssumption DEF Services

\* A run that is under way, or has a summary, has a night.
RunNight == pc["nightly"] # "idle" \/ written # "none" => run \in Nights

\* The first state, before any backup, is well typed.
LEMMA InitTypes == Init => TypeOK
<1> SUFFICES ASSUME Init PROVE TypeOK
  OBVIOUS
<1> USE OrderShape, NightsAssumption, BoundsAssumption DEF Init, Nights
<1>1. night \in Nights /\ stamps \in Nat /\ faults \in 0..MaxFaults /\ byHand \in 0..MaxByHand
  OBVIOUS
<1>2. NoId \in Stamps
  BY DEF NoId, Stamps
<1>3. run \in Nights \cup {Never}
  OBVIOUS
<1> QED BY <1>1, <1>2, <1>3 DEF TypeOK, PCs

\* What a process forgets at the end of a backup, and where it goes.
LEMMA OverTypes ==
    ASSUME TypeOK, NEW a \in Actors, NEW ok \in BOOLEAN, Over(a, ok)
    PROVE  /\ pc' \in [Actors -> PCs] /\ at' \in [Actors -> DOMAIN Order] /\ id' \in [Actors -> Stamps]
           /\ wanted' \in [Actors -> SUBSET Kinds]
           /\ made' \in [Actors -> SUBSET Kinds] /\ failed' \in [Actors -> SUBSET Kinds]
           /\ runOk' \in BOOLEAN
<1> USE OrderShape, NightsAssumption DEF TypeOK, Over, Goto, Actors
<1>1. NoId \in Stamps
  BY DEF NoId, Stamps, Nights
<1>2. /\ id' \in [Actors -> Stamps] /\ wanted' \in [Actors -> SUBSET Kinds]
      /\ made' \in [Actors -> SUBSET Kinds] /\ failed' \in [Actors -> SUBSET Kinds]
  BY <1>1
<1>3. pc' \in [Actors -> PCs] /\ at' \in [Actors -> DOMAIN Order]
  BY DEF PCs
<1>4. runOk' \in BOOLEAN
  BY Zenon
<1> QED BY <1>2, <1>3, <1>4

\* The steps of a backup up to its end.
LEMMA WorkTypes ==
    ASSUME TypeOK, NEW a \in Actors, Verify(a) \/ Unhealthy(a) \/ Copy(a) \/ Move(a)
    PROVE  TypeOK'
<1> USE OrderShape, NightsAssumption, BoundsAssumption
        DEF TypeOK, Fault, Goto, PCs, Working, Kinds, Stamps, Nights, Never, Svc,
            dataVars, workVars, runVars, bucketVars, boundVars
<1>1. CASE Verify(a)
  <2>1. UNCHANGED <<night, dataVars, at, made, failed, runVars, bucketVars, boundVars>>
    BY <1>1 DEF Verify
  <2>2. ASSUME NEW logical, Choose(a, Svc(a), logical)
        PROVE  /\ stamps' \in Nat /\ id' \in [Actors -> Stamps] /\ pc' \in [Actors -> PCs]
               /\ wanted' \in [Actors -> SUBSET Kinds]
    <3>1. <<night, stamps + 1>> \in Stamps /\ stamps + 1 \in Nat
      OBVIOUS
    <3>2. PICK w \in SUBSET Kinds :
             /\ wanted' = [wanted EXCEPT ![a] = w]
             /\ IF w = {} THEN Goto(a, "record") /\ UNCHANGED <<id, stamps>>
                ELSE /\ Goto(a, "copy")
                     /\ stamps' = stamps + 1 /\ id' = [id EXCEPT ![a] = <<night, stamps + 1>>]
      BY <2>2 DEF Choose
    <3>3. CASE UNCHANGED <<id, stamps>> /\ (Goto(a, "record") \/ Goto(a, "copy"))
      BY <3>2, <3>3
    <3>4. CASE Goto(a, "copy") /\ stamps' = stamps + 1 /\ id' = [id EXCEPT ![a] = <<night, stamps + 1>>]
      <4>1. id' \in [Actors -> Stamps]
        <5> HIDE DEF Stamps
        <5> QED BY <3>1, <3>4
      <4> QED BY <3>1, <3>2, <3>4, <4>1
    <3> QED BY <3>2, <3>3, <3>4
  <2>4. ASSUME NEW logical, Choose(a, Svc(a), logical) PROVE TypeOK'
    BY <2>1, <2>2, <2>4
  <2> QED BY <1>1, <2>4 DEF Verify
<1>2. CASE Unhealthy(a)
  BY <1>2 DEF Unhealthy
<1>3. CASE Copy(a)
  <2>1. /\ UNCHANGED <<night, stamps, dataVars, at, id, runVars, bucketVars, byHand>>
        /\ pc' \in [Actors -> PCs] /\ wanted' \in [Actors -> SUBSET Kinds] /\ faults' \in 0..MaxFaults
    BY <1>3 DEF Copy
  <2>2. made' \in [Actors -> SUBSET Kinds] /\ failed' \in [Actors -> SUBSET Kinds]
    <3>1. CASE made' = [made EXCEPT ![a] = wanted[a]] /\ UNCHANGED failed
      BY <3>1
    <3>2. ASSUME NEW lost \in SUBSET wanted[a],
                 made' = [made EXCEPT ![a] = wanted[a] \ lost],
                 failed' = [failed EXCEPT ![a] = lost] \/ UNCHANGED failed
          PROVE  made' \in [Actors -> SUBSET Kinds] /\ failed' \in [Actors -> SUBSET Kinds]
      <4>1. wanted[a] \ lost \in SUBSET Kinds /\ lost \in SUBSET Kinds
        OBVIOUS
      <4> QED BY <3>2, <4>1
    <3> QED BY <1>3, <3>1, <3>2 DEF Copy
  <2> QED BY <2>1, <2>2
<1>4. CASE Move(a)
  BY <1>4 DEF Move, MovedTo
<1> QED BY <1>1, <1>2, <1>3, <1>4

\* The ends of a backup.
LEMMA EndTypes ==
    ASSUME TypeOK, NEW a \in Actors, Refuse(a) \/ Throws(a) \/ RecordBackup(a) \/ Killed(a)
    PROVE  TypeOK'
<1> USE OrderShape, NightsAssumption, BoundsAssumption
        DEF TypeOK, Fault, Goto, Nights, Svc,
            dataVars, workVars, runVars, bucketVars, boundVars
<1>1. ASSUME NEW ok \in BOOLEAN, NEW dir \in BOOLEAN, NEW dump \in BOOLEAN, Log(a, ok, dir, dump)
      PROVE  records' \in [Services -> SUBSET [at : Stamps, ok : BOOLEAN, dir : BOOLEAN, dump : BOOLEAN]]
  <2>1. Record(id[a], ok, dir, dump) \in [at : Stamps, ok : BOOLEAN, dir : BOOLEAN, dump : BOOLEAN]
    BY DEF Record
  <2>2. Svc(a) \in Services
    OBVIOUS
  <2> DEFINE R == [at : Stamps, ok : BOOLEAN, dir : BOOLEAN, dump : BOOLEAN]
  <2>3. /\ records \in [Services -> SUBSET R] /\ Record(id[a], ok, dir, dump) \in R
        /\ records' = [records EXCEPT ![Svc(a)] = @ \cup {Record(id[a], ok, dir, dump)}]
    BY <1>1, <2>1 DEF Log
  <2> HIDE DEF Record, R, Svc
  <2>4. records' \in [Services -> SUBSET R]
    BY <2>2, <2>3
  <2> QED BY <2>4 DEF R
<1>2. CASE Refuse(a)
  <2>1. records' \in [Services -> SUBSET [at : Stamps, ok : BOOLEAN, dir : BOOLEAN, dump : BOOLEAN]]
    BY <1>1, <1>2 DEF Refuse
  <2> QED BY <1>2, <2>1, OverTypes DEF Refuse
<1>3. CASE Throws(a)
  <2>1. dirs' \in [Services -> SUBSET Stamps] /\ faults' \in 0..MaxFaults
    BY <1>3 DEF Throws, MovedTo
  <2> QED BY <1>3, <2>1, OverTypes DEF Throws
<1>4. CASE RecordBackup(a)
  <2>1. records' \in [Services -> SUBSET [at : Stamps, ok : BOOLEAN, dir : BOOLEAN, dump : BOOLEAN]]
    <3>1. (failed[a] = {} /\ made[a] # {}) \in BOOLEAN /\ ("dump" \in made[a]) \in BOOLEAN
      OBVIOUS
    <3>2. CASE Log(a, TRUE, FALSE, FALSE)
      BY <1>1, <3>2
    <3>3. CASE Log(a, failed[a] = {} /\ made[a] # {}, TRUE, "dump" \in made[a])
      BY <1>1, <3>1, <3>3
    <3>4. Log(a, TRUE, FALSE, FALSE) \/ Log(a, failed[a] = {} /\ made[a] # {}, TRUE, "dump" \in made[a])
      BY <1>4 DEF RecordBackup
    <3> QED BY <3>2, <3>3, <3>4
  <2>2. summary' \subseteq Copies
    BY <1>4 DEF RecordBackup, Copies, Files
  <2>3. Over(a, failed[a] = {})
    BY <1>4 DEF RecordBackup
  <2> QED BY <1>4, <2>1, <2>2, <2>3, OverTypes DEF RecordBackup
<1>5. CASE Killed(a)
  <2>1. objects' \in [Nights -> SUBSET Files]
    BY <1>5 DEF Killed, Copies, FilesOf
  <2>2. /\ pc' \in [Actors -> PCs] /\ at' \in [Actors -> DOMAIN Order] /\ id' \in [Actors -> Stamps]
        /\ wanted' \in [Actors -> SUBSET Kinds]
        /\ made' \in [Actors -> SUBSET Kinds] /\ failed' \in [Actors -> SUBSET Kinds]
    BY <1>5 DEF Killed, PCs, NoId, Stamps
  <2>3. missed' \subseteq Copies /\ faults' \in 0..MaxFaults
    BY <1>5 DEF Killed
  <2> QED BY <1>5, <2>1, <2>2, <2>3 DEF Killed
<1> QED BY <1>2, <1>3, <1>4, <1>5

\* The nightly run around the backups, and the world.
LEMMA RunTypes ==
    ASSUME TypeOK, RunNight, Run \/ NightFalls \/ \E s \in Services : ByHand(s)
    PROVE  TypeOK'
<1> USE OrderShape, NightsAssumption, BoundsAssumption
        DEF TypeOK, Fault, Goto, PCs, Nights, Svc, Actors,
            dataVars, workVars, runVars, bucketVars, boundVars
<1>1. CASE StartRun \/ Finish \/ PushAgain
  <2>1. pc' \in [Actors -> PCs] /\ run' \in Nights \cup {Never} /\ byHand' \in 0..MaxByHand
    <3>1. pc' \in [Actors -> PCs]
      BY <1>1 DEF StartRun, Finish, PushAgain, Working
    <3>2. run' \in Nights \cup {Never}
      BY <1>1 DEF StartRun, Finish, PushAgain
    <3>3. byHand' \in 0..MaxByHand
      BY <1>1 DEF StartRun, Finish, PushAgain
    <3> QED BY <3>1, <3>2, <3>3
  <2>2. runOk' \in BOOLEAN /\ written' \in {"none", "ok", "failed"}
    BY <1>1 DEF StartRun, Finish, PushAgain
  <2> QED BY <1>1, <2>1, <2>2 DEF StartRun, Finish, PushAgain
<1>2. CASE Prune \/ PruneFails
  <2>1. PICK D : dirs' = [dirs EXCEPT ![Svc("nightly")] = @ \ D]
    BY <1>2 DEF Prune, PruneFails
  <2>2. dirs' \in [Services -> SUBSET Stamps]
    BY <2>1
  <2>3. at' \in [Actors -> DOMAIN Order] /\ pc' \in [Actors -> PCs]
    BY <1>2 DEF Prune, PruneFails, NextService, Working
  <2>4. faults' \in 0..MaxFaults /\ runOk' \in BOOLEAN
    <3>1. CASE Prune
      BY <3>1 DEF Prune
    <3>2. CASE PruneFails
      <4>1. runOk' \in BOOLEAN
        BY <3>2, Zenon DEF PruneFails
      <4>2. faults' \in 0..MaxFaults
        BY <3>2 DEF PruneFails
      <4> QED BY <4>1, <4>2
    <3> QED BY <1>2, <3>1, <3>2
  <2> QED BY <1>2, <2>2, <2>3, <2>4 DEF Prune, PruneFails
<1>3. CASE Upload
  <2>1. missed' \subseteq Copies /\ faults' \in 0..MaxFaults
    BY <1>3 DEF Upload, Uploaded, Pruned
  <2>2. FilesOf(summary \ missed') \subseteq Files
    BY DEF FilesOf, Copies
  <2>3. objects' \in [Nights -> SUBSET Files]
    BY <1>3, <2>2 DEF Upload, Uploaded
  <2>4. runOk' \in BOOLEAN
    BY <1>3, Zenon DEF Upload
  <2>5. pc' \in [Actors -> PCs]
    BY <1>3 DEF Upload
  <2> QED BY <1>3, <2>1, <2>3, <2>4, <2>5 DEF Upload
<1>4. CASE Manifest
  <2>1. copied' \subseteq Files
    <3>1. FilesOf(summary \ missed) \subseteq Files
      BY DEF FilesOf, Copies
    <3> QED BY <1>4, <3>1 DEF Manifest
  <2>2. manifests' \subseteq Nights
    BY <1>4 DEF Manifest, RunNight
  <2>3. pc' \in [Actors -> PCs]
    BY <1>4 DEF Manifest
  <2> QED BY <1>4, <2>1, <2>2, <2>3 DEF Manifest
<1>5. CASE ManifestFails
  <2>1. pc' \in [Actors -> PCs] /\ faults' \in 0..MaxFaults
    BY <1>5 DEF ManifestFails
  <2> QED BY <1>5, <2>1 DEF ManifestFails
<1>6. CASE Expire
  <2>1. PICK E : objects' = [n \in Nights |-> IF n \in E THEN {} ELSE objects[n]] /\ manifests' = manifests \ E
    BY <1>6 DEF Expire
  <2> QED BY <1>6, <2>1 DEF Expire
<1>7. CASE ExpireFails
  <2>1. \E n, gone : \E left \in SUBSET Files :
           /\ objects' = [m \in Nights |-> IF m \in gone THEN {} ELSE IF m = n THEN left ELSE objects[m]]
           /\ manifests' \in {manifests \ gone, manifests \ (gone \cup {n})}
    BY <1>7 DEF ExpireFails
  <2>2. objects' \in [Nights -> SUBSET Files] /\ manifests' \subseteq Nights
    BY <2>1
  <2>3. pc' \in [Actors -> PCs] /\ faults' \in 0..MaxFaults
    BY <1>7 DEF ExpireFails
  <2> QED BY <1>7, <2>2, <2>3 DEF ExpireFails
<1>8. CASE NightFalls
  <2>1. night' \in Nights
    BY <1>8 DEF NightFalls
  <2>2. faults' \in 0..MaxFaults
    BY <1>8 DEF NightFalls
  <2> QED BY <1>8, <2>1, <2>2 DEF NightFalls
<1>9. ASSUME NEW s \in Services, ByHand(s) PROVE TypeOK'
  BY <1>9 DEF ByHand, Working
<1> QED BY <1>1, <1>2, <1>3, <1>4, <1>5, <1>6, <1>7, <1>8, <1>9 DEF Run

-----------------------------------------------------------------------------
(* The inductive invariant *)

\* A backup in flight has a stamp of its own that no log knows yet, and the directory a good
\* record is about to name is there.
Fresh ==
    /\ \A s \in Services : \A t \in Recorded(s) : t[2] <= stamps
    /\ \A a \in Actors : id[a] # NoId =>
           id[a][2] <= stamps /\ \A s \in Services : id[a] \notin Recorded(s)
    /\ \A a, b \in Actors : a # b /\ id[a] # NoId => id[a] # id[b]
    /\ \A a \in Actors : pc[a] \in {"copy", "move"} => id[a] # NoId
    /\ \A a \in Actors : made[a] # {} => pc[a] \in {"move", "record"} /\ id[a] # NoId
    /\ \A a \in Actors : pc[a] = "record" /\ made[a] # {} => id[a] \in dirs[Svc(a)]

FiniteGood == \A s \in Services : IsFiniteSet(Good(s))

IInv == TypeOK /\ RunNight /\ Fresh /\ FiniteGood /\ RetentionKept

\* What a line added to a log does to the sets retention works on.
LEMMA LogSets ==
    ASSUME TypeOK, NEW a \in Actors, NEW ok \in BOOLEAN, NEW dir \in BOOLEAN, NEW dump,
           Log(a, ok, dir, dump), NEW s \in Services
    PROVE  /\ Recorded(s)' = Recorded(s) \cup (IF s = Svc(a) /\ dir THEN {id[a]} ELSE {})
           /\ Good(s)' = Good(s) \cup (IF s = Svc(a) /\ dir /\ ok THEN {id[a]} ELSE {})
<1>1. records'[s] = records[s] \cup (IF s = Svc(a) THEN {Record(id[a], ok, dir, dump)} ELSE {})
  BY DEF Log, TypeOK
<1>2. LET r == Record(id[a], ok, dir, dump) IN r.at = id[a] /\ r.ok = ok /\ r.dir = dir
  BY DEF Record
<1> HIDE DEF Record
<1> QED BY <1>1, <1>2 DEF Recorded, Good

\* The steps of a backup up to its end touch no log.
LEMMA WorkFresh ==
    ASSUME IInv, NEW a \in Actors, Verify(a) \/ Unhealthy(a) \/ Copy(a) \/ Move(a)
    PROVE  RunNight' /\ Fresh' /\ FiniteGood' /\ RetentionKept'
<1> USE OrderShape DEF IInv, Goto, dataVars, workVars, runVars, bucketVars, boundVars
<1>1. records' = records /\ at' = at /\ run' = run /\ written' = written
  BY DEF Verify, Unhealthy, Copy, Move
<1>2. \A s \in Services : Good(s)' = Good(s) /\ Recorded(s)' = Recorded(s)
  BY <1>1 DEF Good, Recorded
<1>3. \A s \in Services : dirs[s] \subseteq dirs'[s]
  <2>1. CASE dirs' = dirs
    BY <2>1
  <2>2. CASE dirs' = [dirs EXCEPT ![Svc(a)] = @ \cup {id[a]}]
    BY <2>2 DEF TypeOK
  <2> QED BY <2>1, <2>2 DEF Verify, Unhealthy, Copy, Move, MovedTo
<1>4. RetentionKept' /\ FiniteGood'
  BY <1>2, <1>3 DEF RetentionKept, FiniteGood, Keep, NewestPer
<1>5. pc[a] # "idle" /\ \A b \in Actors : b # a => pc'[b] = pc[b] /\ made'[b] = made[b]
  BY DEF Verify, Choose, Unhealthy, Copy, Move, TypeOK
<1>6. RunNight'
  BY <1>1, <1>5 DEF RunNight, Actors
<1>7. Svc(a)' = Svc(a) /\ \A b \in Actors : Svc(b)' = Svc(b) /\ Svc(b) \in Services
  BY <1>1 DEF Svc, TypeOK
<1>8. CASE stamps' = stamps /\ id' = id
  <2>0. stamps \in Nat /\ stamps' # stamps + 1
    BY <1>8 DEF TypeOK
  <2>1. pc'[a] \in {"copy", "move"} => id[a] # NoId
    <3>1. CASE Verify(a)
      <4>1. Goto(a, "record")
        BY <2>0, <3>1 DEF Verify, Choose
      <4> QED BY <4>1 DEF TypeOK
    <3>2. CASE Unhealthy(a) \/ Copy(a) \/ Move(a)
      BY <3>2 DEF Unhealthy, Copy, Move, TypeOK, Fresh
    <3> QED BY <3>1, <3>2
  <2>2. made'[a] # {} => pc'[a] \in {"move", "record"} /\ id[a] # NoId
    BY <1>8 DEF Verify, Choose, Unhealthy, Copy, Move, TypeOK, Fresh
  <2>3. pc'[a] = "record" /\ made'[a] # {} => id[a] \in dirs'[Svc(a)]
    <3>1. CASE Move(a)
      BY <1>7, <1>8, <3>1 DEF Move, MovedTo, TypeOK
    <3>2. CASE Copy(a)
      BY <3>2 DEF Copy, TypeOK
    <3>3. CASE Verify(a) \/ Unhealthy(a)
      BY <3>3 DEF Verify, Unhealthy, Fresh
    <3> QED BY <3>1, <3>2, <3>3
  <2>4. \A b \in Actors : pc'[b] = "record" /\ made'[b] # {} => id'[b] \in dirs'[Svc(b)]
    BY <1>3, <1>5, <1>7, <1>8, <2>3 DEF Fresh
  <2> QED BY <1>2, <1>4, <1>5, <1>6, <1>7, <1>8, <2>1, <2>2, <2>4 DEF Fresh
<1>9. CASE Verify(a) /\ Goto(a, "copy") /\ stamps' = stamps + 1 /\ id' = [id EXCEPT ![a] = <<night, stamps + 1>>]
  <2>1. stamps \in Nat /\ id'[a] = <<night, stamps + 1>> /\ id'[a] # NoId /\ pc'[a] = "copy"
    BY <1>9 DEF TypeOK, NoId
  <2>2. \A s \in Services : \A t \in Recorded(s) : t[2] <= stamps /\ t[2] \in Nat
    BY DEF Fresh, TypeOK, Recorded, Stamps
  <2>3. \A b \in Actors : b # a => id'[b] = id[b] /\ (id[b] # NoId => id[b][2] <= stamps)
    BY <1>9 DEF Fresh, TypeOK
  <2>4. \A b \in Actors : id[b][2] \in Nat /\ NoId[2] = 0
    BY DEF TypeOK, Stamps, NoId
  <2>5. made' = made /\ dirs' = dirs /\ made[a] = {}
    BY <1>9 DEF Verify, Fresh
  <2>6. \A s \in Services : id'[a] \notin Recorded(s)
    BY <2>1, <2>2
  <2>7. \A b \in Actors : b # a => id'[a] # id'[b]
    BY <2>1, <2>3, <2>4
  <2>8. \A s \in Services : \A t \in Recorded(s) : t[2] <= stamps'
    BY <1>9, <2>1, <2>2
  <2>9. \A b \in Actors : id'[b] # NoId => id'[b][2] <= stamps'
    BY <1>9, <2>1, <2>3, <2>4
  <2> QED BY <1>2, <1>4, <1>5, <1>6, <1>7, <2>1, <2>3, <2>5, <2>6, <2>7, <2>8, <2>9 DEF Fresh
<1> QED BY <1>8, <1>9 DEF Verify, Choose, Unhealthy, Copy, Move

\* Keeping what a grown log keeps takes nothing but its new backup.
LEMMA KeepAdded ==
    ASSUME NEW R, IsFiniteSet(R), NEW y, NEW x \in Keep(R \cup {y}), x # y
    PROVE  x \in Keep(R)
<1>1. IsFiniteSet(R \cup {y})
  BY FS_AddElement
<1>2. x \in R
  BY DEF Keep, NewestPer
<1> QED BY <1>1, <1>2, KeepSubset

\* A process that is at the end of a backup, or killed, forgets its stamp.
LEMMA ForgetFresh ==
    ASSUME TypeOK, Fresh, NEW a \in Actors, stamps' = stamps,
           id' = [id EXCEPT ![a] = NoId], made' = [made EXCEPT ![a] = {}],
           pc'[a] \in {"idle", "prune"},
           \A b \in Actors : b # a => pc'[b] = pc[b] /\ at'[b] = at[b],
           \A s \in Services : dirs[s] \subseteq dirs'[s],
           \A s \in Services : Recorded(s)' \subseteq Recorded(s) \cup ({id[a]} \ {NoId})
    PROVE  Fresh'
<1>1. id'[a] = NoId /\ made'[a] = {} /\ \A b \in Actors : b # a => id'[b] = id[b] /\ made'[b] = made[b]
  BY DEF TypeOK
<1>2. \A b \in Actors : b # a => Svc(b)' = Svc(b) /\ Svc(b) \in Services
  BY OrderShape DEF Svc, TypeOK
<1>3. \A s \in Services : \A t \in Recorded(s)' : t[2] <= stamps
  BY DEF Fresh
<1>4. \A b \in Actors : id'[b] # NoId =>
          id'[b][2] <= stamps /\ \A s \in Services : id'[b] \notin Recorded(s)'
  BY <1>1 DEF Fresh
<1>5. \A b \in Actors : pc'[b] \in {"copy", "move"} => id'[b] # NoId
  BY <1>1 DEF Fresh
<1>6. \A b \in Actors : made'[b] # {} => pc'[b] \in {"move", "record"} /\ id'[b] # NoId
  BY <1>1 DEF Fresh
<1>7. \A b \in Actors : pc'[b] = "record" /\ made'[b] # {} => id'[b] \in dirs'[Svc(b)']
  BY <1>1, <1>2 DEF Fresh
<1>8. \A b, c \in Actors : b # c /\ id'[b] # NoId => id'[b] # id'[c]
  BY <1>1 DEF Fresh
<1> QED BY <1>3, <1>4, <1>5, <1>6, <1>7, <1>8 DEF Fresh

\* The end of a backup: a good one enters the log only when its directory is there.
LEMMA EndFresh ==
    ASSUME IInv, NEW a \in Actors, Refuse(a) \/ Throws(a) \/ RecordBackup(a) \/ Killed(a)
    PROVE  RunNight' /\ Fresh' /\ FiniteGood' /\ RetentionKept'
<1> USE OrderShape DEF IInv, Goto
<1>1. /\ run' = run /\ written' = written /\ stamps' = stamps /\ pc[a] # "idle"
      /\ id' = [id EXCEPT ![a] = NoId] /\ made' = [made EXCEPT ![a] = {}]
  BY DEF Refuse, Throws, RecordBackup, Killed, Over, Fault
<1>2. pc'[a] \in {"idle", "prune"} /\ \A b \in Actors : b # a => pc'[b] = pc[b] /\ at'[b] = at[b]
  BY DEF Refuse, Throws, RecordBackup, Killed, Over, TypeOK
<1>3. RunNight'
  BY <1>1, <1>2 DEF RunNight, Actors
<1>4. Svc(a) \in Services
  BY DEF Svc, TypeOK
<1>5. \A s \in Services : dirs[s] \subseteq dirs'[s]
  <2>1. CASE dirs' = dirs
    BY <2>1
  <2>2. CASE dirs' = [dirs EXCEPT ![Svc(a)] = @ \cup {id[a]}]
    BY <2>2 DEF TypeOK
  <2> QED BY <2>1, <2>2 DEF Refuse, Throws, RecordBackup, Killed, MovedTo, dataVars
<1>6. CASE Refuse(a)
  <2>1. \A s \in Services : Recorded(s)' = Recorded(s) /\ Good(s)' = Good(s)
    <3> SUFFICES ASSUME NEW s \in Services PROVE Recorded(s)' = Recorded(s) /\ Good(s)' = Good(s)
      OBVIOUS
    <3>1. Log(a, FALSE, FALSE, FALSE)
      BY <1>6 DEF Refuse
    <3>2. /\ Recorded(s)' = Recorded(s) \cup (IF s = Svc(a) /\ FALSE THEN {id[a]} ELSE {})
          /\ Good(s)' = Good(s) \cup (IF s = Svc(a) /\ FALSE /\ FALSE THEN {id[a]} ELSE {})
      BY <3>1, LogSets
    <3> QED BY <3>2
  <2>2. Fresh'
    BY <1>1, <1>2, <1>5, <2>1, ForgetFresh
  <2> QED BY <1>3, <1>5, <2>1, <2>2 DEF RetentionKept, FiniteGood, Keep, NewestPer
<1>7. CASE Throws(a) \/ Killed(a)
  <2>1. records' = records
    BY <1>7 DEF Throws, Killed, dataVars
  <2>2. \A s \in Services : Recorded(s)' = Recorded(s) /\ Good(s)' = Good(s)
    BY <2>1 DEF Recorded, Good
  <2>3. Fresh'
    BY <1>1, <1>2, <1>5, <2>2, ForgetFresh
  <2> QED BY <1>3, <1>5, <2>2, <2>3 DEF RetentionKept, FiniteGood, Keep, NewestPer
<1>8. CASE RecordBackup(a) /\ id[a] = NoId
  <2>1. Log(a, TRUE, FALSE, FALSE)
    BY <1>8 DEF RecordBackup
  <2>2. \A s \in Services : Recorded(s)' = Recorded(s) /\ Good(s)' = Good(s)
    <3> SUFFICES ASSUME NEW s \in Services PROVE Recorded(s)' = Recorded(s) /\ Good(s)' = Good(s)
      OBVIOUS
    <3>1. /\ Recorded(s)' = Recorded(s) \cup (IF s = Svc(a) /\ FALSE THEN {id[a]} ELSE {})
          /\ Good(s)' = Good(s) \cup (IF s = Svc(a) /\ FALSE /\ TRUE THEN {id[a]} ELSE {})
      BY <2>1, LogSets
    <3> QED BY <3>1
  <2>3. Fresh'
    BY <1>1, <1>2, <1>5, <2>2, ForgetFresh
  <2> QED BY <1>3, <1>5, <2>2, <2>3 DEF RetentionKept, FiniteGood, Keep, NewestPer
<1>9. CASE RecordBackup(a) /\ id[a] # NoId
  <2> DEFINE ok == failed[a] = {} /\ made[a] # {}
  <2>1. Log(a, ok, TRUE, "dump" \in made[a]) /\ ok \in BOOLEAN /\ dirs' = dirs
    BY <1>9 DEF RecordBackup
  <2>0. ASSUME NEW s \in Services
        PROVE  /\ Recorded(s)' = Recorded(s) \cup (IF s = Svc(a) /\ TRUE THEN {id[a]} ELSE {})
               /\ Good(s)' = Good(s) \cup (IF s = Svc(a) /\ TRUE /\ ok THEN {id[a]} ELSE {})
    <3> HIDE DEF ok
    <3> QED BY <2>1, LogSets
  <2>2. \A s \in Services : Recorded(s)' \subseteq Recorded(s) \cup ({id[a]} \ {NoId})
    BY <1>9, <2>0
  <2>3. Fresh'
    BY <1>1, <1>2, <1>5, <2>2, ForgetFresh
  <2>4. \A s \in Services : Good(s)' = Good(s) \cup (IF s = Svc(a) /\ ok THEN {id[a]} ELSE {})
    BY <2>0
  <2>5. FiniteGood'
    <3> SUFFICES ASSUME NEW s \in Services PROVE IsFiniteSet(Good(s)')
      BY DEF FiniteGood
    <3>1. IsFiniteSet(Good(s)) /\ IsFiniteSet(Good(s) \cup {id[a]})
      BY FS_AddElement DEF FiniteGood
    <3>2. Good(s)' = Good(s) \/ Good(s)' = Good(s) \cup {id[a]}
      BY <2>4
    <3> QED BY <3>1, <3>2
  <2>6. ok => id[a] \in dirs[Svc(a)]
    BY <1>9 DEF RecordBackup, Fresh
  <2>7. ASSUME NEW s \in Services, NEW x \in Keep(Good(s)') PROVE x \in dirs[s]
    <3>1. CASE s = Svc(a) /\ ok /\ x = id[a]
      BY <2>6, <3>1
    <3>2. CASE s = Svc(a) /\ ok /\ x # id[a]
      <4>1. x \in Keep(Good(s))
        BY <2>4, <2>7, <3>2, KeepAdded DEF FiniteGood
      <4> QED BY <4>1 DEF RetentionKept
    <3>3. CASE ~(s = Svc(a) /\ ok)
      <4>1. Good(s)' = Good(s)
        BY <2>4, <3>3
      <4> QED BY <2>7, <4>1 DEF RetentionKept
    <3> QED BY <3>1, <3>2, <3>3
  <2>8. RetentionKept'
    BY <2>1, <2>7 DEF RetentionKept, Keep, NewestPer
  <2> QED BY <1>3, <2>3, <2>5, <2>8
<1> QED BY <1>6, <1>7, <1>8, <1>9

\* Pruning a service leaves what the policy keeps of all its good backups, and nothing that is
\* not in the log yet.
LEMMA PruneKeeps ==
    ASSUME IInv, NEW D \in SUBSET Doomed(Svc("nightly")),
           dirs' = [dirs EXCEPT ![Svc("nightly")] = @ \ D], NEW s \in Services
    PROVE  /\ Keep(Good(s)) \subseteq dirs'[s]
           /\ \A d \in dirs[s] : d \notin Recorded(s) => d \in dirs'[s]
<1> USE DEF IInv
<1>1. CASE s # Svc("nightly")
  BY <1>1 DEF TypeOK, RetentionKept
<1>2. CASE s = Svc("nightly")
  <2>1. dirs'[s] = dirs[s] \ D
    BY <1>2 DEF TypeOK
  <2>2. \A d \in D : d \in Recorded(s)
    BY <1>2 DEF Doomed
  <2>3. ASSUME NEW x \in Keep(Good(s)) PROVE x \notin Doomed(s)
    <3>1. x \in dirs[s] \cap Good(s)
      BY DEF RetentionKept, Keep, NewestPer
    <3>2. x \in Keep(dirs[s] \cap Good(s))
      <4>1. IsFiniteSet(Good(s)) /\ dirs[s] \cap Good(s) \subseteq Good(s)
        BY DEF FiniteGood
      <4> QED BY <3>1, <4>1, KeepSubset
    <3> QED BY <3>1, <3>2 DEF Doomed
  <2> QED BY <1>2, <2>1, <2>2, <2>3 DEF RetentionKept
<1> QED BY <1>1, <1>2

\* The nightly run around the backups, and the world.
LEMMA RunFresh ==
    ASSUME IInv, Run \/ NightFalls \/ \E s \in Services : ByHand(s)
    PROVE  RunNight' /\ Fresh' /\ FiniteGood' /\ RetentionKept'
<1> USE OrderShape DEF IInv, Goto, dataVars, workVars, runVars, bucketVars, boundVars
<1>1. records' = records /\ id' = id /\ made' = made /\ stamps' = stamps
  BY DEF Run, StartRun, Prune, PruneFails, Finish, Upload, Manifest, ManifestFails, Expire,
         ExpireFails, PushAgain, NightFalls, ByHand
<1>2. \A s \in Services : Recorded(s)' = Recorded(s) /\ Good(s)' = Good(s)
  BY <1>1 DEF Recorded, Good
<1>3. RunNight'
  <2>1. CASE StartRun
    BY <2>1 DEF StartRun, RunNight, TypeOK
  <2>2. CASE run' = run /\ (pc'["nightly"] = pc["nightly"] \/ pc["nightly"] # "idle" \/ written # "none")
             /\ (written' = written \/ pc["nightly"] # "idle")
    BY <2>2 DEF RunNight
  <2>3. ASSUME NEW s \in Services, ByHand(s) PROVE run' = run /\ pc'["nightly"] = pc["nightly"] /\ written' = written
    BY <2>3 DEF ByHand, TypeOK, Actors
  <2>4. CASE NightFalls
    BY <2>2, <2>4 DEF NightFalls
  <2> QED BY <2>1, <2>2, <2>3, <2>4
          DEF Run, Prune, PruneFails, Finish, Upload, Manifest, ManifestFails, Expire, ExpireFails, PushAgain
<1>4. /\ \A s \in Services : Keep(Good(s)) \subseteq dirs'[s]
      /\ \A s \in Services : \A d \in dirs[s] : d \notin Recorded(s) => d \in dirs'[s]
  <2>1. CASE dirs' = dirs
    BY <2>1 DEF RetentionKept
  <2>2. CASE Prune \/ PruneFails
    <3>1. \E D \in SUBSET Doomed(Svc("nightly")) : dirs' = [dirs EXCEPT ![Svc("nightly")] = @ \ D]
      BY <2>2 DEF Prune, PruneFails
    <3> QED BY <3>1, PruneKeeps
  <2> QED BY <2>1, <2>2
          DEF Run, StartRun, Finish, Upload, Manifest, ManifestFails, Expire, ExpireFails, PushAgain,
              NightFalls, ByHand
<1>5. RetentionKept' /\ FiniteGood'
  BY <1>2, <1>4 DEF RetentionKept, FiniteGood, Keep, NewestPer
<1>6. \A a \in Actors : \/ pc'[a] = pc[a] /\ at'[a] = at[a]
                        \/ pc'[a] \notin {"copy", "move", "record"} /\ made[a] = {}
  <2>1. CASE UNCHANGED <<pc, at>>
    BY <2>1
  <2>2. ASSUME NEW s \in Services, ByHand(s)
        PROVE  \A a \in Actors : \/ pc'[a] = pc[a] /\ at'[a] = at[a]
                                 \/ pc'[a] \notin {"copy", "move", "record"} /\ made[a] = {}
    BY <2>2 DEF ByHand, TypeOK, Fresh, Actors
  <2>3. CASE Run
    <3>1. pc["nightly"] \notin {"move", "record"} /\ pc'["nightly"] \notin {"copy", "move", "record"}
      BY <2>3 DEF Run, StartRun, Prune, PruneFails, NextService, Finish, Upload, Manifest,
                  ManifestFails, Expire, ExpireFails, PushAgain, TypeOK, Actors
    <3>2. pc'["byhand"] = pc["byhand"] /\ at'["byhand"] = at["byhand"]
      BY <2>3 DEF Run, StartRun, Prune, PruneFails, NextService, Finish, Upload, Manifest,
                  ManifestFails, Expire, ExpireFails, PushAgain, TypeOK, Actors
    <3> QED BY <3>1, <3>2 DEF Fresh, Actors
  <2>4. CASE NightFalls
    BY <2>1, <2>4 DEF NightFalls
  <2> HIDE DEF IInv
  <2> QED BY <2>2, <2>3, <2>4
<1>7. \A a \in Actors : at'[a] = at[a] => Svc(a)' = Svc(a) /\ Svc(a) \in Services
  BY DEF Svc, TypeOK
<1>8. \A a \in Actors : pc'[a] = "record" /\ made[a] # {} => id[a] \in dirs'[Svc(a)']
  BY <1>4, <1>6, <1>7 DEF Fresh
<1> QED BY <1>1, <1>2, <1>3, <1>5, <1>6, <1>8 DEF Fresh

-----------------------------------------------------------------------------
(* Theorems *)

LEMMA InitInv == Init => IInv
<1> SUFFICES ASSUME Init PROVE IInv
  OBVIOUS
<1>1. \A s \in Services : Good(s) = {} /\ Recorded(s) = {} /\ Keep({}) = {}
  BY DEF Init, Good, Recorded, Keep, NewestPer
<1>2. RunNight /\ Fresh
  BY <1>1 DEF Init, RunNight, Fresh, Actors
<1>3. FiniteGood /\ RetentionKept
  BY <1>1, FS_EmptySet DEF FiniteGood, RetentionKept
<1> QED BY <1>2, <1>3, InitTypes DEF IInv

LEMMA NextInv == IInv /\ [Next]_vars => IInv'
<1> SUFFICES ASSUME IInv, [Next]_vars PROVE IInv'
  OBVIOUS
<1>1. CASE UNCHANGED vars
  BY <1>1 DEF IInv, TypeOK, RunNight, Fresh, FiniteGood, RetentionKept, Keep, NewestPer, Good, Recorded,
              Svc, vars, dataVars, workVars, runVars, bucketVars, boundVars
<1>2. ASSUME NEW a \in Actors, BackUp(a) PROVE IInv'
  BY <1>2, WorkTypes, WorkFresh, EndTypes, EndFresh DEF BackUp, IInv
<1>3. CASE Run \/ NightFalls \/ \E s \in Services : ByHand(s)
  BY <1>3, RunTypes, RunFresh DEF IInv
<1> QED BY <1>1, <1>2, <1>3 DEF Next

\* Every reachable state is well typed.
THEOREM TypeCorrect == Spec => []TypeOK
<1>1. IInv => TypeOK
  BY DEF IInv
<1> QED BY <1>1, InitInv, NextInv, PTL DEF Spec

\* The backups the policy promises of all the good ones a service ever had are on disk, whatever
\* earlier prunes removed, whatever failed, was killed or ran beside the nightly run
\* (docs/backups.md, Retention).
THEOREM RetentionTheorem == Spec => []RetentionKept
<1>1. IInv => RetentionKept
  BY DEF IInv
<1> QED BY <1>1, InitInv, NextInv, PTL DEF Spec

-----------------------------------------------------------------------------
(* What the nightly prune removes *)

\* Stamps name nights in order: a backup in flight is of tonight, and no backup of a log is of
\* a later night than one with a higher number.
Ordered ==
    /\ \A s \in Services : \A t \in Recorded(s) : t[1] <= night
    /\ \A s \in Services : \A t, u \in Recorded(s) : ~Later(u, t) => u[1] <= t[1]
    /\ \A a \in Actors : id[a] # NoId => id[a][1] = night /\ pc[a] \in {"copy", "move", "record"}
    /\ \A a \in Actors : id[a] # NoId =>
           \A s \in Services : \A t \in Recorded(s) : ~Later(id[a], t) => t[1] = night

\* A service with good backups has a newest one.
Newest(s, m) == m \in Good(s) /\ \A u \in Good(s) : ~Later(u, m)
HasNewest == \A s \in Services : Good(s) = {} \/ \E m \in Good(s) : Newest(s, m)

PruneInv == IInv /\ Ordered /\ HasNewest

\* The types the arguments about order rest on.
LEMMA OrderTypes ==
    ASSUME TypeOK
    PROVE  /\ night \in Nat /\ stamps \in Nat
           /\ \A a \in Actors : id[a][1] \in Nat /\ id[a][2] \in Nat
           /\ \A s \in Services : \A t \in Recorded(s) : t[1] \in Nat /\ t[2] \in Nat
           /\ \A s \in Services : Good(s) \subseteq Recorded(s)
BY NightsAssumption DEF TypeOK, Recorded, Good, Stamps, Nights

\* A log, the stamps in flight and the night as they were, or some of the stamps forgotten.
LEMMA SameLogs ==
    ASSUME TypeOK, Ordered, HasNewest, night' = night,
           \A s \in Services : Recorded(s)' = Recorded(s) /\ Good(s)' = Good(s),
           \A a \in Actors : id'[a] = NoId \/ (id'[a] = id[a] /\ (pc[a] \in {"copy", "move", "record"} => pc'[a] \in {"copy", "move", "record"}))
    PROVE  Ordered' /\ HasNewest'
<1>1. HasNewest'
  BY DEF HasNewest, Newest, Later
<1>2. \A a \in Actors : id'[a] # NoId =>
          /\ id'[a][1] = night' /\ pc'[a] \in {"copy", "move", "record"}
          /\ \A s \in Services : \A t \in Recorded(s)' : ~Later(id'[a], t) => t[1] = night'
  BY DEF Ordered
<1>3. /\ \A s \in Services : \A t \in Recorded(s)' : t[1] <= night'
      /\ \A s \in Services : \A t, u \in Recorded(s)' : ~Later(u, t) => u[1] <= t[1]
  BY DEF Ordered
<1> QED BY <1>1, <1>2, <1>3 DEF Ordered

\* Only a backup that goes on to copy draws a number.
LEMMA NewStamp ==
    ASSUME TypeOK, NEW a \in Actors, Verify(a), id' # id PROVE pc'[a] = "copy"
BY DEF Verify, Choose, Goto, TypeOK

\* A backup that starts has a higher number than all there are.
LEMMA StartOrdered ==
    ASSUME PruneInv, NEW a \in Actors, Verify(a)
    PROVE  Ordered' /\ HasNewest'
<1> USE DEF PruneInv, IInv, Goto
<1>1. records' = records /\ night' = night /\ pc[a] = "verify"
  BY DEF Verify, dataVars
<1>2. \A s \in Services : Recorded(s)' = Recorded(s) /\ Good(s)' = Good(s)
  BY <1>1 DEF Good, Recorded
<1>3. id[a] = NoId /\ \A b \in Actors : b # a => pc'[b] = pc[b]
  BY DEF Verify, Choose, TypeOK, Ordered
<1>4. CASE id' = id
  BY <1>1, <1>2, <1>3, <1>4, SameLogs
<1>5. CASE id' = [id EXCEPT ![a] = <<night, stamps + 1>>]
  <2>1. id'[a] = <<night, stamps + 1>> /\ \A b \in Actors : b # a => id'[b] = id[b]
    BY <1>5 DEF TypeOK
  <2>2. \A s \in Services : \A t \in Recorded(s) : Later(id'[a], t)
    BY <2>1, OrderTypes DEF Fresh, Later
  <2>3. HasNewest'
    BY <1>2 DEF HasNewest, Newest, Later
  <2>4. /\ \A s \in Services : \A t \in Recorded(s)' : t[1] <= night'
        /\ \A s \in Services : \A t, u \in Recorded(s)' : ~Later(u, t) => u[1] <= t[1]
    BY <1>1, <1>2 DEF Ordered
  <2>5. \A b \in Actors : id'[b] # NoId => id'[b][1] = night' /\ pc'[b] \in {"copy", "move", "record"}
    <3>1. pc'[a] = "copy"
      <4>1. id'[a][2] = stamps + 1 /\ NoId[2] = 0 /\ stamps \in Nat
        BY <2>1, OrderTypes DEF NoId
      <4>2. id' # id
        BY <1>3, <4>1
      <4> QED BY <4>2, NewStamp
    <3> QED BY <1>1, <1>3, <2>1, <3>1 DEF Ordered
  <2>6. \A b \in Actors : id'[b] # NoId =>
            \A s \in Services : \A t \in Recorded(s)' : ~Later(id'[b], t) => t[1] = night'
    BY <1>1, <1>2, <2>1, <2>2 DEF Ordered
  <2> QED BY <2>3, <2>4, <2>5, <2>6 DEF Ordered
<1> QED BY <1>4, <1>5 DEF Verify, Choose

\* A backup that is recorded is of tonight, and so is every one with a higher number.
LEMMA RecordOrdered ==
    ASSUME PruneInv, NEW a \in Actors, RecordBackup(a), id[a] # NoId
    PROVE  Ordered' /\ HasNewest'
<1> USE DEF PruneInv, IInv, Goto
<1> DEFINE ok == failed[a] = {} /\ made[a] # {}
           x == id[a]
<1>1. night' = night /\ \A b \in Actors : b # a => pc'[b] = pc[b] /\ id'[b] = id[b]
  BY DEF RecordBackup, Over, TypeOK
<1>2. id'[a] = NoId
  BY DEF RecordBackup, Over, TypeOK
<1>3. \A s \in Services : /\ Recorded(s)' = Recorded(s) \cup (IF s = Svc(a) THEN {x} ELSE {})
                          /\ Good(s)' = Good(s) \cup (IF s = Svc(a) /\ ok THEN {x} ELSE {})
  <2>1. Log(a, ok, TRUE, "dump" \in made[a]) /\ ok \in BOOLEAN
    BY DEF RecordBackup
  <2> HIDE DEF ok, x
  <2>2. ASSUME NEW s \in Services
        PROVE  /\ Recorded(s)' = Recorded(s) \cup (IF s = Svc(a) /\ TRUE THEN {id[a]} ELSE {})
               /\ Good(s)' = Good(s) \cup (IF s = Svc(a) /\ TRUE /\ ok THEN {id[a]} ELSE {})
    BY <2>1, LogSets
  <2> QED BY <2>2 DEF x
<1>4. /\ x[1] = night /\ x[2] \in Nat
      /\ \A s \in Services : \A t \in Recorded(s) : ~Later(x, t) => t[1] = night
  BY OrderTypes DEF Ordered
<1>5. \A s \in Services : \A t \in Recorded(s)' : t[1] <= night'
  <2> HIDE DEF x
  <2> QED BY <1>1, <1>3, <1>4, OrderTypes DEF Ordered
<1>6. ASSUME NEW s \in Services, NEW t \in Recorded(s)', NEW u \in Recorded(s)', ~Later(u, t)
      PROVE  u[1] <= t[1]
  <2>1. CASE t \in Recorded(s) /\ u \in Recorded(s)
    BY <1>6, <2>1 DEF Ordered
  <2>2. CASE t = x
    <3> HIDE DEF x
    <3> QED BY <1>1, <1>4, <1>5, <2>2
  <2>3. CASE u = x /\ t \in Recorded(s)
    <3>1. t[1] = night
      BY <1>4, <1>6, <2>3
    <3> HIDE DEF x
    <3> QED BY <1>4, <2>3, <3>1, OrderTypes
  <2> HIDE DEF x
  <2> QED BY <1>3, <2>1, <2>2, <2>3
<1>7. \A b \in Actors : id'[b] # NoId => id'[b][1] = night' /\ pc'[b] \in {"copy", "move", "record"}
  BY <1>1, <1>2 DEF Ordered
<1>8. \A b \in Actors : id'[b] # NoId =>
          \A s \in Services : \A t \in Recorded(s)' : ~Later(id'[b], t) => t[1] = night'
  <2> SUFFICES ASSUME NEW b \in Actors, id'[b] # NoId, NEW s \in Services, NEW t \in Recorded(s)', ~Later(id'[b], t)
               PROVE  t[1] = night'
    OBVIOUS
  <2>1. id'[b] = id[b] /\ (t \in Recorded(s) \/ t = x)
    BY <1>1, <1>2, <1>3
  <2> HIDE DEF x
  <2> QED BY <1>1, <1>4, <2>1 DEF Ordered
<1>9. HasNewest'
  <2> SUFFICES ASSUME NEW s \in Services, Good(s)' # {} PROVE \E m \in Good(s)' : \A u \in Good(s)' : ~Later(u, m)
    BY DEF HasNewest, Newest
  <2>1. CASE Good(s)' = Good(s)
    BY <2>1 DEF HasNewest, Newest
  <2>2. CASE Good(s)' = Good(s) \cup {x} /\ Good(s) = {}
    <3> HIDE DEF x
    <3> QED BY <1>4, <2>2 DEF Later
  <2>3. CASE Good(s)' = Good(s) \cup {x} /\ Good(s) # {}
    <3>1. PICK m \in Good(s) : \A u \in Good(s) : ~Later(u, m)
      BY <2>3 DEF HasNewest, Newest
    <3>2. m[2] \in Nat /\ \A u \in Good(s) : u[2] \in Nat
      BY OrderTypes
    <3> HIDE DEF x
    <3>3. CASE Later(x, m)
      BY <1>4, <2>3, <3>1, <3>2, <3>3 DEF Later
    <3>4. CASE ~Later(x, m)
      BY <2>3, <3>1, <3>4
    <3> QED BY <3>3, <3>4
  <2> QED BY <1>3, <2>1, <2>2, <2>3
<1> QED BY <1>5, <1>6, <1>7, <1>8, <1>9 DEF Ordered

\* No step upsets the order of the stamps.
LEMMA OrderedStep == PruneInv /\ [Next]_vars => PruneInv'
<1> SUFFICES ASSUME PruneInv, [Next]_vars PROVE Ordered' /\ HasNewest'
  BY NextInv DEF PruneInv
<1> USE DEF PruneInv, IInv, Goto
<1>1. CASE Run \/ UNCHANGED vars \/ \E s \in Services : ByHand(s)
  <2>1. night' = night /\ records' = records /\ id' = id
    BY <1>1 DEF Run, StartRun, Prune, PruneFails, Finish, Upload, Manifest, ManifestFails, Expire, ExpireFails,
                PushAgain, ByHand, vars, dataVars, workVars
  <2>2. \A s \in Services : Recorded(s)' = Recorded(s) /\ Good(s)' = Good(s)
    BY <2>1 DEF Recorded, Good
  <2>3. \A a \in Actors : pc'[a] = pc[a] \/ pc[a] \notin {"copy", "move", "record"}
    <3>1. CASE UNCHANGED pc
      BY <3>1
    <3>2. ASSUME NEW s \in Services, ByHand(s)
          PROVE  \A a \in Actors : pc'[a] = pc[a] \/ pc[a] \notin {"copy", "move", "record"}
      BY <3>2 DEF ByHand, TypeOK
    <3>3. CASE Run
      BY <3>3 DEF Run, StartRun, Prune, PruneFails, NextService, Upload, Manifest, Finish,
                  ManifestFails, Expire, ExpireFails, PushAgain, TypeOK, Actors
    <3> QED BY <1>1, <3>1, <3>2, <3>3 DEF vars
  <2> QED BY <2>1, <2>2, <2>3, SameLogs
<1>2. CASE NightFalls
  <2>1. /\ night' = night + 1 /\ id' = id /\ records' = records
        /\ \A a \in Actors : pc[a] = "idle"
    BY <1>2 DEF NightFalls, dataVars, workVars
  <2>2. \A s \in Services : Recorded(s)' = Recorded(s) /\ Good(s)' = Good(s)
    BY <2>1 DEF Recorded, Good
  <2>3. \A a \in Actors : id[a] = NoId
    BY <2>1 DEF Ordered
  <2>4. HasNewest'
    BY <2>2 DEF HasNewest, Newest, Later
  <2>5. \A s \in Services : \A t \in Recorded(s)' : t[1] <= night'
    BY <2>1, <2>2, OrderTypes DEF Ordered
  <2>6. \A s \in Services : \A t, u \in Recorded(s)' : ~Later(u, t) => u[1] <= t[1]
    BY <2>2 DEF Ordered
  <2> QED BY <2>1, <2>3, <2>4, <2>5, <2>6 DEF Ordered
<1>3. ASSUME NEW a \in Actors, Unhealthy(a) \/ Copy(a) \/ Move(a) PROVE Ordered' /\ HasNewest'
  <2>1. night' = night /\ records' = records /\ id' = id
    BY <1>3 DEF Unhealthy, Copy, Move, dataVars, workVars
  <2>2. \A s \in Services : Recorded(s)' = Recorded(s) /\ Good(s)' = Good(s)
    BY <2>1 DEF Recorded, Good
  <2>3. \A b \in Actors : pc[b] \in {"copy", "move", "record"} => pc'[b] \in {"copy", "move", "record"}
    BY <1>3 DEF Unhealthy, Copy, Move, TypeOK
  <2> QED BY <2>1, <2>2, <2>3, SameLogs
<1>4. ASSUME NEW a \in Actors, Refuse(a) \/ Throws(a) \/ Killed(a) \/ (RecordBackup(a) /\ id[a] = NoId)
      PROVE  Ordered' /\ HasNewest'
  <2>1. night' = night /\ id' = [id EXCEPT ![a] = NoId] /\ \A b \in Actors : b # a => pc'[b] = pc[b]
    BY <1>4 DEF Refuse, Throws, Killed, RecordBackup, Over, TypeOK
  <2>2. \A s \in Services : Recorded(s)' = Recorded(s) /\ Good(s)' = Good(s)
    <3>1. CASE records' = records
      BY <3>1 DEF Recorded, Good
    <3>2. ASSUME NEW ok \in BOOLEAN, Log(a, ok, FALSE, FALSE), NEW s \in Services
          PROVE  Recorded(s)' = Recorded(s) /\ Good(s)' = Good(s)
      <4>1. /\ Recorded(s)' = Recorded(s) \cup (IF s = Svc(a) /\ FALSE THEN {id[a]} ELSE {})
            /\ Good(s)' = Good(s) \cup (IF s = Svc(a) /\ FALSE /\ ok THEN {id[a]} ELSE {})
        BY <3>2, LogSets
      <4> QED BY <4>1
    <3> QED BY <1>4, <3>1, <3>2 DEF Refuse, Throws, Killed, RecordBackup, dataVars
  <2>3. \A b \in Actors : id'[b] = NoId \/ (id'[b] = id[b] /\ pc'[b] = pc[b])
    BY <2>1 DEF TypeOK
  <2> QED BY <2>1, <2>2, <2>3, SameLogs
<1>5. ASSUME NEW a \in Actors, BackUp(a) PROVE Ordered' /\ HasNewest'
  BY <1>3, <1>4, <1>5, StartOrdered, RecordOrdered DEF BackUp
<1> QED BY <1>1, <1>2, <1>5 DEF Next

\* The newest good backup of a service is one the policy keeps.
LEMMA NewestKept ==
    ASSUME PruneInv, NEW s \in Services, NEW m, Newest(s, m)
    PROVE  m \in Keep(Good(s))
<1> USE DEF PruneInv
<1>1. m \in Good(s) /\ \A u \in Good(s) : ~Later(u, m) /\ u[1] <= m[1]
  BY OrderTypes DEF Newest, Ordered, IInv
<1>2. \A u \in Good(s) : u[1] \in Nat /\ u[1] \div 1 = u[1]
  BY OrderTypes DEF IInv
<1>3. {v \in Good(s) : Slot(v, 1) > Slot(m, 1)} = {}
  BY <1>1, <1>2 DEF Slot
<1>4. {Slot(u, 1) : u \in {v \in Good(s) : Slot(v, 1) > Slot(m, 1)}} = {}
  BY <1>3
<1>5. Cardinality({Slot(u, 1) : u \in {v \in Good(s) : Slot(v, 1) > Slot(m, 1)}}) < Daily
  BY <1>4, FS_EmptySet, PolicyAssumption
<1> QED BY <1>1, <1>5 DEF Keep, NewestPer

\* The nightly prune removes only recorded directories, and a failed one only when a newer good
\* one stays (prune in lib/commands/backup.js; docs/backups.md, Retention).
THEOREM PruneTheorem == Spec => PruneIsSafe
<1> DEFINE Safe == \A s \in Services : \A d \in dirs[s] \ dirs'[s] :
                      /\ d \in Recorded(s)
                      /\ d \in Good(s) \/ \E g \in Good(s) \cap dirs'[s] : Later(g, d)
<1>1. PruneInv /\ [Next]_vars => [Safe]_vars
  <2> SUFFICES ASSUME PruneInv, Next, NEW s \in Services, NEW d \in dirs[s] \ dirs'[s]
               PROVE  /\ d \in Recorded(s)
                      /\ d \in Good(s) \/ \E g \in Good(s) \cap dirs'[s] : Later(g, d)
    OBVIOUS
  <2> USE DEF PruneInv, IInv
  <2>1. Prune \/ PruneFails
    <3>1. CASE dirs' = dirs
      BY <3>1
    <3>2. ASSUME NEW a \in Actors, dirs' = MovedTo(a) PROVE FALSE
      BY <3>2 DEF MovedTo, TypeOK
    <3>3. ASSUME NEW a \in Actors, BackUp(a) PROVE FALSE
      BY <3>1, <3>2, <3>3 DEF BackUp, Verify, Unhealthy, Refuse, Copy, Move, Throws, RecordBackup, Killed, dataVars
    <3> QED BY <3>1, <3>3
            DEF Next, Run, StartRun, Finish, Upload, Manifest, ManifestFails, Expire, ExpireFails, PushAgain,
                NightFalls, ByHand, dataVars
  <2>2. PICK D \in SUBSET Doomed(Svc("nightly")) : dirs' = [dirs EXCEPT ![Svc("nightly")] = @ \ D]
    BY <2>1 DEF Prune, PruneFails
  <2>3. s = Svc("nightly") /\ d \in Doomed(s) /\ Keep(Good(s)) \subseteq dirs'[s]
    <3>1. Keep(Good(s)) \subseteq dirs'[s]
      BY <2>2, PruneKeeps
    <3>2. s = Svc("nightly") /\ d \in D
      BY <2>2 DEF TypeOK
    <3> QED BY <3>1, <3>2
  <2>4. CASE d \in Good(s)
    BY <2>3, <2>4 DEF Doomed
  <2>5. CASE d \notin Good(s)
    <3>1. d \in Recorded(s) /\ \E g \in Good(s) : Later(g, d)
      BY <2>3, <2>5 DEF Doomed
    <3>2. PICK m \in Good(s) : Newest(s, m)
      BY <3>1 DEF HasNewest
    <3>3. m \in dirs'[s]
      BY <2>3, <3>2, NewestKept
    <3>4. Later(m, d)
      BY <3>1, <3>2, OrderTypes DEF Newest, Later
    <3> QED BY <3>1, <3>2, <3>3, <3>4
  <2> QED BY <2>4, <2>5
<1>2. Init => PruneInv
  <2> SUFFICES ASSUME Init PROVE Ordered /\ HasNewest
    BY InitInv DEF PruneInv
  <2>1. \A s \in Services : Good(s) = {} /\ Recorded(s) = {}
    BY DEF Init, Good, Recorded
  <2> QED BY <2>1 DEF Init, Ordered, HasNewest
<1> QED BY <1>1, <1>2, OrderedStep, PTL DEF Spec, PruneIsSafe

-----------------------------------------------------------------------------
(* What an ok summary means *)

\* Of the run: somebody has a good dump that is recent enough.
RecentDump(s) == \E t \in GoodDumps(s) : run - t[1] <= DumpEvery

\* The nightly run is past the i-th service.
Passed(i) ==
    \/ pc["nightly"] \in Working /\ i < at["nightly"]
    \/ pc["nightly"] = "prune" /\ i <= at["nightly"]
    \/ pc["nightly"] \in {"upload", "manifest", "expire", "finish"}

\* A record of a dump names a directory; a good directory of a service without objects holds one.
LogShape ==
    \A s \in Services : \A r \in records[s] :
        /\ r.dump => r.dir
        /\ s \notin HasObjects /\ r.dir /\ r.ok => r.dump

\* What a backup in flight holds.
Holds ==
    \A a \in Actors :
        /\ pc[a] # "copy" => wanted[a] = {}
        /\ Svc(a) \notin HasObjects => "objects" \notin wanted[a] \cup made[a]

\* The run's own progress: at a service with databases it is making a dump, or has a recent one.
Progress ==
    /\ pc["nightly"] \in Working \cup {"prune"} => run = night /\ written = "none"
    /\ pc["nightly"] \notin Working \cup {"prune"} => at["nightly"] = 1
    /\ pc["nightly"] \in {"copy", "move", "record"} /\ failed["nightly"] = {} /\ Svc("nightly") \in HasDb =>
           "dump" \in wanted["nightly"] \cup made["nightly"] \/ RecentDump(Svc("nightly"))
    /\ runOk => \A i \in DOMAIN Order : Passed(i) /\ Order[i] \in HasDb => RecentDump(Order[i])

\* The summary's copies are in the bucket.
OffHost == FilesOf(summary) \subseteq objects[run]

Pushed ==
    /\ pc["nightly"] = "manifest" /\ runOk => missed = {} /\ OffHost
    /\ pc["nightly"] = "expire" => run \in manifests
    /\ pc["nightly"] \in {"expire", "finish"} /\ runOk => run \in manifests /\ OffHost
    /\ written = "ok" => run \in manifests /\ OffHost /\ \A s \in HasDb : RecentDump(s)

OkInv == PruneInv /\ LogShape /\ Holds /\ Progress /\ Pushed

\* What a line added to a log does to the dumps it knows.
LEMMA LogDumps ==
    ASSUME TypeOK, NEW a \in Actors, NEW ok \in BOOLEAN, NEW dir \in BOOLEAN, NEW dump \in BOOLEAN,
           Log(a, ok, dir, dump), LogShape,
           dump => dir, Svc(a) \notin HasObjects /\ dir /\ ok => dump
    PROVE  /\ LogShape'
           /\ \A s \in Services : GoodDumps(s) \subseteq GoodDumps(s)'
           /\ \A s \in Services : s = Svc(a) /\ ok /\ dump => id[a] \in GoodDumps(s)'
<1>1. \A s \in Services : records'[s] = records[s] \cup (IF s = Svc(a) THEN {Record(id[a], ok, dir, dump)} ELSE {})
  BY DEF Log, TypeOK
<1>2. LET r == Record(id[a], ok, dir, dump) IN r.at = id[a] /\ r.ok = ok /\ r.dir = dir /\ r.dump = dump
  BY DEF Record
<1> HIDE DEF Record
<1>4. LogShape'
  BY <1>1, <1>2 DEF LogShape
<1>5. \A s \in Services : GoodDumps(s) \subseteq GoodDumps(s)'
  BY <1>1 DEF GoodDumps
<1>6. \A s \in Services : s = Svc(a) /\ ok /\ dump => id[a] \in GoodDumps(s)'
  BY <1>1, <1>2 DEF GoodDumps
<1> QED BY <1>4, <1>5, <1>6

\* What the log of a service knows, step by step: the dumps in it stay.
LEMMA LogStep ==
    ASSUME OkInv, [Next]_vars
    PROVE  LogShape' /\ \A s \in Services : GoodDumps(s) \subseteq GoodDumps(s)'
<1> USE DEF OkInv, PruneInv, IInv
<1>1. CASE records' = records
  BY <1>1 DEF LogShape, GoodDumps
<1>2. ASSUME NEW a \in Actors, NEW ok \in BOOLEAN, Log(a, ok, FALSE, FALSE)
      PROVE  LogShape' /\ \A s \in Services : GoodDumps(s) \subseteq GoodDumps(s)'
  BY <1>2, LogDumps
<1>3. ASSUME NEW a \in Actors, RecordBackup(a)
      PROVE  LogShape' /\ \A s \in Services : GoodDumps(s) \subseteq GoodDumps(s)'
  <2> DEFINE ok == failed[a] = {} /\ made[a] # {}
             dump == "dump" \in made[a]
  <2>1. Log(a, TRUE, FALSE, FALSE) \/ Log(a, ok, TRUE, dump)
    BY <1>3 DEF RecordBackup
  <2>2. Svc(a) \notin HasObjects /\ ok => dump
    BY DEF Holds, TypeOK, Kinds
  <2>3. ok \in BOOLEAN /\ dump \in BOOLEAN
    OBVIOUS
  <2> HIDE DEF ok, dump
  <2>4. CASE Log(a, ok, TRUE, dump)
    BY <2>2, <2>3, <2>4, LogDumps
  <2> QED BY <1>2, <2>1, <2>4
<1> QED BY <1>1, <1>2, <1>3
        DEF Next, BackUp, Verify, Unhealthy, Refuse, Copy, Move, Throws, Killed, Run, StartRun, Prune, PruneFails,
            Finish, Upload, Manifest, ManifestFails, Expire, ExpireFails, PushAgain, NightFalls,
            ByHand, vars, dataVars

\* A backup of a service without object directories holds none.
LEMMA HoldsStep == ASSUME OkInv, [Next]_vars PROVE Holds'
<1> USE OrderShape DEF OkInv, PruneInv, IInv, Goto, Holds
<1>1. CASE /\ UNCHANGED <<wanted, made>>
           /\ \A a \in Actors : /\ wanted[a] # {} \/ made[a] # {} => at'[a] = at[a]
                                /\ pc[a] = "copy" => pc'[a] = "copy"
  <2> SUFFICES ASSUME NEW a \in Actors
               PROVE  /\ pc'[a] # "copy" => wanted[a] = {}
                      /\ Svc(a)' \notin HasObjects => "objects" \notin wanted[a] \cup made[a]
    BY <1>1
  <2>1. CASE at'[a] = at[a]
    BY <1>1, <2>1 DEF Svc
  <2>2. CASE wanted[a] = {} /\ made[a] = {}
    BY <2>2
  <2> QED BY <1>1, <2>1, <2>2
<1>2. CASE Run \/ NightFalls \/ UNCHANGED vars \/ \E s \in Services : ByHand(s)
  <2>1. UNCHANGED <<wanted, made>>
    BY <1>2 DEF Run, StartRun, Prune, PruneFails, Finish, Upload, Manifest, ManifestFails, Expire, ExpireFails,
                PushAgain, NightFalls, ByHand, vars, workVars
  <2>2. CASE UNCHANGED <<pc, at>>
    BY <1>1, <2>1, <2>2
  <2>3. ASSUME NEW s \in Services, ByHand(s) PROVE Holds'
    <3>1. pc["byhand"] = "idle" /\ pc'["nightly"] = pc["nightly"] /\ at'["nightly"] = at["nightly"]
      BY <2>3 DEF ByHand, TypeOK, Actors
    <3>2. wanted["byhand"] = {} /\ made["byhand"] = {}
      BY <3>1 DEF Fresh, Actors
    <3> QED BY <1>1, <2>1, <3>1, <3>2 DEF Actors
  <2>4. CASE Run
    <3>0. pc'["byhand"] = pc["byhand"] /\ at'["byhand"] = at["byhand"]
      BY <2>4 DEF Run, StartRun, Prune, PruneFails, NextService, Finish, Upload, Manifest,
                  ManifestFails, Expire, ExpireFails, PushAgain, TypeOK, Actors, workVars
    <3>1. pc["nightly"] \notin {"copy", "move", "record"}
      BY <2>4 DEF Run, StartRun, Prune, PruneFails, NextService, Finish, Upload, Manifest,
                  ManifestFails, Expire, ExpireFails, PushAgain, TypeOK
    <3>2. wanted["nightly"] = {} /\ made["nightly"] = {}
      BY <3>1 DEF Fresh, Actors
    <3> QED BY <1>1, <2>1, <3>0, <3>1, <3>2 DEF Actors
  <2> QED BY <1>2, <2>2, <2>3, <2>4 DEF NightFalls, vars, workVars
<1>3. ASSUME NEW a \in Actors, BackUp(a) PROVE Holds'
  <2>1. \A b \in Actors : b # a => UNCHANGED <<wanted[b], made[b], pc[b], at[b]>>
    BY <1>3 DEF BackUp, Verify, Choose, Unhealthy, Refuse, Copy, Move, Throws, RecordBackup, Killed, Over,
                TypeOK, workVars
  <2>2. ASSUME wanted'[a] = {} \/ pc'[a] = "copy",
               Svc(a)' \notin HasObjects => "objects" \notin wanted'[a] \cup made'[a]
        PROVE  Holds'
    BY <2>1, <2>2 DEF Svc
  <2>3. CASE Verify(a)
    <3>1. at' = at /\ made' = made /\ made[a] = {} /\ wanted[a] = {}
      BY <2>3 DEF Verify, Fresh
    <3>2. CASE wanted' = wanted
      BY <2>2, <3>1, <3>2
    <3>3. ASSUME NEW logical, Choose(a, Svc(a), logical)
          PROVE  /\ wanted'[a] = {} \/ pc'[a] = "copy"
                 /\ Svc(a) \notin HasObjects => "objects" \notin wanted'[a]
      BY <3>3 DEF Choose, TypeOK
    <3>4. Svc(a)' = Svc(a)
      BY <3>1 DEF Svc
    <3> QED BY <2>2, <2>3, <3>1, <3>2, <3>3, <3>4 DEF Verify
  <2>4. CASE Copy(a)
    <3>1. wanted'[a] = {} /\ Svc(a)' = Svc(a) /\ made'[a] \subseteq wanted[a]
      BY <2>4 DEF Copy, TypeOK, Svc
    <3> QED BY <2>2, <3>1
  <2>5. CASE Unhealthy(a) \/ Move(a)
    <3>1. UNCHANGED <<wanted, made, at>> /\ pc[a] # "copy"
      BY <2>5 DEF Unhealthy, Move, workVars
    <3> QED BY <2>2, <3>1 DEF Svc
  <2>6. CASE Refuse(a) \/ Throws(a) \/ RecordBackup(a) \/ Killed(a)
    <3>1. wanted'[a] = {} /\ made'[a] = {}
      BY <2>6 DEF Refuse, Throws, RecordBackup, Killed, Over, TypeOK
    <3> QED BY <2>2, <3>1
  <2> QED BY <1>3, <2>3, <2>4, <2>5, <2>6 DEF BackUp
<1> QED BY <1>2, <1>3 DEF Next

\* A recent dump stays in the log.
LEMMA RecentStays ==
    ASSUME OkInv, [Next]_vars, run' = run, NEW s \in Services, RecentDump(s) PROVE RecentDump(s)'
BY LogStep DEF RecentDump

\* Steps that are not the nightly run's.
LEMMA ProgressRests ==
    ASSUME OkInv, [Next]_vars, UNCHANGED <<run, written, runOk>>,
           pc'["nightly"] = pc["nightly"], at'["nightly"] = at["nightly"],
           pc["nightly"] = "idle" \/
               /\ night' = night /\ failed'["nightly"] = failed["nightly"]
               /\ wanted'["nightly"] = wanted["nightly"] /\ made'["nightly"] = made["nightly"]
    PROVE  Progress'
<1> USE OrderShape DEF OkInv, PruneInv, IInv, Progress
<1>1. Svc("nightly")' = Svc("nightly") /\ Svc("nightly") \in Services
  BY DEF Svc, TypeOK, Actors
<1>2. \A i \in DOMAIN Order : Passed(i)' = Passed(i) /\ Order[i] \in Services
  BY DEF Passed
<1>3. runOk' => \A i \in DOMAIN Order : Passed(i)' /\ Order[i] \in HasDb => RecentDump(Order[i])'
  BY <1>2, RecentStays
<1>4. pc'["nightly"] \in {"copy", "move", "record"} /\ failed'["nightly"] = {} /\ Svc("nightly")' \in HasDb =>
          "dump" \in wanted'["nightly"] \cup made'["nightly"] \/ RecentDump(Svc("nightly"))'
  <2> SUFFICES ASSUME pc["nightly"] \in {"copy", "move", "record"}, failed'["nightly"] = {}, Svc("nightly") \in HasDb
               PROVE  "dump" \in wanted'["nightly"] \cup made'["nightly"] \/ RecentDump(Svc("nightly"))'
    BY <1>1
  <2>1. "dump" \in wanted["nightly"] \cup made["nightly"] \/ RecentDump(Svc("nightly"))
    OBVIOUS
  <2>2. RecentDump(Svc("nightly")) => RecentDump(Svc("nightly"))'
    <3>1. ASSUME NEW s \in Services, s = Svc("nightly"), RecentDump(s) PROVE RecentDump(Svc("nightly"))'
      BY <1>1, <3>1, RecentStays DEF RecentDump, GoodDumps
    <3> QED BY <1>1, <3>1
  <2> QED BY <2>1, <2>2
<1>5. pc'["nightly"] \in Working \cup {"prune"} => run' = night' /\ written' = "none"
  BY DEF Working
<1> QED BY <1>3, <1>4, <1>5

\* The nightly backup of a service up to its end: it makes the dump that is due.
LEMMA ProgressWork ==
    ASSUME OkInv, [Next]_vars,
           Verify("nightly") \/ Unhealthy("nightly") \/ Copy("nightly") \/ Move("nightly")
    PROVE  Progress'
<1> USE OrderShape DEF OkInv, PruneInv, IInv, Goto
<1>1. /\ UNCHANGED <<run, written, runOk, night, at>> /\ "nightly" \in Actors
      /\ pc["nightly"] \in Working /\ pc'["nightly"] \in Working
  BY DEF Verify, Choose, Unhealthy, Copy, Move, Working, TypeOK, Actors, workVars, runVars
<1>2. Svc("nightly")' = Svc("nightly") /\ Svc("nightly") \in Services
  BY <1>1 DEF Svc, TypeOK, Actors
<1>3. \A i \in DOMAIN Order : Passed(i)' = Passed(i) /\ Order[i] \in Services
  BY <1>1 DEF Passed, Working
<1>4. runOk' => \A i \in DOMAIN Order : Passed(i)' /\ Order[i] \in HasDb => RecentDump(Order[i])'
  BY <1>1, <1>3, RecentStays DEF Progress
<1>5. pc'["nightly"] \in Working \cup {"prune"} /\ run' = night' /\ written' = "none"
  BY <1>1 DEF Progress
<1>6. RecentDump(Svc("nightly")) => RecentDump(Svc("nightly"))'
  <2>1. ASSUME NEW s \in Services, s = Svc("nightly"), RecentDump(s) PROVE RecentDump(Svc("nightly"))'
    BY <1>1, <1>2, <2>1, RecentStays DEF RecentDump, GoodDumps
  <2> QED BY <1>2, <2>1
<1>7. pc'["nightly"] \in {"copy", "move", "record"} /\ failed'["nightly"] = {} /\ Svc("nightly")' \in HasDb =>
          "dump" \in wanted'["nightly"] \cup made'["nightly"] \/ RecentDump(Svc("nightly"))'
  <2> SUFFICES ASSUME pc'["nightly"] \in {"copy", "move", "record"}, failed'["nightly"] = {}, Svc("nightly") \in HasDb
               PROVE  "dump" \in wanted'["nightly"] \cup made'["nightly"] \/ RecentDump(Svc("nightly"))
    BY <1>2, <1>6
  <2>1. CASE Verify("nightly")
    <3>1. ASSUME Choose("nightly", Svc("nightly"), FALSE) PROVE "dump" \in wanted'["nightly"] \/ RecentDump(Svc("nightly"))
      <4>1. PICK due \in DumpDue(Svc("nightly")) :
               wanted' = [wanted EXCEPT !["nightly"] = (IF due THEN {"dump"} ELSE {}) \cup
                                                       (IF Svc("nightly") \in HasObjects THEN {"objects"} ELSE {})]
        BY <3>1 DEF Choose
      <4>2. CASE due
        BY <1>1, <4>1, <4>2 DEF TypeOK
      <4>3. CASE ~due
        <5>1. \A t \in GoodDumps(Svc("nightly")) : t[1] \in Nat
          BY <1>2, NightsAssumption DEF GoodDumps, TypeOK, Stamps, Nights
        <5>2. run = night /\ night \in Nat
          BY <1>1, NightsAssumption DEF Progress, TypeOK, Nights
        <5>3. ASSUME \A t \in GoodDumps(Svc("nightly")) : night - t[1] > DumpEvery PROVE FALSE
          <6>1. ~\E t \in GoodDumps(Svc("nightly")) : night - t[1] < DumpEvery
            BY <5>1, <5>2, <5>3, PolicyAssumption
          <6>2. DumpDue(Svc("nightly")) = {TRUE}
            BY <5>3, <6>1 DEF DumpDue
          <6>3. due = TRUE
            BY <4>1, <6>2
          <6> QED BY <4>3, <6>3
        <5> QED BY <5>1, <5>2, <5>3, PolicyAssumption DEF RecentDump
      <4> QED BY <4>2, <4>3
    <3> QED BY <2>1, <3>1 DEF Verify, Logical
  <2>2. CASE Unhealthy("nightly")
    BY <1>1, <2>2 DEF Unhealthy, TypeOK
  <2>3. CASE Copy("nightly")
    <3>1. made["nightly"] = {} /\ pc["nightly"] = "copy"
      BY <1>1, <2>3 DEF Copy, Fresh
    <3>2. \/ made'["nightly"] = wanted["nightly"] /\ failed' = failed
          \/ \E lost \in (SUBSET wanted["nightly"]) \ {{}} :
                 /\ made'["nightly"] = wanted["nightly"] \ lost
                 /\ failed'["nightly"] = lost \/ (lost = {"objects"} /\ failed' = failed)
      BY <1>1, <2>3 DEF Copy, TypeOK
    <3>3. failed' = failed /\ ("dump" \in wanted["nightly"] => "dump" \in made'["nightly"])
      <4>1. ASSUME NEW lost \in (SUBSET wanted["nightly"]) \ {{}},
                   made'["nightly"] = wanted["nightly"] \ lost,
                   failed'["nightly"] = lost \/ (lost = {"objects"} /\ failed' = failed)
            PROVE  failed' = failed /\ ("dump" \in wanted["nightly"] => "dump" \in made'["nightly"])
        <5>1. lost # {}
          OBVIOUS
        <5>2. lost = {"objects"} /\ failed' = failed
          BY <4>1, <5>1
        <5> QED BY <4>1, <5>2
      <4> QED BY <3>2, <4>1
    <3> QED BY <3>1, <3>3 DEF Progress
  <2>4. CASE Move("nightly")
    BY <2>4 DEF Move, Progress, workVars
  <2> QED BY <2>1, <2>2, <2>3, <2>4
<1> QED BY <1>4, <1>5, <1>7 DEF Progress

\* The end of a nightly backup: a service passes well only with a recent dump.
LEMMA ProgressEnd ==
    ASSUME OkInv, [Next]_vars,
           Refuse("nightly") \/ Throws("nightly") \/ RecordBackup("nightly") \/ Killed("nightly")
    PROVE  Progress'
<1> USE OrderShape DEF OkInv, PruneInv, IInv, Goto
<1>1. UNCHANGED <<run, written, night>> /\ "nightly" \in Actors
  BY DEF Refuse, Throws, RecordBackup, Killed, Over, Actors
<1>2. CASE Killed("nightly")
  BY <1>1, <1>2 DEF Killed, Progress, Passed, Working, TypeOK
<1>3. CASE Refuse("nightly") \/ Throws("nightly")
  <2>1. pc'["nightly"] = "prune" /\ runOk' = FALSE /\ pc["nightly"] \in Working
    BY <1>1, <1>3 DEF Refuse, Throws, Over, TypeOK, Working
  <2> QED BY <1>1, <2>1 DEF Progress, Working
<1>4. CASE RecordBackup("nightly")
  <2>1. /\ pc'["nightly"] = "prune" /\ at' = at /\ pc["nightly"] = "record"
        /\ runOk' = (runOk /\ failed["nightly"] = {})
    BY <1>1, <1>4 DEF RecordBackup, Over, TypeOK
  <2>2. Svc("nightly") \in Services /\ Svc("nightly") = Order[at["nightly"]] /\ at["nightly"] \in DOMAIN Order
    BY <1>1 DEF Svc, TypeOK
  <2>3. run' = night' /\ written' = "none" /\ run = night
    BY <1>1, <2>1 DEF Progress, Working
  <2>4. ASSUME failed["nightly"] = {}, Svc("nightly") \in HasDb PROVE RecentDump(Order[at["nightly"]])'
    <3>1. wanted["nightly"] = {}
      BY <1>1, <2>1 DEF Holds
    <3>2. "dump" \in made["nightly"] \/ RecentDump(Svc("nightly"))
      BY <2>1, <2>4, <3>1 DEF Progress
    <3>3. CASE RecentDump(Svc("nightly"))
      <4>1. ASSUME NEW x \in Services, RecentDump(x) PROVE RecentDump(x)'
        BY <1>1, <4>1, RecentStays
      <4>2. ASSUME NEW x \in Services, x = Order[at["nightly"]], RecentDump(x)' PROVE RecentDump(Order[at["nightly"]])'
        BY <2>1, <4>2 DEF RecentDump, GoodDumps
      <4> QED BY <2>2, <3>3, <4>1, <4>2
    <3>4. CASE "dump" \in made["nightly"]
      <4>1. id["nightly"] # NoId
        BY <1>1, <3>4 DEF Fresh
      <4>2. Log("nightly", TRUE, TRUE, TRUE)
        <5>1. (failed["nightly"] = {} /\ made["nightly"] # {}) = TRUE /\ ("dump" \in made["nightly"]) = TRUE
          BY <2>4, <3>4
        <5> QED BY <1>4, <4>1, <5>1 DEF RecordBackup
      <4>3. \A x \in Services : x = Svc("nightly") => id["nightly"] \in GoodDumps(x)'
        BY <1>1, <4>2, LogDumps
      <4>4. id["nightly"][1] = night /\ night \in Nat
        BY <1>1, <4>1, OrderTypes DEF Ordered
      <4>5. run' - id["nightly"][1] <= DumpEvery
        BY <1>1, <2>3, <4>4, PolicyAssumption
      <4>6. ASSUME NEW x \in Services, x = Order[at["nightly"]], id["nightly"] \in GoodDumps(x)'
            PROVE  RecentDump(Order[at["nightly"]])'
        BY <2>1, <4>5, <4>6 DEF RecentDump, GoodDumps
      <4> QED BY <2>2, <4>3, <4>6
    <3> QED BY <3>2, <3>3, <3>4
  <2>5. ASSUME runOk', NEW i \in DOMAIN Order, Passed(i)', Order[i] \in HasDb PROVE RecentDump(Order[i])'
    <3>1. runOk /\ failed["nightly"] = {}
      BY <2>1, <2>5
    <3>2. i < at["nightly"] \/ i = at["nightly"]
      BY <2>1, <2>2, <2>5 DEF Passed, Working
    <3>3. CASE i < at["nightly"]
      <4>1. RecentDump(Order[i])
        BY <2>1, <2>5, <3>1, <3>3 DEF Progress, Passed, Working
      <4> QED BY <1>1, <4>1, RecentStays
    <3>4. CASE i = at["nightly"]
      <4>1. RecentDump(Order[at["nightly"]])'
        BY <2>2, <2>4, <2>5, <3>1, <3>4
      <4> QED BY <2>1, <3>4, <4>1 DEF RecentDump, GoodDumps
    <3> QED BY <3>2, <3>3, <3>4
  <2> QED BY <2>1, <2>3, <2>5 DEF Progress
<1> QED BY <1>2, <1>3, <1>4

\* The nightly run around the backups: what it has passed stays passed.
LEMMA ProgressRun == ASSUME OkInv, [Next]_vars, Run PROVE Progress'
<1> USE OrderShape DEF OkInv, PruneInv, IInv, Goto
<1>0. "nightly" \in Actors /\ \A i \in DOMAIN Order : Order[i] \in Services
  BY DEF Actors
<1>1. CASE StartRun
  <2>1. /\ pc'["nightly"] = "verify" /\ run' = night' /\ written' = "none" /\ at' = at
        /\ at["nightly"] = 1
    BY <1>0, <1>1 DEF StartRun, TypeOK, Progress, Working, workVars
  <2>2. \A i \in DOMAIN Order : ~Passed(i)'
    BY <2>1 DEF Passed, Working
  <2> QED BY <2>1, <2>2 DEF Progress, Working
<1>2. CASE Finish
  <2>1. pc'["nightly"] = "idle" /\ at' = at /\ at["nightly"] = 1
    BY <1>0, <1>2 DEF Finish, TypeOK, Progress, Working, workVars
  <2> QED BY <2>1 DEF Progress, Passed, Working
<1>3. CASE PushAgain
  <2>1. pc'["nightly"] = "upload" /\ at' = at /\ at["nightly"] = 1 /\ runOk' = (written = "ok") /\ run' = run
    BY <1>0, <1>3 DEF PushAgain, TypeOK, Progress, Working, workVars
  <2>2. ASSUME runOk', NEW i \in DOMAIN Order, Order[i] \in HasDb PROVE RecentDump(Order[i])'
    <3>1. RecentDump(Order[i])
      BY <2>1, <2>2 DEF Pushed
    <3> QED BY <1>0, <2>1, <3>1, RecentStays
  <2> QED BY <2>1, <2>2 DEF Progress, Working
<1>4. CASE Prune \/ PruneFails
  <2>1. pc["nightly"] = "prune" /\ UNCHANGED <<run, night, written>> /\ NextService
    BY <1>4 DEF Prune, PruneFails, runVars
  <2>2. /\ at["nightly"] \in 1..Len(Order)
        /\ \/ at'["nightly"] = at["nightly"] + 1 /\ pc'["nightly"] = "verify"
           \/ at["nightly"] = Len(Order) /\ at'["nightly"] = 1 /\ pc'["nightly"] = "upload"
    BY <1>0, <2>1 DEF NextService, TypeOK
  <2>3. \A i \in DOMAIN Order : Passed(i)' => Passed(i)
    BY <2>1, <2>2 DEF Passed, Working
  <2>4. runOk' => runOk
    BY <1>4 DEF Prune, PruneFails, runVars
  <2>5. ASSUME runOk', NEW i \in DOMAIN Order, Passed(i)', Order[i] \in HasDb PROVE RecentDump(Order[i])'
    <3>1. RecentDump(Order[i])
      BY <2>3, <2>4, <2>5 DEF Progress
    <3> QED BY <1>0, <2>1, <3>1, RecentStays
  <2> QED BY <2>1, <2>2, <2>5 DEF Progress, Working
<1>5. CASE Upload \/ Manifest \/ ManifestFails \/ Expire \/ ExpireFails
  <2>1. /\ pc["nightly"] \in {"upload", "manifest", "expire"} /\ pc'["nightly"] \in {"manifest", "expire", "finish"}
        /\ run' = run /\ at' = at
    BY <1>0, <1>5 DEF Upload, Manifest, ManifestFails, Expire, ExpireFails, TypeOK, workVars, runVars
  <2>2. runOk' => runOk
    BY <1>5 DEF Upload, Manifest, ManifestFails, Expire, ExpireFails, runVars
  <2>3. ASSUME runOk', NEW i \in DOMAIN Order, Order[i] \in HasDb PROVE RecentDump(Order[i])'
    <3>1. RecentDump(Order[i])
      BY <2>1, <2>2, <2>3 DEF Progress, Passed
    <3> QED BY <1>0, <2>1, <3>1, RecentStays
  <2> QED BY <2>1, <2>3 DEF Progress, Working
<1> QED BY <1>1, <1>2, <1>3, <1>4, <1>5 DEF Run

\* Every step keeps what is said of the run's progress.
LEMMA ProgressStep == ASSUME OkInv, [Next]_vars PROVE Progress'
<1> USE DEF OkInv, PruneInv, IInv
<1>1. ASSUME BackUp("byhand") PROVE Progress'
  <2>1. /\ UNCHANGED <<run, written, runOk, night>>
        /\ pc'["nightly"] = pc["nightly"] /\ at'["nightly"] = at["nightly"] /\ failed'["nightly"] = failed["nightly"]
        /\ wanted'["nightly"] = wanted["nightly"] /\ made'["nightly"] = made["nightly"]
    BY <1>1 DEF BackUp, Verify, Choose, Unhealthy, Refuse, Copy, Move, Throws, RecordBackup, Killed, Over, Goto,
                TypeOK, Actors, workVars, runVars
  <2> QED BY <2>1, ProgressRests
<1>2. ASSUME NEW s \in Services, ByHand(s) PROVE Progress'
  <2>1. /\ UNCHANGED <<run, written, runOk, night, failed, wanted, made>>
        /\ pc'["nightly"] = pc["nightly"] /\ at'["nightly"] = at["nightly"]
    BY <1>2 DEF ByHand, Goto, TypeOK, Actors, runVars
  <2> QED BY <2>1, ProgressRests
<1>3. CASE NightFalls
  <2>1. UNCHANGED <<run, written, runOk, pc, at>> /\ pc["nightly"] = "idle"
    BY <1>3 DEF NightFalls, runVars, workVars, Actors
  <2> QED BY <2>1, ProgressRests
<1>4. CASE UNCHANGED vars
  <2>1. UNCHANGED <<run, written, runOk, pc, at, night, failed, wanted, made>>
    BY <1>4 DEF vars, runVars, workVars
  <2> QED BY <2>1, ProgressRests
<1>5. CASE BackUp("nightly")
  BY <1>5, ProgressWork, ProgressEnd DEF BackUp
<1> QED BY <1>1, <1>2, <1>3, <1>4, <1>5, ProgressRun DEF Next, Actors

\* What was pushed and kept stays good for the summary it belongs to.
LEMMA PushedRests ==
    ASSUME OkInv, [Next]_vars, UNCHANGED <<run, summary>>, written' = written \/ written' # "ok",
           run \in manifests => run \in manifests', objects[run] \subseteq objects'[run]
    PROVE  /\ OffHost => OffHost'
           /\ written' = "ok" => run' \in manifests' /\ OffHost' /\ \A s \in HasDb : RecentDump(s)'
<1> USE DEF OkInv, PruneInv, IInv
<1>1. OffHost => OffHost'
  BY DEF OffHost, FilesOf
<1>2. ASSUME written' = "ok" PROVE run' \in manifests' /\ OffHost' /\ \A s \in HasDb : RecentDump(s)'
  <2>1. run \in manifests /\ OffHost /\ \A s \in HasDb : RecentDump(s)
    BY <1>2 DEF Pushed
  <2>2. \A s \in HasDb : RecentDump(s)'
    BY <2>1, RecentStays, InventoryAssumption
  <2> QED BY <1>1, <2>1, <2>2
<1> QED BY <1>1, <1>2

\* Every step keeps what is said of pushed copies and their manifest.
LEMMA PushedStep == ASSUME OkInv, [Next]_vars PROVE Pushed'
<1> USE DEF OkInv, PruneInv, IInv, Goto
<1>0. "nightly" \in Actors /\ "byhand" \in Actors
  BY DEF Actors
<1>1. CASE /\ UNCHANGED <<run, summary, runOk, written, manifests, missed>>
           /\ objects[run] \subseteq objects'[run]
           /\ pc'["nightly"] = pc["nightly"]
  BY <1>1, PushedRests DEF Pushed
<1>2. CASE NightFalls \/ UNCHANGED vars \/ BackUp("byhand") \/ \E s \in Services : ByHand(s)
  <2>1. UNCHANGED <<run, summary, runOk, written, manifests, missed>> /\ pc'["nightly"] = pc["nightly"]
    <3>1. CASE BackUp("byhand")
      BY <1>0, <3>1 DEF BackUp, Verify, Choose, Unhealthy, Refuse, Copy, Move, Throws, RecordBackup, Killed, Over,
                        TypeOK, runVars, bucketVars
    <3>2. CASE \E s \in Services : ByHand(s)
      BY <1>0, <3>2 DEF ByHand, TypeOK, runVars, bucketVars
    <3> QED BY <1>2, <3>1, <3>2 DEF NightFalls, vars, runVars, bucketVars
  <2>2. objects[run] \subseteq objects'[run]
    <3>1. CASE Killed("byhand")
      <4>1. objects' = objects \/ \E F : objects' = [objects EXCEPT ![run] = @ \cup F]
        BY <3>1 DEF Killed
      <4> QED BY <4>1 DEF TypeOK
    <3>2. CASE objects' = objects
      BY <3>2
    <3> QED BY <1>2, <3>1, <3>2
            DEF BackUp, Verify, Unhealthy, Refuse, Copy, Move, Throws, RecordBackup, ByHand,
                NightFalls, vars, bucketVars
  <2> QED BY <1>1, <2>1, <2>2
<1>3. CASE BackUp("nightly") /\ ~Killed("nightly")
  <2>1. /\ pc["nightly"] \in Working /\ pc'["nightly"] \in Working \cup {"prune"}
        /\ written' = written
    BY <1>0, <1>3 DEF BackUp, Verify, Choose, Unhealthy, Refuse, Copy, Move, Throws, RecordBackup, Over,
                      TypeOK, Working, runVars
  <2>2. written = "none"
    BY <2>1 DEF Progress
  <2> QED BY <2>1, <2>2 DEF Pushed, Working
<1>4. CASE Killed("nightly")
  <2>1. UNCHANGED <<run, summary, written, manifests>> /\ pc'["nightly"] = "idle"
    BY <1>0, <1>4 DEF Killed, TypeOK
  <2>2. objects[run] \subseteq objects'[run]
    <3>1. objects' = objects \/ \E F : objects' = [objects EXCEPT ![run] = @ \cup F]
      BY <1>4 DEF Killed
    <3> QED BY <3>1 DEF TypeOK
  <2> QED BY <2>1, <2>2, PushedRests DEF Pushed
<1>5. CASE StartRun
  <2>1. pc'["nightly"] = "verify" /\ written' = "none"
    BY <1>0, <1>5 DEF StartRun, TypeOK
  <2> QED BY <2>1 DEF Pushed
<1>6. CASE Prune \/ PruneFails
  <2>1. UNCHANGED <<run, summary, written, manifests, objects>> /\ pc'["nightly"] \in {"verify", "upload"}
    BY <1>0, <1>6 DEF Prune, PruneFails, NextService, TypeOK, runVars, bucketVars
  <2> QED BY <2>1, PushedRests DEF Pushed
<1>7. CASE PushAgain
  <2>1. UNCHANGED <<run, summary, written, manifests, objects>> /\ pc'["nightly"] = "upload"
    BY <1>0, <1>7 DEF PushAgain, TypeOK, bucketVars
  <2> QED BY <2>1, PushedRests DEF Pushed
<1>8. CASE Upload
  <2>1. /\ UNCHANGED <<run, summary, written, manifests>> /\ pc'["nightly"] = "manifest"
        /\ pc["nightly"] = "upload" /\ runOk' = (runOk /\ missed' = {})
        /\ objects' = [objects EXCEPT ![run] = @ \cup FilesOf(summary \ missed')]
    BY <1>0, <1>8 DEF Upload, Uploaded, TypeOK
  <2>2. run \in Nights
    BY <2>1 DEF RunNight
  <2>3. objects'[run] = objects[run] \cup FilesOf(summary \ missed')
    BY <2>1, <2>2 DEF TypeOK
  <2>4. runOk' => missed' = {} /\ OffHost'
    <3> SUFFICES ASSUME runOk' PROVE missed' = {} /\ FilesOf(summary) \subseteq objects'[run]
      BY <2>1 DEF OffHost, FilesOf
    <3>1. missed' = {} /\ summary \ missed' = summary
      BY <2>1
    <3> QED BY <2>3, <3>1
  <2> QED BY <2>1, <2>3, <2>4, PushedRests DEF Pushed
<1>9. CASE Manifest
  <2>1. /\ UNCHANGED <<run, summary, written, runOk, missed, objects>> /\ manifests' = manifests \cup {run}
        /\ pc["nightly"] = "manifest"
        /\ pc'["nightly"] = IF missed = {} THEN "expire" ELSE "finish"
    BY <1>0, <1>9 DEF Manifest, TypeOK, runVars
  <2> QED BY <2>1, PushedRests DEF Pushed
<1>10. CASE ManifestFails
  <2>1. /\ UNCHANGED <<run, summary, written, objects, manifests>> /\ runOk' = FALSE /\ pc'["nightly"] = "finish"
    BY <1>0, <1>10 DEF ManifestFails, TypeOK, bucketVars
  <2> QED BY <2>1, PushedRests DEF Pushed
<1>11. CASE Expire
  <2>1. /\ UNCHANGED <<run, summary, written, runOk>> /\ pc'["nightly"] = "finish" /\ pc["nightly"] = "expire"
    BY <1>0, <1>11 DEF Expire, TypeOK, runVars
  <2>2. run \in Nights
    BY <2>1 DEF RunNight
  <2>3. objects'[run] = objects[run] /\ (run \in manifests => run \in manifests')
    <3>1. PICK late \in BOOLEAN : /\ objects' = [n \in Nights |-> IF n \in Expired(late) THEN {} ELSE objects[n]]
                                  /\ manifests' = manifests \ Expired(late)
      BY <1>11 DEF Expire
    <3>2. run \notin Expired(late)
      BY DEF Expired, Protected
    <3> QED BY <2>2, <3>1, <3>2
  <2> QED BY <2>1, <2>3, PushedRests DEF Pushed
<1>12. CASE ExpireFails
  <2>1. /\ UNCHANGED <<run, summary, written>> /\ runOk' = FALSE /\ pc'["nightly"] = "finish" /\ pc["nightly"] = "expire"
    BY <1>0, <1>12 DEF ExpireFails, TypeOK
  <2>2. run \in Nights
    BY <2>1 DEF RunNight
  <2>3. objects'[run] = objects[run] /\ (run \in manifests => run \in manifests')
    <3>1. PICK late \in BOOLEAN :
             \E n \in Expired(late), gone \in SUBSET Expired(late), left \in SUBSET Files :
                /\ objects' = [m \in Nights |-> IF m \in gone THEN {} ELSE IF m = n THEN left ELSE objects[m]]
                /\ manifests' \in {manifests \ gone, manifests \ (gone \cup {n})}
      BY <1>12 DEF ExpireFails
    <3>2. run \notin Expired(late)
      BY DEF Expired, Protected
    <3> QED BY <2>2, <3>1, <3>2
  <2> QED BY <2>1, <2>3, PushedRests DEF Pushed
<1>13. CASE Finish
  <2>1. /\ UNCHANGED <<run, summary, runOk, objects, manifests>>
        /\ pc["nightly"] = "finish" /\ pc'["nightly"] = "idle" /\ written' = IF runOk THEN "ok" ELSE "failed"
    BY <1>0, <1>13 DEF Finish, TypeOK, bucketVars
  <2>2. CASE ~runOk
    BY <2>1, <2>2 DEF Pushed
  <2>3. CASE runOk
    <3>1. run \in manifests /\ OffHost
      BY <2>1, <2>3 DEF Pushed
    <3>2. \A s \in HasDb : RecentDump(s)
      BY <2>1, <2>3, InventoryAssumption DEF Progress, Passed, Services
    <3>3. \A s \in HasDb : RecentDump(s)'
      BY <2>1, <3>2, RecentStays, InventoryAssumption
    <3>4. OffHost'
      BY <2>1, <3>1 DEF OffHost, FilesOf
    <3> QED BY <2>1, <3>1, <3>3, <3>4 DEF Pushed
  <2> QED BY <2>2, <2>3
<1> QED BY <1>2, <1>3, <1>4, <1>5, <1>6, <1>7, <1>8, <1>9, <1>10, <1>11, <1>12, <1>13 DEF Next, Run, BackUp, Actors

\* A summary that says ok means: what the run copied is off-host under a manifest, every service
\* with databases has a good dump no older than the interval, and where every backup holds a dump
\* a recent one is on disk (backupAll, push and prune).
THEOREM OkTheorem == Spec => []OkMeansBackedUp
<1>1. Init => OkInv
  <2> SUFFICES ASSUME Init PROVE OkInv
    OBVIOUS
  <2>1. \A s \in Services : Good(s) = {} /\ Recorded(s) = {}
    BY DEF Init, Good, Recorded
  <2>2. PruneInv
    BY <2>1, InitInv DEF Init, PruneInv, Ordered, HasNewest
  <2>3. LogShape /\ Holds /\ Progress /\ Pushed
    BY DEF Init, LogShape, Holds, Progress, Pushed, Passed, Working, Actors
  <2> QED BY <2>2, <2>3 DEF OkInv
<1>2. OkInv /\ [Next]_vars => OkInv'
  BY OrderedStep, LogStep, HoldsStep, ProgressStep, PushedStep DEF OkInv
<1>3. OkInv => OkMeansBackedUp
  <2> SUFFICES ASSUME OkInv, written = "ok", NEW s \in HasDb
               PROVE  \E t \in GoodDumps(s) : run - t[1] <= DumpEvery /\ (s \notin HasObjects => t \in dirs[s])
    BY DEF OkMeansBackedUp, OkInv, Pushed, OffHost
  <2> USE DEF OkInv, PruneInv, IInv
  <2>1. s \in Services /\ RecentDump(s)
    BY InventoryAssumption DEF Pushed
  <2>2. PICK t \in GoodDumps(s) : run - t[1] <= DumpEvery
    BY <2>1 DEF RecentDump
  <2>3. CASE s \in HasObjects
    BY <2>2, <2>3
  <2>4. CASE s \notin HasObjects
    <3>1. Good(s) = GoodDumps(s)
      BY <2>1, <2>4 DEF LogShape, Good, GoodDumps
    <3>2. PICK m \in Good(s) : Newest(s, m)
      BY <2>1, <2>2, <3>1 DEF HasNewest
    <3>3. m \in dirs[s]
      BY <2>1, <3>2, NewestKept DEF RetentionKept
    <3>4. t[1] <= m[1] /\ t[1] \in Nat /\ m[1] \in Nat
      BY <2>1, <2>2, <3>1, <3>2, OrderTypes DEF Newest, Ordered
    <3>5. run \in Int
      BY NightsAssumption DEF TypeOK, Nights, Never
    <3> QED BY <2>2, <3>1, <3>2, <3>3, <3>4, <3>5, PolicyAssumption
  <2> QED BY <2>3, <2>4
<1> QED BY <1>1, <1>2, <1>3, PTL DEF Spec

-----------------------------------------------------------------------------
(* The archiver's count (WalCheck) *)

\* The first look finds no file.
LEMMA WalInitTypes == WalInit => WalTypeOK
<1> SUFFICES ASSUME WalInit PROVE WalTypeOK
  OBVIOUS
<1>1. silenced \in BOOLEAN
  BY Zenon DEF WalInit
<1>2. failedCount \in Nat /\ archiverFile \in Nat \cup {Absent, Empty} /\ mishaps \in 0..MishapLimit /\ told \in Nat
  BY LimitAssumption DEF WalInit
<1>3. /\ stage \in [Lookers -> Stages] /\ service \in [Lookers -> WalServices]
      /\ count \in [Lookers -> Nat] /\ previous \in [Lookers -> Nat \cup {Null}] /\ halfLines \subseteq WalServices
  BY DEF WalInit, Stages
<1> QED BY <1>1, <1>2, <1>3 DEF WalTypeOK

LEMMA WalNextTypes == WalTypeOK /\ [WalNext]_walVars => WalTypeOK'
<1> SUFFICES ASSUME WalTypeOK, [WalNext]_walVars PROVE WalTypeOK'
  OBVIOUS
<1> USE DEF WalTypeOK, Mishap, At, Stages, Absent, Empty, Null, lookVars
<1>1. CASE ArchiverFails
  BY <1>1 DEF ArchiverFails
<1>2. ASSUME NEW p \in Lookers, NEW s \in WalServices, Ask(p, s) \/ AskFails(p, s) PROVE WalTypeOK'
  <2>1. mishaps' \in 0..MishapLimit
    BY <1>2, LimitAssumption DEF Ask, AskFails
  <2>2. silenced' \in BOOLEAN /\ told' \in Nat /\ failedCount' \in Nat /\ archiverFile' \in Nat \cup {Absent, Empty}
    BY <1>2, Zenon DEF Ask, AskFails
  <2>3. stage' \in [Lookers -> Stages] /\ service' \in [Lookers -> WalServices] /\ count' \in [Lookers -> Nat]
    BY <1>2 DEF Ask, AskFails
  <2> QED BY <1>2, <2>1, <2>2, <2>3 DEF Ask, AskFails
<1>3. ASSUME NEW p \in Lookers, ReadArchiver(p) PROVE WalTypeOK'
  <2>1. told' \in Nat /\ silenced' \in BOOLEAN
    BY <1>3 DEF ReadArchiver
  <2>2. previous' \in [Lookers -> Nat \cup {Null}]
    BY <1>3 DEF ReadArchiver
  <2> QED BY <1>3, <2>1, <2>2 DEF ReadArchiver
<1>4. ASSUME NEW p \in Lookers, OpenFails(p) \/ Truncate(p) \/ WriteArchiver(p) PROVE WalTypeOK'
  <2>1. mishaps' \in 0..MishapLimit
    BY <1>4, LimitAssumption DEF OpenFails, Truncate, WriteArchiver
  <2>2. silenced' \in BOOLEAN /\ told' \in Nat /\ failedCount' \in Nat
    BY <1>4, Zenon DEF OpenFails, Truncate, WriteArchiver
  <2>3. stage' \in [Lookers -> Stages] /\ archiverFile' \in Nat \cup {Absent, Empty}
    BY <1>4 DEF OpenFails, Truncate, WriteArchiver
  <2> QED BY <1>4, <2>1, <2>2, <2>3 DEF OpenFails, Truncate, WriteArchiver
<1>5. ASSUME NEW p \in Lookers, WriteFails(p) \/ AppendFails(p) \/ Dies(p) PROVE WalTypeOK'
  <2>1. mishaps' \in 0..MishapLimit
    BY <1>5, LimitAssumption DEF WriteFails, AppendFails, Dies
  <2>2. silenced' \in BOOLEAN
    BY <1>5 DEF WriteFails, AppendFails, Dies, Forgets
  <2>3. stage' \in [Lookers -> Stages] /\ halfLines' \subseteq WalServices
    BY <1>5 DEF WriteFails, AppendFails, Dies
  <2> QED BY <1>5, <2>1, <2>2, <2>3 DEF WriteFails, AppendFails, Dies
<1>6. ASSUME NEW p \in Lookers, AppendRecord(p) PROVE WalTypeOK'
  <2>1. told' \in Nat /\ silenced' \in BOOLEAN
    BY <1>6 DEF AppendRecord, Forgets
  <2> QED BY <1>6, <2>1 DEF AppendRecord
<1>7. CASE UNCHANGED walVars
  BY <1>7 DEF walVars
<1> QED BY <1>1, <1>2, <1>3, <1>4, <1>5, <1>6, <1>7 DEF WalNext, Look

\* Who has compared will report a rise itself, or knows of nothing new.
WalInv ==
    silenced \/ /\ archiverFile \in {Absent, Empty} \/ Known(archiverFile)
                /\ \A p \in Lookers : stage[p] \in {"compared", "write"} => Rose(p) \/ Known(count[p])

\* The process has compared and not yet written.
Held(p) == stage[p] \in {"compared", "write"}

\* What is known stays known while nobody stops reporting.
LEMMA KnownStays ==
    ASSUME WalTypeOK, told' \in Nat, told <= told', NEW n \in Nat, Known(n),
           \A p \in Lookers : Reporting(p) => Reporting(p)' /\ count'[p] = count[p]
    PROVE  n <= told' \/ \E p \in Lookers : Reporting(p)' /\ count'[p] >= n
<1>1. CASE n <= told
  BY <1>1 DEF WalTypeOK
<1>2. ASSUME NEW p \in Lookers, Reporting(p), count[p] >= n
      PROVE  \E q \in Lookers : Reporting(q)' /\ count'[q] >= n
  BY <1>2
<1> QED BY <1>1, <1>2 DEF Known

\* The steps after which nobody reports less.
LEMMA Undisturbed ==
    ASSUME WalTypeOK, WalTypeOK', WalInv, silenced => silenced', told <= told',
           \A q \in Lookers : Reporting(q) => Reporting(q)' /\ count'[q] = count[q],
           ~silenced' => archiverFile' \in {Absent, Empty, archiverFile},
           \A q \in Lookers : Held(q)' => Held(q) /\ count'[q] = count[q] /\ previous'[q] = previous[q]
    PROVE  WalInv'
<1> SUFFICES ASSUME ~silenced' PROVE WalInv'
  BY DEF WalInv
<1>0. told' \in Nat
  BY DEF WalTypeOK
<1>1. archiverFile' \in {Absent, Empty} \/ Known(archiverFile)'
  <2> SUFFICES ASSUME archiverFile' = archiverFile, archiverFile \in Nat PROVE Known(archiverFile)'
    BY DEF WalTypeOK
  <2>1. Known(archiverFile)
    BY DEF WalInv, Absent, Empty
  <2> QED BY <1>0, <2>1, KnownStays DEF Known
<1>2. ASSUME NEW q \in Lookers, Held(q)' PROVE Rose(q)' \/ Known(count[q])'
  <2>1. Held(q) /\ count'[q] = count[q] /\ previous'[q] = previous[q] /\ count[q] \in Nat
    BY <1>2 DEF WalTypeOK
  <2>2. Rose(q) \/ Known(count[q])
    BY <2>1 DEF WalInv, Held
  <2>3. CASE Rose(q)
    BY <2>1, <2>3 DEF Rose
  <2>4. CASE Known(count[q])
    BY <1>0, <2>1, <2>4, KnownStays DEF Known
  <2> QED BY <2>2, <2>3, <2>4
<1> QED BY <1>1, <1>2 DEF WalInv, Held

\* A process that stops has nothing to report, or silenced says that it forgets it.
LEMMA Stopped ==
    ASSUME WalTypeOK, WalTypeOK', WalInv, NEW p \in Lookers, Forgets(p), told' = told, archiverFile' = archiverFile,
           UNCHANGED <<count, previous>>, \A q \in Lookers : q # p => stage'[q] = stage[q], ~Held(p)'
    PROVE  WalInv'
<1> SUFFICES ASSUME ~silenced' PROVE WalInv'
  BY DEF WalInv
<1>0. ~silenced /\ ~(Reporting(p) /\ count[p] > told) /\ told \in Nat
  BY DEF Forgets, WalTypeOK
<1>1. ASSUME NEW n \in Nat, Known(n) PROVE n <= told' \/ \E q \in Lookers : Reporting(q)' /\ count'[q] >= n
  <2>1. CASE n <= told
    BY <2>1
  <2>2. ASSUME NEW q \in Lookers, Reporting(q), count[q] >= n
        PROVE n <= told' \/ \E r \in Lookers : Reporting(r)' /\ count'[r] >= n
    <3>1. CASE q = p
      BY <1>0, <2>2, <3>1 DEF WalTypeOK
    <3>2. CASE q # p
      BY <2>2, <3>2 DEF Reporting, Rose
    <3> QED BY <3>1, <3>2
  <2> QED BY <1>1, <2>1, <2>2 DEF Known
<1>2. archiverFile' \in {Absent, Empty} \/ Known(archiverFile)'
  <2> SUFFICES ASSUME archiverFile \in Nat PROVE Known(archiverFile)'
    BY DEF WalTypeOK
  <2>1. Known(archiverFile)
    BY <1>0 DEF WalInv, Absent, Empty
  <2> QED BY <1>1, <2>1 DEF Known
<1>3. ASSUME NEW q \in Lookers, Held(q)' PROVE Rose(q)' \/ Known(count[q])'
  <2>1. q # p /\ Held(q) /\ count[q] \in Nat
    BY <1>3 DEF WalTypeOK, Held
  <2>2. Rose(q) \/ Known(count[q])
    BY <1>0, <2>1 DEF WalInv, Held
  <2> QED BY <1>1, <2>1, <2>2 DEF Rose, Known
<1> QED BY <1>2, <1>3 DEF WalInv, Held

LEMMA WalStep == WalTypeOK /\ WalInv /\ [WalNext]_walVars => WalInv'
<1> SUFFICES ASSUME WalTypeOK, WalTypeOK', WalInv, [WalNext]_walVars PROVE WalInv'
  BY WalNextTypes
<1>0. told \in Nat /\ told' \in Nat /\ silenced \in BOOLEAN
  BY DEF WalTypeOK
<1> USE DEF At, lookVars
<1>1. CASE ArchiverFails \/ UNCHANGED walVars
  BY <1>0, <1>1, Undisturbed DEF ArchiverFails, walVars, Reporting, Rose, Held
<1>2. ASSUME NEW p \in Lookers, NEW s \in WalServices, Ask(p, s) \/ AskFails(p, s) PROVE WalInv'
  BY <1>0, <1>2, Undisturbed DEF Ask, AskFails, Reporting, Rose, Held, WalTypeOK
<1>3. ASSUME NEW p \in Lookers, OpenFails(p) PROVE WalInv'
  BY <1>0, <1>3, Undisturbed DEF OpenFails, Reporting, Rose, Held, WalTypeOK
<1>4. ASSUME NEW p \in Lookers, Truncate(p) PROVE WalInv'
  BY <1>0, <1>4, Undisturbed DEF Truncate, Reporting, Rose, Held, WalTypeOK
<1>5. ASSUME NEW p \in Lookers, WriteFails(p) \/ AppendFails(p) \/ Dies(p) PROVE WalInv'
  BY <1>5, Stopped DEF WriteFails, AppendFails, Dies, Held, WalTypeOK
<1>6. ASSUME NEW p \in Lookers, ReadArchiver(p) PROVE WalInv'
  <2> SUFFICES ASSUME ~silenced' PROVE WalInv'
    BY DEF WalInv
  <2>0. ~silenced /\ ~(archiverFile = Empty /\ ~Known(count[p])) /\ stage[p] = "asked"
    BY <1>6, Zenon DEF ReadArchiver
  <2>1. /\ ~silenced /\ told <= told' /\ archiverFile' = archiverFile /\ UNCHANGED count
        /\ count[p] \in Nat /\ stage[p] = "asked" /\ ~(archiverFile = Empty /\ ~Known(count[p]))
    <3>1. count[p] \in Nat /\ archiverFile' = archiverFile /\ UNCHANGED count
      BY <1>6 DEF ReadArchiver, WalTypeOK
    <3>2. told <= told'
      BY <1>0, <1>6, <3>1 DEF ReadArchiver
    <3> QED BY <2>0, <3>1, <3>2
  <2>2. \A q \in Lookers : Reporting(q) => Reporting(q)' /\ count'[q] = count[q]
    BY <1>6, <2>1 DEF ReadArchiver, Reporting, Rose, WalTypeOK
  <2>3. ASSUME NEW n \in Nat, Known(n) PROVE n <= told' \/ \E q \in Lookers : Reporting(q)' /\ count'[q] >= n
    BY <1>0, <2>1, <2>2, <2>3, KnownStays
  <2>4. archiverFile' \in {Absent, Empty} \/ Known(archiverFile)'
    <3> SUFFICES ASSUME archiverFile \in Nat PROVE Known(archiverFile)'
      BY <2>1 DEF WalTypeOK
    <3>1. Known(archiverFile)
      BY <2>1 DEF WalInv, Absent, Empty
    <3> QED BY <2>1, <2>3, <3>1 DEF Known
  <2>5. Rose(p)' \/ Known(count[p])'
    <3>1. CASE archiverFile = Absent
      <4>1. count'[p] <= told'
        BY <1>0, <1>6, <2>1, <3>1 DEF ReadArchiver
      <4> QED BY <4>1 DEF Known
    <3>2. CASE archiverFile = Empty
      BY <2>1, <2>3, <3>2 DEF Known
    <3>3. CASE archiverFile \in Nat
      <4>1. previous'[p] = archiverFile /\ archiverFile # Null
        BY <1>6, <3>3 DEF ReadArchiver, WalTypeOK, Absent, Empty, Null
      <4>2. Known(archiverFile)
        BY <2>1, <3>3 DEF WalInv, Absent, Empty
      <4>3. count[p] <= archiverFile => Known(count[p])
        BY <1>0, <2>1, <3>3, <4>2 DEF Known, WalTypeOK
      <4>4. CASE count[p] > archiverFile
        BY <2>1, <4>1, <4>4 DEF Rose
      <4>5. CASE count[p] <= archiverFile
        BY <2>1, <2>3, <4>3, <4>5 DEF Known
      <4> QED BY <2>1, <3>3, <4>4, <4>5
    <3> QED BY <3>1, <3>2, <3>3 DEF WalTypeOK
  <2>6. ASSUME NEW q \in Lookers, Held(q)', q # p PROVE Rose(q)' \/ Known(count[q])'
    <3>1. Held(q) /\ previous'[q] = previous[q] /\ count[q] \in Nat
      BY <1>6, <2>6 DEF ReadArchiver, WalTypeOK, Held
    <3>2. Rose(q) \/ Known(count[q])
      BY <2>1, <3>1 DEF WalInv, Held
    <3> QED BY <2>1, <2>3, <3>1, <3>2 DEF Rose, Known
  <2> QED BY <2>4, <2>5, <2>6 DEF WalInv, Held
<1>7. ASSUME NEW p \in Lookers, WriteArchiver(p) PROVE WalInv'
  <2> SUFFICES ASSUME ~silenced' PROVE WalInv'
    BY DEF WalInv
  <2>1. /\ ~silenced /\ told' = told /\ archiverFile' = count[p] /\ UNCHANGED <<count, previous>>
        /\ count[p] \in Nat /\ stage[p] = "write"
    BY <1>7 DEF WriteArchiver, WalTypeOK
  <2>2. \A q \in Lookers : Reporting(q) => Reporting(q)' /\ count'[q] = count[q]
    BY <1>7, <2>1 DEF WriteArchiver, Reporting, Rose, WalTypeOK
  <2>3. ASSUME NEW n \in Nat, Known(n) PROVE n <= told' \/ \E q \in Lookers : Reporting(q)' /\ count'[q] >= n
    BY <1>0, <2>1, <2>2, <2>3, KnownStays
  <2>4. Known(archiverFile)'
    <3>1. Rose(p) \/ Known(count[p])
      BY <2>1 DEF WalInv
    <3>2. CASE Rose(p)
      <4>1. Reporting(p)
        BY <2>1, <3>2 DEF Reporting
      <4>2. Known(count[p])
        BY <2>1, <4>1 DEF Known
      <4> QED BY <2>1, <2>3, <4>2 DEF Known
    <3>3. CASE Known(count[p])
      BY <2>1, <2>3, <3>3 DEF Known
    <3> QED BY <3>1, <3>2, <3>3
  <2>5. ASSUME NEW q \in Lookers, Held(q)' PROVE Rose(q)' \/ Known(count[q])'
    <3>1. Held(q) /\ count[q] \in Nat
      BY <1>7, <2>5 DEF WriteArchiver, WalTypeOK, Held
    <3>2. Rose(q) \/ Known(count[q])
      BY <2>1, <3>1 DEF WalInv, Held
    <3> QED BY <2>1, <2>3, <3>1, <3>2 DEF Rose, Known
  <2> QED BY <2>4, <2>5 DEF WalInv, Held
<1>8. ASSUME NEW p \in Lookers, AppendRecord(p) PROVE WalInv'
  <2>1. CASE service[p] \in halfLines
    BY <1>8, <2>1, Stopped DEF AppendRecord, Held, WalTypeOK
  <2>2. CASE service[p] \notin halfLines /\ ~Reporting(p)
    BY <1>0, <1>8, <2>2, Undisturbed DEF AppendRecord, Reporting, Rose, Held, WalTypeOK
  <2>3. CASE service[p] \notin halfLines /\ Reporting(p)
    <3> SUFFICES ASSUME ~silenced' PROVE WalInv'
      BY DEF WalInv
    <3>1. /\ ~silenced /\ told <= told' /\ count[p] <= told' /\ UNCHANGED <<archiverFile, count, previous>>
          /\ count[p] \in Nat
      BY <1>0, <1>8, <2>3 DEF AppendRecord, WalTypeOK
    <3>2. \A q \in Lookers : q # p => stage'[q] = stage[q]
      BY <1>8 DEF AppendRecord, WalTypeOK
    <3>3. ASSUME NEW n \in Nat, Known(n) PROVE n <= told' \/ \E q \in Lookers : Reporting(q)' /\ count'[q] >= n
      <4>1. CASE n <= told
        BY <1>0, <3>1, <4>1
      <4>2. ASSUME NEW q \in Lookers, Reporting(q), count[q] >= n
            PROVE n <= told' \/ \E r \in Lookers : Reporting(r)' /\ count'[r] >= n
        <5>1. CASE q = p
          BY <1>0, <3>1, <4>2, <5>1
        <5>2. CASE q # p
          BY <3>1, <3>2, <4>2, <5>2 DEF Reporting, Rose
        <5> QED BY <5>1, <5>2
      <4> QED BY <3>3, <4>1, <4>2 DEF Known
    <3>4. archiverFile' \in {Absent, Empty} \/ Known(archiverFile)'
      <4> SUFFICES ASSUME archiverFile \in Nat PROVE Known(archiverFile)'
        BY <3>1 DEF WalTypeOK
      <4>1. Known(archiverFile)
        BY <3>1 DEF WalInv, Absent, Empty
      <4> QED BY <3>1, <3>3, <4>1 DEF Known
    <3>5. ASSUME NEW q \in Lookers, Held(q)' PROVE Rose(q)' \/ Known(count[q])'
      <4>1. q # p /\ Held(q) /\ count[q] \in Nat
        BY <1>8, <3>2, <3>5 DEF AppendRecord, WalTypeOK, Held
      <4>2. Rose(q) \/ Known(count[q])
        BY <3>1, <4>1 DEF WalInv, Held
      <4> QED BY <3>1, <3>3, <4>1, <4>2 DEF Rose, Known
    <3> QED BY <3>4, <3>5 DEF WalInv, Held
  <2> QED BY <2>1, <2>2, <2>3
<1> QED BY <1>1, <1>2, <1>3, <1>4, <1>5, <1>6, <1>7, <1>8 DEF WalNext, Look

\* A count the host remembers has been named in a failed record, or is about to be, for any
\* processes and services, unless the process that saw the rise died or could not write, its
\* record went behind half a line, or the file was found empty (verifyPostgres, writeArchiver
\* and the append of a failed verification in lib/commands/backup.js).
THEOREM WalTheorem == WalSpec => []WalRiseRecorded
<1>1. WalInit => WalInv
  BY DEF WalInit, WalInv
<1>2. WalInv => WalRiseRecorded
  BY DEF WalInv, WalRiseRecorded
<1> QED BY <1>1, <1>2, WalInitTypes, WalNextTypes, WalStep, PTL DEF WalSpec
=============================================================================
