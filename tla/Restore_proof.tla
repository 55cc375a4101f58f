--------------------------- MODULE Restore_proof ---------------------------
(***************************************************************************)
(* Proofs about what backups are kept for.  First Offsite and the format   *)
(* of its objects: an object that opens is a whole file, what a restore    *)
(* leaves on disk is what a run has copied and all of it, and what a push  *)
(* reported as stored stays there.  Then Drill, for any drills, databases, *)
(* mishaps, kills and deploys and any drill block, backup and release:     *)
(* what runs, what is left behind, and who answered a drill that passed.   *)
(***************************************************************************)
EXTENDS Offsite, Drill, SequenceTheorems, FiniteSetTheorems, TLAPS

(***************************************************************************)
(* Division of a natural number (the number of chunks of a file).          *)
(***************************************************************************)
LEMMA DivisionNat ==
    ASSUME NEW n \in Nat, NEW c \in Nat, c >= 1
    PROVE  n \div c \in Nat
<1>1. n \div c \in Int
  BY SMT
<1>2. n \div c >= 0
  BY SMT
<1> QED
  BY <1>1, <1>2

(***************************************************************************)
(* A file has at least one chunk (createEncryptStream: the final chunk is  *)
(* always written).                                                        *)
(***************************************************************************)
LEMMA ChunksPositive ==
    ASSUME NEW plain \in Plaintexts
    PROVE  Chunks(plain) \in Nat /\ Chunks(plain) >= 1
<1>1. Len(plain) \in Nat
  BY DEF Plaintexts
<1>2. ChunkSize \in Nat /\ ChunkSize >= 1
  BY ChunkSizeAssumption
<1>3. CASE Len(plain) = 0
  BY <1>3 DEF Chunks
<1>4. CASE Len(plain) # 0
  <2>1. Len(plain) - 1 \in Nat
    BY <1>1, <1>4
  <2>2. (Len(plain) - 1) \div ChunkSize \in Nat
    BY <1>2, <2>1, DivisionNat
  <2> QED
    BY <1>4, <2>2 DEF Chunks
<1> QED
  BY <1>3, <1>4

(***************************************************************************)
(* What the encryptor writes opens with its key (createEncryptStream and   *)
(* createDecryptStream frame the chunks alike).                            *)
(***************************************************************************)
THEOREM EncryptedOpens ==
    ASSUME NEW master, NEW salt, NEW plain \in Plaintexts
    PROVE  Decrypts(master, Encrypt(master, salt, plain))
<1> DEFINE object == Encrypt(master, salt, plain)
           n == Chunks(plain)
<1>1. n \in Nat /\ n >= 1
  BY ChunksPositive
<1>2. object.header = Header(master, salt) /\ object.blocks = [i \in 1..n |-> SealedChunk(master, salt, plain, i)]
  BY DEF Encrypt
<1> HIDE DEF object, n
<1>3. Len(object.blocks) = n /\ DOMAIN object.blocks = 1..n /\ object.blocks # <<>>
  BY <1>1, <1>2
<1>4. ASSUME NEW i \in 1..n
      PROVE  OpenChunk(master, object, i)
  BY <1>1, <1>2, <1>3, <1>4 DEF OpenChunk, OpensAs, SealedChunk, SealChunk, Header, n
<1> QED
  BY <1>2, <1>3, <1>4 DEF Decrypts, Header, object

(***************************************************************************)
(* An object made of blocks of whatever files the bucket holds, in any     *)
(* order, repeated or left out, opens only if it is one of those files,    *)
(* whole: salts are drawn afresh, so FileOf names the one file a salt was  *)
(* drawn for (backup-crypto.js: the index and the final flag in the nonce, *)
(* the header in the additional data, one key per salt).                   *)
(***************************************************************************)
THEOREM OpenedIsWhole ==
    ASSUME NEW master \in Masters, NEW FileOf \in [Salts -> Plaintexts],
           NEW object,
           object = [header |-> object.header, blocks |-> object.blocks],
           NEW Blocks, object.blocks \in Seq(Blocks),
           \A b \in Blocks : \E m \in Masters, s \in Salts :
              \E i \in 1..Chunks(FileOf[s]) : b = SealedChunk(m, s, FileOf[s], i),
           Decrypts(master, object)
    PROVE  \E s \in Salts : object = Encrypt(master, s, FileOf[s])
<1> DEFINE n == Len(object.blocks)
           salt == object.header.salt
           plain == FileOf[salt]
<1>1. n \in Nat /\ n >= 1 /\ DOMAIN object.blocks = 1..n /\ object.blocks = [i \in 1..n |-> object.blocks[i]]
  BY DEF Decrypts
<1>2. ASSUME NEW i \in 1..n
      PROVE  /\ salt \in Salts
             /\ object.header = Header(master, salt)
             /\ i \in 1..Chunks(plain)
             /\ object.blocks[i] = SealedChunk(master, salt, plain, i)
             /\ (i = n) <=> (i = Chunks(plain))
  <2>1. object.blocks[i] \in Blocks
    BY <1>1, <1>2
  <2>2. PICK m \in Masters, s \in Salts :
           \E j \in 1..Chunks(FileOf[s]) : object.blocks[i] = SealedChunk(m, s, FileOf[s], j)
    BY <2>1
  <2>3. PICK j \in 1..Chunks(FileOf[s]) : object.blocks[i] = SealedChunk(m, s, FileOf[s], j)
    BY <2>2
  <2>4. OpenChunk(master, object, i)
    BY <1>1, <1>2 DEF Decrypts
  <2>5. /\ <<m, s>> = <<master, salt>>
        /\ Header(m, s) = object.header
        /\ j - 1 = i - 1
        /\ (j = Chunks(FileOf[s])) = (i = n)
    BY <2>3, <2>4 DEF OpenChunk, OpensAs, SealedChunk, SealChunk, FileKey
  <2>6. m = master /\ s = salt /\ j = i
    <3>1. Chunks(FileOf[s]) \in Nat
      BY ChunksPositive
    <3> QED
      BY <2>5, <3>1, <1>1
  <2> QED
    BY <2>2, <2>3, <2>5, <2>6
<1>3. n = Chunks(plain) /\ salt \in Salts /\ object.header = Header(master, salt)
  BY <1>1, <1>2
<1>4. object.blocks = [i \in 1..Chunks(plain) |-> SealedChunk(master, salt, plain, i)]
  BY <1>1, <1>2, <1>3
<1>5. object = Encrypt(master, salt, plain)
  BY <1>3, <1>4 DEF Encrypt
<1> QED
  BY <1>3, <1>5
-----------------------------------------------------------------------------
(***************************************************************************)
(* Induction: a set with zero and all successors has every natural number, *)
(* else the members of 0..n outside it would be mapped one to one onto     *)
(* themselves without n.                                                   *)
(***************************************************************************)
LEMMA SetInduction ==
    ASSUME NEW T, 0 \in T, \A n \in Nat : n \in T => n + 1 \in T
    PROVE  Nat \subseteq T
<1> SUFFICES ASSUME NEW n \in Nat, n \notin T PROVE FALSE
  OBVIOUS
<1> DEFINE S == {m \in 0..n : m \notin T}
           down == [m \in S |-> m - 1]
<1>1. IsFiniteSet(S)
  <2>1. IsFiniteSet(0..n)
    BY FS_Interval
  <2>2. S \in SUBSET (0..n)
    OBVIOUS
  <2> HIDE DEF S
  <2> QED BY <2>1, <2>2, FS_Subset
<1>2. \A m \in S : m # 0 /\ m - 1 \in S
  OBVIOUS
<1>3. down \in Injection(S, S)
  BY <1>2 DEF Injection, IsInjective
<1>4. down \in Surjection(S, S)
  BY <1>1, <1>3, FS_Injection
<1>5. n \in S
  OBVIOUS
<1>6. PICK m \in S : down[m] = n
  BY <1>4, <1>5 DEF Surjection
<1> QED BY <1>6

(***************************************************************************)
(* Adjacent pieces of a sequence, put together again.                      *)
(***************************************************************************)
LEMMA FlattenCut ==
    ASSUME NEW S, NEW s \in Seq(S), NEW n \in Nat \ {0}, NEW cut \in [0..n -> 0..Len(s)],
           cut[0] = 0, \A i \in 1..n : cut[i - 1] <= cut[i],
           NEW parts, Len(parts) = n, \A i \in 1..n : parts[i] = SubSeq(s, cut[i - 1] + 1, cut[i])
    PROVE  FlattenSeq(parts) = SubSeq(s, 1, cut[n])
<1> DEFINE Flat(f) == f = [i \in 1..Len(parts) |-> IF i = 1 THEN parts[i] ELSE f[i - 1] \o parts[i]]
           prefix == [i \in 1..n |-> SubSeq(s, 1, cut[i])]
           flat == CHOOSE f : Flat(f)
<1>1. Len(parts) = n
  OBVIOUS
<1>2. \A i \in 2..n : prefix[i - 1] \o parts[i] = prefix[i]
  <2> TAKE i \in 2..n
  <2>1. i - 1 \in 1..n /\ i \in 1..n /\ i - 1 \in 0..n /\ i \in 0..n /\ 1 \in 1..Len(s) + 1
    OBVIOUS
  <2>a. cut[i - 1] \in 0..Len(s) /\ cut[i] \in 0..Len(s) /\ cut[i - 1] <= cut[i]
    BY <2>1
  <2>2. SubSeq(s, 1, cut[i - 1]) \o SubSeq(s, cut[i - 1] + 1, cut[i]) = SubSeq(s, 1, cut[i])
    <3>1. \A k \in 0..Len(s) : \A m \in k..Len(s) : SubSeq(s, 1, k) \o SubSeq(s, k + 1, m) = SubSeq(s, 1, m)
      <4> TAKE k \in 0..Len(s)
      <4> TAKE m \in k..Len(s)
      <4>1. k \in 1 - 1..Len(s) /\ 1 \in 1..Len(s) + 1
        OBVIOUS
      <4> QED BY <4>1, ConcatAdjacentSubSeq
    <3>2. cut[i] \in cut[i - 1]..Len(s)
      BY <2>a
    <3> QED BY <2>a, <3>1, <3>2
  <2> QED BY <2>1, <2>2
<1>3. parts[1] = prefix[1]
  <2>1. 1 \in 1..n /\ 1 - 1 = 0 /\ cut[0] + 1 = 1
    OBVIOUS
  <2>2. parts[1] = SubSeq(s, cut[1 - 1] + 1, cut[1])
    BY <2>1
  <2> QED BY <2>1, <2>2
<1> HIDE DEF prefix
<1>4. Flat(prefix)
  <2>1. \A i \in 1..n : prefix[i] = IF i = 1 THEN parts[i] ELSE prefix[i - 1] \o parts[i]
    <3> TAKE i \in 1..n
    <3>1. CASE i = 1
      BY <1>3, <3>1
    <3>2. CASE i # 1
      <4>1. i \in 2..n
        BY <3>2
      <4> QED BY <1>2, <3>2, <4>1
    <3> QED BY <3>1, <3>2
  <2> QED BY <1>1, <2>1 DEF prefix
<1>5. Flat(flat)
  <2> HIDE DEF Flat
  <2> QED BY <1>4
<1> HIDE DEF flat
<1>6. \A i \in 1..n : flat[i] = IF i = 1 THEN parts[i] ELSE flat[i - 1] \o parts[i]
  <2>1. flat = [i \in 1..n |-> IF i = 1 THEN parts[i] ELSE flat[i - 1] \o parts[i]]
    BY <1>1, <1>5
  <2> QED BY <2>1
<1>7. \A i \in 1..n : flat[i] = prefix[i]
  <2> DEFINE T == {m \in Nat : m \in 1..n => flat[m] = prefix[m]}
  <2>1. \A m \in Nat : m \in T => m + 1 \in T
    <3> SUFFICES ASSUME NEW m \in Nat, m \in T, m + 1 \in 1..n
                 PROVE  flat[m + 1] = prefix[m + 1]
      OBVIOUS
    <3>1. CASE m = 0
      <4>1. m + 1 = 1 /\ 1 \in 1..n /\ flat[1] = parts[1]
        BY <1>6, <3>1
      <4> QED BY <1>3, <4>1
    <3>2. CASE m # 0
      <4>1. m \in 1..n /\ m + 1 \in 2..n /\ m + 1 - 1 = m /\ m + 1 # 1
        BY <3>2
      <4>2. flat[m] = prefix[m]
        BY <4>1
      <4>3. prefix[m] \o parts[m + 1] = prefix[m + 1]
        <5> DEFINE i == m + 1
        <5>1. i \in 2..n /\ m = i - 1
          BY <4>1
        <5> HIDE DEF i
        <5>2. prefix[m] \o parts[i] = prefix[i]
          BY <1>2, <5>1
        <5> QED BY <5>2 DEF i
      <4>4. flat[m + 1] = flat[m] \o parts[m + 1]
        <5> DEFINE i == m + 1
        <5>1. i \in 1..n /\ m = i - 1 /\ i # 1
          BY <4>1
        <5> HIDE DEF i
        <5>2. flat[i] = flat[m] \o parts[i]
          BY <1>6, <5>1
        <5> QED BY <5>2 DEF i
      <4> QED BY <4>2, <4>3, <4>4
    <3> QED BY <3>1, <3>2
  <2>2. Nat \subseteq T
    <3>1. 0 \in T
      OBVIOUS
    <3> HIDE DEF T
    <3> QED BY <2>1, <3>1, SetInduction
  <2> QED BY <2>2
<1>8. FlattenSeq(parts) = flat[n]
  BY <1>1 DEF FlattenSeq, flat
<1> QED BY <1>7, <1>8 DEF prefix

LEMMA Multiples ==
    ASSUME NEW n \in Nat, NEW c \in Nat \ {0}
    PROVE  /\ n \div c \in Nat /\ (n \div c) * c <= n
           /\ \A i, j \in Nat : i <= j => i * c \in Nat /\ i * c <= j * c
<1>1. n \div c \in Nat
  BY DivisionNat
<1>2. (n \div c) * c <= n
  BY SMT
<1>3. ASSUME NEW i \in Nat, NEW j \in Nat, i <= j
      PROVE  i * c \in Nat /\ i * c <= j * c
  <2>1. i * c \in Nat /\ (j - i) * c \in Nat /\ j * c = i * c + (j - i) * c
    BY <1>3, SMT
  <2> QED BY <2>1
<1> QED BY <1>1, <1>2, <1>3

(***************************************************************************)
(* A multipart upload leaves the blocks it was given under the key         *)
(* (uploadIterable), and what is decrypted from an object is the file that *)
(* was encrypted (createDecryptStream).                                    *)
(***************************************************************************)
LEMMA UploadKeeps ==
    ASSUME NEW S, NEW stream \in Seq(S)
    PROVE  UploadIterable(stream) = stream
<1> DEFINE n == FullParts(stream)
           parts == [i \in 1..n |-> Part(stream, i)]
<1>1. Len(stream) \in Nat /\ PartSize \in Nat \ {0}
  BY PartsAssumption
<1>2. n \in Nat /\ n * PartSize \in 0..Len(stream)
  BY <1>1, Multiples DEF FullParts
<1>3. FlattenSeq(parts) = SubSeq(stream, 1, n * PartSize)
  <2>1. CASE n = 0
    <3>1. parts = << >>
      BY <2>1
    <3>2. SubSeq(stream, 1, n * PartSize) = << >>
      BY <1>1, <2>1, SubSeqEmpty
    <3> HIDE DEF parts
    <3> QED BY <3>1, <3>2 DEF FlattenSeq
  <2>2. CASE n # 0
    <3> DEFINE cut == [i \in 0..n |-> i * PartSize]
    <3>1. cut \in [0..n -> 0..Len(stream)] /\ cut[0] = 0 /\ cut[n] = n * PartSize
          /\ \A i \in 1..n : cut[i - 1] <= cut[i]
      BY <1>1, <1>2, Multiples
    <3>2. Len(parts) = n /\ \A i \in 1..n : parts[i] = SubSeq(stream, cut[i - 1] + 1, cut[i])
      BY <1>2 DEF Part
    <3>3. n \in Nat \ {0}
      BY <1>2, <2>2
    <3> HIDE DEF cut, n, parts
    <3>4. FlattenSeq(parts) = SubSeq(stream, 1, cut[n])
      BY <3>1, <3>2, <3>3, FlattenCut
    <3> QED BY <3>1, <3>4
  <2> QED BY <2>1, <2>2
<1>4. UploadIterable(stream) = FlattenSeq(parts) \o Rest(stream)
  BY DEF UploadIterable
<1>5. Rest(stream) = SubSeq(stream, n * PartSize + 1, Len(stream))
  BY DEF Rest
<1> HIDE DEF n, parts
<1>6. SubSeq(stream, 1, n * PartSize) \o SubSeq(stream, n * PartSize + 1, Len(stream)) = stream
  <2>1. n * PartSize \in 1 - 1..Len(stream) /\ 1 \in 1..Len(stream) + 1 /\ Len(stream) \in n * PartSize..Len(stream)
    BY <1>1, <1>2
  <2>2. SubSeq(stream, 1, n * PartSize) \o SubSeq(stream, n * PartSize + 1, Len(stream))
           = SubSeq(stream, 1, Len(stream))
    BY <2>1, ConcatAdjacentSubSeq
  <2> QED BY <2>2, SubSeqFull
<1> QED BY <1>3, <1>4, <1>5, <1>6

THEOREM DecryptedIsPlain ==
    ASSUME NEW master, NEW salt, NEW plain \in Plaintexts
    PROVE  DecryptedBytes(master, Encrypt(master, salt, plain)) = plain
<1> DEFINE object == Encrypt(master, salt, plain)
           n == Chunks(plain)
           cut == [i \in 0..n |-> IF i < n THEN i * ChunkSize ELSE Len(plain)]
<1>1. n \in Nat \ {0} /\ ChunkSize \in Nat \ {0} /\ Len(plain) \in Nat /\ plain \in Seq(Bytes)
  BY ChunksPositive, ChunkSizeAssumption DEF Plaintexts
<1>2. /\ object.header.keyId = master /\ DOMAIN object.blocks = 1..n
      /\ \A i \in 1..n : object.blocks[i].plain = Chunk(plain, i)
  BY <1>1 DEF Encrypt, Header, SealedChunk, SealChunk
<1>3. \A i \in 1..n : OpenChunk(master, object, i)
  BY <1>2, EncryptedOpens DEF Decrypts
<1> HIDE DEF object
<1>4. OpenedBlocks(master, object) = n
  <2>1. {i \in DOMAIN object.blocks : object.header.keyId = master
                                        /\ \A j \in 1..i : OpenChunk(master, object, j)} = 1..n
    BY <1>1, <1>2, <1>3
  <2>2. Cardinality(1..n) = n
    BY <1>1, FS_Interval
  <2> QED BY <2>1, <2>2 DEF OpenedBlocks
<1>5. (n - 1) * ChunkSize <= Len(plain)
  <2>1. CASE Len(plain) = 0
    BY <1>1, <2>1 DEF Chunks
  <2>2. CASE Len(plain) # 0
    <3>1. n - 1 = (Len(plain) - 1) \div ChunkSize /\ Len(plain) - 1 \in Nat
      BY <1>1, <2>2, DivisionNat DEF Chunks
    <3> HIDE DEF n
    <3>2. ((Len(plain) - 1) \div ChunkSize) * ChunkSize <= Len(plain) - 1
      BY <1>1, <3>1, Multiples
    <3> QED BY <1>1, <3>1, <3>2
  <2> QED BY <2>1, <2>2
<1>6. cut \in [0..n -> 0..Len(plain)] /\ cut[0] = 0 /\ cut[n] = Len(plain)
      /\ \A i \in 1..n : cut[i - 1] <= cut[i]
  <2> HIDE DEF n
  <2>1. \A i \in 0..n - 1 : i * ChunkSize \in Nat /\ i * ChunkSize <= (n - 1) * ChunkSize
    BY <1>1, Multiples
  <2>2. \A i \in 1..n - 1 : (i - 1) * ChunkSize <= i * ChunkSize
    BY <1>1, Multiples
  <2>3. (n - 1) * ChunkSize \in Nat
    BY <1>1, <2>1
  <2>4. \A i \in 0..n : cut[i] \in 0..Len(plain)
    BY <1>1, <1>5, <2>1, <2>3
  <2>5. \A i \in 1..n : cut[i - 1] <= cut[i]
    BY <1>1, <1>5, <2>2
  <2>6. cut[0] = 0 /\ cut[n] = Len(plain)
    BY <1>1
  <2> HIDE DEF cut
  <2>7. cut \in [0..n -> 0..Len(plain)]
    BY <2>4 DEF cut
  <2> QED BY <2>5, <2>6, <2>7
<1> DEFINE parts == [i \in 1..n |-> object.blocks[i].plain]
<1>7. Len(parts) = n /\ \A i \in 1..n : parts[i] = SubSeq(plain, cut[i - 1] + 1, cut[i])
  <2>1. \A i \in 1..n : Chunk(plain, i) = SubSeq(plain, cut[i - 1] + 1, cut[i])
    <3> TAKE i \in 1..n
    <3>1. i - 1 \in 0..n /\ i \in 0..n /\ i - 1 < n /\ (i < n \/ i = n)
      BY <1>1
    <3>2. cut[i - 1] = (i - 1) * ChunkSize /\ cut[i] = IF i < n THEN i * ChunkSize ELSE Len(plain)
      BY <3>1
    <3> QED BY <3>2 DEF Chunk
  <2> HIDE DEF n, cut
  <2> QED BY <1>1, <1>2, <2>1
<1> HIDE DEF n, cut, parts
<1>8. FlattenSeq(parts) = SubSeq(plain, 1, Len(plain))
  <2>1. FlattenSeq(parts) = SubSeq(plain, 1, cut[n])
    BY <1>1, <1>6, <1>7, FlattenCut
  <2> QED BY <1>6, <2>1
<1>9. SubSeq(plain, 1, Len(plain)) = plain
  BY <1>1, SubSeqFull
<1> QED BY <1>4, <1>8, <1>9 DEF DecryptedBytes, object, parts

-----------------------------------------------------------------------------
(***************************************************************************)
(* The invariant behind RestoredIsPushed.  A manifest entry carries the    *)
(* digest of the copy of its run wherever it is: a bucket can misplace a   *)
(* manifest but not make one.  A file being checked is the one of the      *)
(* entry it is compared with.                                              *)
(***************************************************************************)
Honest(entries) == \A e \in entries : e.plain = Plain[e.run][e.file]

PushShape ==
    /\ DOMAIN push = Pushers
    /\ \A p \in Pushers :
          DOMAIN push[p] = {"pc", "run", "master", "prune", "todo", "entries",
                            "failures", "doomed", "alone"}

RestoreShape ==
    DOMAIN restore = {"pc", "run", "service", "out", "master", "todo", "entry", "got", "whole"}

DiskShape == \A k \in DOMAIN disk : DOMAIN disk[k] = {"run", "open", "data"}

EntriesHonest ==
    /\ \A r \in DOMAIN manifests : Honest(manifests[r].entries)
    /\ \A p \in Pushers : Honest(push[p].entries)
    /\ Honest(restore.todo)

CheckedIsEntry ==
    restore.pc = "check" =>
        /\ Honest({restore.entry})
        /\ <<restore.out, restore.entry.file>> \in DOMAIN disk
        /\ disk[<<restore.out, restore.entry.file>>].run = restore.entry.run

Inv == /\ PushShape /\ RestoreShape /\ DiskShape
       /\ EntriesHonest /\ CheckedIsEntry /\ RestoredIsPushed

LEMMA InitInv == Init => Inv
<1> SUFFICES ASSUME Init PROVE Inv
  OBVIOUS
<1>1. push = [p \in Pushers |-> IdlePush] /\ DOMAIN manifests = {} /\ DOMAIN disk = {}
  BY DEF Init
<1>2. PushShape
  BY <1>1 DEF PushShape, IdlePush
<1>3. RestoreShape /\ restore.todo = {} /\ restore.pc = "idle"
  BY DEF Init, RestoreShape
<1>4. \A p \in Pushers : push[p].entries = {}
  BY <1>1 DEF IdlePush
<1> QED
  BY <1>1, <1>2, <1>3, <1>4 DEF Inv, DiskShape, EntriesHonest, CheckedIsEntry, RestoredIsPushed, Honest

(***************************************************************************)
(* Actions that touch none of what the invariant is about.                 *)
(***************************************************************************)
LEMMA QuietInv ==
    ASSUME Inv, UNCHANGED <<manifests, push, restore, disk>>
    PROVE  Inv'
BY DEF Inv, PushShape, RestoreShape, DiskShape, EntriesHonest, CheckedIsEntry, RestoredIsPushed, Honest

(***************************************************************************)
(* The pushes change neither a download nor what is on disk.               *)
(***************************************************************************)
LEMMA PushInv ==
    ASSUME Inv, UNCHANGED <<restore, disk>>, PushShape',
           \A r \in DOMAIN manifests' : Honest(manifests[r].entries)',
           \A p \in Pushers : Honest(push[p].entries)'
    PROVE  Inv'
BY DEF Inv, RestoreShape, DiskShape, EntriesHonest, CheckedIsEntry, RestoredIsPushed, Honest

(***************************************************************************)
(* A push begins with no entries and leaves those of the others alone.     *)
(***************************************************************************)
LEMMA StartedPushHonest ==
    ASSUME Inv, NEW p \in Pushers, NEW r, NEW files, push' = StartedPush(p, r, files)
    PROVE  PushShape' /\ \A q \in Pushers : Honest(push'[q].entries)
<1>1. ASSUME NEW q \in Pushers
      PROVE  /\ DOMAIN push'[q] = {"pc", "run", "master", "prune", "todo", "entries",
                                   "failures", "doomed", "alone"}
             /\ Honest(push'[q].entries)
  <2>1. CASE q = p
    <3>1. push'[q] = [IdlePush EXCEPT !.pc = "files", !.run = r, !.master = LoadKey,
                                     !.prune = config.prune, !.todo = files, !.alone = Alone(p)]
      BY <1>1, <2>1 DEF StartedPush
    <3>2. DOMAIN push'[q] = DOMAIN IdlePush /\ push'[q].entries = {}
      BY <3>1 DEF IdlePush
    <3> QED
      BY <3>2 DEF IdlePush, Honest
  <2>2. CASE q # p
    <3>1. push'[q] = [push[q] EXCEPT !.alone = FALSE]
      BY <1>1, <2>2 DEF StartedPush
    <3> QED
      BY <1>1, <3>1 DEF Inv, PushShape, EntriesHonest
  <2> QED
    BY <2>1, <2>2
<1>2. DOMAIN push' = Pushers
  BY DEF StartedPush
<1> QED
  BY <1>1, <1>2 DEF PushShape

(***************************************************************************)
(* A step of one push that leaves it the entries it has, or honest ones.   *)
(***************************************************************************)
PushFields == {"pc", "run", "master", "prune", "todo", "entries", "failures", "doomed", "alone"}

LEMMA PushStepHonest ==
    ASSUME Inv, NEW p \in Pushers, NEW new,
           DOMAIN new = PushFields, Honest(new.entries),
           push' = [push EXCEPT ![p] = new]
    PROVE  PushShape' /\ \A q \in Pushers : Honest(push'[q].entries)
BY DEF Inv, PushShape, EntriesHonest, PushFields

LEMMA UploadFileInv ==
    ASSUME Inv, NEW p \in Pushers, UploadFile(p)
    PROVE  Inv'
<1> DEFINE r == push[p].run
           f == NextFile(push[p].todo)
           object == Encrypt(push[p].master, FreshSalt, Plain[r][f])
           failed == [push[p] EXCEPT !.todo = @ \ {f}, !.failures = @ \cup {f}]
           done == [push[p] EXCEPT !.todo = @ \ {f}, !.entries = @ \cup {ManifestEntry(p, f, object)}]
<1>1. DOMAIN push[p] = PushFields /\ Honest(push[p].entries)
  BY DEF Inv, PushShape, PushFields, EntriesHonest
<1>2. DOMAIN failed = PushFields /\ failed.entries = push[p].entries
  BY <1>1 DEF PushFields
<1>3. DOMAIN done = PushFields /\ done.entries = push[p].entries \cup {ManifestEntry(p, f, object)}
  BY <1>1 DEF PushFields
<1>4. Honest(done.entries)
  <2>1. ManifestEntry(p, f, object).plain = Plain[ManifestEntry(p, f, object).run][ManifestEntry(p, f, object).file]
    BY DEF ManifestEntry
  <2> QED
    BY <1>1, <1>3, <2>1 DEF Honest
<1>5. push' = [push EXCEPT ![p] = failed] \/ push' = [push EXCEPT ![p] = done]
  BY DEF UploadFile
<1>6. UNCHANGED <<manifests, restore, disk>>
  BY DEF UploadFile
<1> HIDE DEF failed, done
<1>7. PushShape' /\ \A q \in Pushers : Honest(push'[q].entries)
  BY <1>1, <1>2, <1>3, <1>4, <1>5, PushStepHonest
<1> QED
  BY <1>6, <1>7, PushInv DEF Inv, EntriesHonest, Honest

LEMMA UploadManifestInv ==
    ASSUME Inv, NEW p \in Pushers, UploadManifest(p)
    PROVE  Inv'
<1>1. DOMAIN push[p] = PushFields /\ Honest(push[p].entries)
  BY DEF Inv, PushShape, PushFields, EntriesHonest
<1>2. PICK outcome \in Outcomes :
        /\ manifests' = IF outcome = "refused" THEN manifests
                        ELSE Put(manifests, push[p].run, ManifestOf(p))
        /\ push' = [push EXCEPT
              ![p].pc = IF push[p].failures = {} /\ outcome = "done" /\ push[p].prune
                        THEN "list" ELSE "write",
              ![p].failures = IF outcome = "done" THEN @ ELSE @ \cup {"manifest.json"}]
  BY DEF UploadManifest
<1> DEFINE new == [push[p] EXCEPT
              !.pc = IF push[p].failures = {} /\ outcome = "done" /\ push[p].prune
                        THEN "list" ELSE "write",
              !.failures = IF outcome = "done" THEN @ ELSE @ \cup {"manifest.json"}]
<1>3. push' = [push EXCEPT ![p] = new]
  BY <1>2
<1>4. DOMAIN new = PushFields /\ new.entries = push[p].entries
  BY <1>1 DEF PushFields
<1> HIDE DEF new
<1>5. PushShape' /\ \A q \in Pushers : Honest(push'[q].entries)
  BY <1>1, <1>3, <1>4, PushStepHonest
<1>6. \A r \in DOMAIN manifests' : Honest(manifests'[r].entries)
  <2>1. Honest(ManifestOf(p).entries)
    BY <1>1 DEF ManifestOf
  <2>2. \A r \in DOMAIN manifests : Honest(manifests[r].entries)
    BY DEF Inv, EntriesHonest
  <2>3. DOMAIN Put(manifests, push[p].run, ManifestOf(p)) = DOMAIN manifests \cup {push[p].run}
    BY DEF Put
  <2>4. \A r \in DOMAIN manifests \cup {push[p].run} :
           Put(manifests, push[p].run, ManifestOf(p))[r] =
             IF r = push[p].run THEN ManifestOf(p) ELSE manifests[r]
    BY DEF Put
  <2> QED
    BY <1>2, <2>1, <2>2, <2>3, <2>4
<1>7. UNCHANGED <<restore, disk>>
  BY DEF UploadManifest
<1> QED
  BY <1>5, <1>6, <1>7, PushInv DEF Honest

LEMMA DeleteObjectInv ==
    ASSUME Inv, NEW p \in Pushers, DeleteObject(p)
    PROVE  Inv'
<1> DEFINE k == NextKey(push[p].doomed)
           fewer == [push[p] EXCEPT !.doomed = @ \ {k}]
           over == [push[p] EXCEPT !.pc = "write", !.doomed = {},
                                   !.failures = @ \cup {"(prune)"}]
<1>1. DOMAIN push[p] = PushFields /\ Honest(push[p].entries)
  BY DEF Inv, PushShape, PushFields, EntriesHonest
<1>2. /\ manifests' = Without(manifests, {k[1]}) \/ manifests' = manifests
      /\ push' = [push EXCEPT ![p] = fewer] \/ push' = [push EXCEPT ![p] = over]
      /\ UNCHANGED <<restore, disk>>
  BY DEF DeleteObject
<1>3. DOMAIN fewer = PushFields /\ fewer.entries = push[p].entries
  BY <1>1 DEF PushFields
<1>4. DOMAIN over = PushFields /\ over.entries = push[p].entries
  BY <1>1 DEF PushFields
<1>5. \A r \in DOMAIN manifests' : Honest(manifests'[r].entries)
  BY <1>2 DEF Without, Inv, EntriesHonest
<1> HIDE DEF fewer, over
<1>6. PushShape' /\ \A q \in Pushers : Honest(push'[q].entries)
  BY <1>1, <1>2, <1>3, <1>4, PushStepHonest
<1> QED
  BY <1>2, <1>5, <1>6, PushInv DEF Honest

(***************************************************************************)
(* The steps of a push that leave its entries and the manifests alone.     *)
(***************************************************************************)
LEMMA PushTurnInv ==
    ASSUME Inv, NEW p \in Pushers, PruneRemote(p) \/ WriteRun(p) \/ KillPush(p)
    PROVE  Inv'
<1> DEFINE listed == [push[p] EXCEPT !.pc = "prune", !.doomed = Doomed(push[p].run)]
<1>1. DOMAIN push[p] = PushFields /\ Honest(push[p].entries)
  BY DEF Inv, PushShape, PushFields, EntriesHonest
<1>2. /\ push' = [push EXCEPT ![p] = listed] \/ push' = [push EXCEPT ![p] = IdlePush]
      /\ UNCHANGED <<manifests, restore, disk>>
  BY DEF PruneRemote, WriteRun, KillPush
<1>3. DOMAIN listed = PushFields /\ listed.entries = push[p].entries
  BY <1>1 DEF PushFields
<1>4. DOMAIN IdlePush = PushFields /\ IdlePush.entries = {}
  BY DEF IdlePush, PushFields
<1> HIDE DEF listed
<1>5. PushShape' /\ \A q \in Pushers : Honest(push'[q].entries)
  BY <1>1, <1>2, <1>3, <1>4, PushStepHonest DEF Honest
<1> QED
  BY <1>2, <1>5, PushInv DEF Inv, EntriesHonest, Honest

(***************************************************************************)
(* A bucket that damages an object or misplaces a manifest.                *)
(***************************************************************************)
LEMMA DamageInv ==
    ASSUME Inv, NEW r \in Runs,
           DamageManifest(r) \/ \E k \in Runs \X FileSet : DamageObject(k) /\ k[1] = r
    PROVE  Inv'
<1>1. push' = Disturbed(r) /\ UNCHANGED <<restore, disk>>
  BY DEF DamageManifest, DamageObject
<1>2. \A p \in Pushers : /\ DOMAIN push'[p] = DOMAIN push[p]
                         /\ push'[p].entries = push[p].entries
  BY <1>1 DEF Disturbed, Inv, PushShape
<1>3. PushShape' /\ \A p \in Pushers : Honest(push'[p].entries)
  BY <1>1, <1>2 DEF Disturbed, Inv, PushShape, EntriesHonest
<1>4. \A q \in DOMAIN manifests : Honest(manifests[q].entries)
  BY DEF Inv, EntriesHonest
<1>5. \A q \in DOMAIN manifests' : Honest(manifests'[q].entries)
  <2>1. CASE DamageManifest(r)
    <3>1. PICK m \in {[manifests[r] EXCEPT !.hmac = Nobody]}
                        \cup {manifests[q] : q \in DOMAIN manifests \ {r}} :
             manifests' = [manifests EXCEPT ![r] = m]
      BY <2>1 DEF DamageManifest
    <3>2. r \in DOMAIN manifests
      BY <2>1 DEF DamageManifest
    <3>3. Honest(m.entries)
      <4>1. CASE m = [manifests[r] EXCEPT !.hmac = Nobody]
        BY <4>1, <3>2, <1>4
      <4> QED
        BY <3>1, <4>1, <1>4
    <3> QED
      BY <3>1, <3>3, <1>4
  <2>2. CASE manifests' = manifests
    BY <2>2, <1>4
  <2> QED
    BY <2>1, <2>2 DEF DamageObject
<1> QED
  BY <1>1, <1>3, <1>5, PushInv DEF Honest

-----------------------------------------------------------------------------
(***************************************************************************)
(* The restore.                                                            *)
(***************************************************************************)
RestoreFields ==
    {"pc", "run", "service", "out", "master", "todo", "entry", "got", "whole"}

LEMMA RestoreEndsInv ==
    ASSUME Inv, NEW outcome, outcome # "check",
           UNCHANGED <<manifests, push>>,
           restore' = [restore EXCEPT !.pc = outcome, !.todo = {}, !.entry = NoEntry, !.got = NoObject],
           DiskShape', RestoredIsPushed'
    PROVE  Inv'
<1>1. RestoreShape' /\ restore'.pc = outcome /\ restore'.todo = {}
  BY DEF Inv, RestoreShape
<1>2. PushShape'
  BY DEF Inv, PushShape
<1>3. EntriesHonest'
  BY <1>1 DEF Inv, EntriesHonest, Honest
<1> QED
  BY <1>1, <1>2, <1>3 DEF Inv, CheckedIsEntry

LEMMA RestoreDownloadInv ==
    ASSUME Inv, NEW service \in Services, NEW r \in Runs, NEW out \in Outs,
           RestoreDownload(service, r, out)
    PROVE  Inv'
<1>1. UNCHANGED <<manifests, push, disk>> /\ r \in DOMAIN manifests
  BY DEF RestoreDownload, ReadManifest
<1>2. RestoreShape' /\ restore'.pc = "next" /\ restore'.todo = Downloads(r, service)
  BY DEF RestoreDownload, RestoreShape
<1>3. Honest(restore'.todo)
  BY <1>1, <1>2 DEF Downloads, Inv, EntriesHonest, Honest
<1>4. EntriesHonest'
  BY <1>1, <1>3 DEF Inv, EntriesHonest, Honest
<1> QED
  BY <1>1, <1>2, <1>4 DEF Inv, PushShape, DiskShape, CheckedIsEntry, RestoredIsPushed

LEMMA DownloadInv ==
    ASSUME Inv, Download
    PROVE  Inv'
<1>1. PICK entry \in restore.todo :
        \/ /\ disk' = disk
           /\ restore' = [restore EXCEPT !.pc = "failed", !.todo = {}, !.entry = NoEntry, !.got = NoObject]
        \/ /\ entry.run = restore.run
           /\ disk' = Put(disk, <<restore.out, entry.file>>,
                          [run |-> restore.run, open |-> TRUE,
                           data |-> DecryptedBytes(restore.master, objects[<<restore.run, entry.file>>])])
           /\ restore' = [restore EXCEPT !.pc = "check", !.todo = @ \ {entry},
                             !.entry = entry, !.got = objects[<<restore.run, entry.file>>]]
  BY DEF Download, RestoreEnds
<1>2. UNCHANGED <<manifests, push>>
  BY DEF Download
<1>3. CASE disk' = disk /\ restore' = [restore EXCEPT !.pc = "failed", !.todo = {}, !.entry = NoEntry, !.got = NoObject]
  <2>1. DiskShape' /\ RestoredIsPushed'
    BY <1>3 DEF Inv, DiskShape, RestoredIsPushed
  <2> QED
    BY <1>2, <1>3, <2>1, RestoreEndsInv
<1>4. CASE /\ entry.run = restore.run
           /\ disk' = Put(disk, <<restore.out, entry.file>>,
                          [run |-> restore.run, open |-> TRUE,
                           data |-> DecryptedBytes(restore.master, objects[<<restore.run, entry.file>>])])
           /\ restore' = [restore EXCEPT !.pc = "check", !.todo = @ \ {entry},
                             !.entry = entry, !.got = objects[<<restore.run, entry.file>>]]
  <2> DEFINE dest == <<restore.out, entry.file>>
             written == [run |-> restore.run, open |-> TRUE,
                         data |-> DecryptedBytes(restore.master, objects[<<restore.run, entry.file>>])]
  <2>1. written.run = restore.run /\ written.open = TRUE /\ DOMAIN written = {"run", "open", "data"}
    OBVIOUS
  <2>2. disk' = Put(disk, dest, written)
    BY <1>4
  <2> HIDE DEF written
  <2>3. /\ DOMAIN disk' = DOMAIN disk \cup {dest}
        /\ disk'[dest] = written
        /\ \A k \in DOMAIN disk \ {dest} : disk'[k] = disk[k]
    BY <2>2 DEF Put
  <2>4. DiskShape' /\ RestoredIsPushed'
    BY <2>1, <2>3 DEF Inv, DiskShape, RestoredIsPushed
  <2>5. /\ RestoreShape'
        /\ restore'.entry = entry
        /\ restore'.out = restore.out
        /\ restore'.todo = restore.todo \ {entry}
    BY <1>4 DEF Inv, RestoreShape
  <2>6. EntriesHonest'
    BY <1>2, <2>5 DEF Inv, EntriesHonest, Honest
  <2>7. CheckedIsEntry'
    BY <1>1, <1>4, <2>1, <2>3, <2>5 DEF Inv, EntriesHonest, Honest, CheckedIsEntry
  <2> QED
    BY <1>2, <2>4, <2>5, <2>6, <2>7 DEF Inv, PushShape
<1> QED
  BY <1>1, <1>3, <1>4

LEMMA CheckDownloadInv ==
    ASSUME Inv, CheckDownload
    PROVE  Inv'
<1> DEFINE entry == restore.entry
           dest == <<restore.out, entry.file>>
<1>1. UNCHANGED <<manifests, push>>
  BY DEF CheckDownload
<1>2. /\ entry.plain = Plain[entry.run][entry.file]
      /\ dest \in DOMAIN disk /\ disk[dest].run = entry.run
  BY DEF CheckDownload, Inv, CheckedIsEntry, Honest
<1>3. CASE disk' = Without(disk, {dest})
           /\ restore' = [restore EXCEPT !.pc = "failed", !.todo = {}, !.entry = NoEntry, !.got = NoObject]
  <2>1. DiskShape' /\ RestoredIsPushed'
    BY <1>3 DEF Without, Inv, DiskShape, RestoredIsPushed
  <2> QED
    BY <1>1, <1>3, <2>1, RestoreEndsInv
<1>4. ASSUME disk' = Close(dest), disk[dest].data = entry.plain
      PROVE  DiskShape' /\ RestoredIsPushed'
  <2>1. disk' = [disk EXCEPT ![dest] = [disk[dest] EXCEPT !.open = FALSE]]
    BY <1>4 DEF Close
  <2>2. DOMAIN disk[dest] = {"run", "open", "data"}
    BY <1>2 DEF Inv, DiskShape
  <2>3. /\ DOMAIN disk' = DOMAIN disk
        /\ DOMAIN disk'[dest] = {"run", "open", "data"}
        /\ disk'[dest].data = disk[dest].data /\ disk'[dest].run = disk[dest].run
        /\ \A k \in DOMAIN disk \ {dest} : disk'[k] = disk[k]
    BY <1>2, <2>1, <2>2
  <2>4. dest[2] = entry.file
    OBVIOUS
  <2>5. DiskShape'
    BY <2>3 DEF Inv, DiskShape
  <2>6. RestoredIsPushed'
    BY <1>2, <1>4, <2>3, <2>4 DEF Inv, RestoredIsPushed
  <2> QED
    BY <2>5, <2>6
<1>5. CASE /\ disk' = Close(dest) /\ disk[dest].data = entry.plain
           /\ restore' = [restore EXCEPT !.pc = "next", !.entry = NoEntry, !.got = NoObject]
  <2>1. RestoreShape' /\ restore'.pc = "next" /\ restore'.todo = restore.todo
    BY <1>5 DEF Inv, RestoreShape
  <2>2. EntriesHonest'
    BY <1>1, <2>1 DEF Inv, EntriesHonest, Honest
  <2> QED
    BY <1>1, <1>4, <1>5, <2>1, <2>2 DEF Inv, PushShape, CheckedIsEntry
<1>6. CASE /\ disk' = Close(dest) /\ disk[dest].data = entry.plain
           /\ restore' = [restore EXCEPT !.pc = "failed", !.todo = {}, !.entry = NoEntry, !.got = NoObject]
  BY <1>1, <1>4, <1>6, RestoreEndsInv
<1> QED
  BY <1>3, <1>5, <1>6 DEF CheckDownload, Matches, RemoveFile, RestoreEnds

LEMMA RestoreOverInv ==
    ASSUME Inv, RestoreDone \/ KillRestore
    PROVE  Inv'
<1>1. /\ UNCHANGED <<manifests, push, disk>>
      /\ \E outcome \in {"done", "killed"} :
            restore' = [restore EXCEPT !.pc = outcome, !.todo = {}, !.entry = NoEntry, !.got = NoObject]
  BY DEF RestoreDone, KillRestore, RestoreEnds
<1>2. DiskShape' /\ RestoredIsPushed'
  BY <1>1 DEF Inv, DiskShape, RestoredIsPushed
<1> QED
  BY <1>1, <1>2, RestoreEndsInv

-----------------------------------------------------------------------------
LEMMA StepInv == Inv /\ [Next]_vars => Inv'
<1> SUFFICES ASSUME Inv, [Next]_vars PROVE Inv'
  OBVIOUS
<1>1. CASE UNCHANGED vars
  BY <1>1, QuietInv DEF vars
<1>2. ASSUME NEW copies \in Batches, Night(copies)
      PROVE  Inv'
  <2>1. "nightly" \in Pushers
    BY DEF Pushers
  <2> QED
    BY <1>2, <2>1, StartedPushHonest, PushInv DEF Night, Inv, EntriesHonest, Honest
<1>3. ASSUME NEW r \in Runs, PushAgain(r)
      PROVE  Inv'
  <2>1. "byhand" \in Pushers
    BY DEF Pushers
  <2> QED
    BY <1>3, <2>1, StartedPushHonest, PushInv DEF PushAgain, ReadRun, Newest, Inv, EntriesHonest, Honest
<1>4. ASSUME QuietDay \/ (\E r \in Runs, f \in FileSet : PruneLocal(r, f))
               \/ \E c \in [valid : BOOLEAN, prune : BOOLEAN, master : Masters] : Configure(c)
      PROVE  Inv'
  BY <1>4, QuietInv DEF QuietDay, PruneLocal, Configure
<1>5. ASSUME NEW k \in Runs \X FileSet, DamageObject(k)
      PROVE  Inv'
  BY <1>5, DamageInv
<1> QED
  BY <1>1, <1>2, <1>3, <1>4, <1>5, DamageInv, UploadFileInv, UploadManifestInv, PushTurnInv,
     DeleteObjectInv, RestoreDownloadInv, DownloadInv, CheckDownloadInv, RestoreOverInv
     DEF Next

(***************************************************************************)
(* What a restore leaves on disk is what the run has copied, whatever the  *)
(* keys, files, faults and pushes (restoreDownload).                       *)
(***************************************************************************)
THEOREM RestoredIsPushedHolds == Spec => []RestoredIsPushed
<1>1. Inv => RestoredIsPushed
  BY DEF Inv
<1> QED
  BY InitInv, StepInv, <1>1, PTL DEF Spec

-----------------------------------------------------------------------------
(***************************************************************************)
(* Which file and which key comes next: the first there is.                *)
(***************************************************************************)
LEMMA Least ==
    ASSUME NEW T, T \subseteq Nat, T # {}
    PROVE  \E m \in T : \A n \in T : m <= n
<1> SUFFICES ASSUME \A m \in T : \E n \in T : n < m
             PROVE  FALSE
  OBVIOUS
<1> DEFINE U == {n \in Nat : \A m \in 0..n : m \notin T}
<1>1. 0 \in U
  OBVIOUS
<1>2. \A n \in Nat : n \in U => n + 1 \in U
  <2> SUFFICES ASSUME NEW n \in Nat, n \in U, NEW m \in 0..n + 1, m \in T PROVE FALSE
    OBVIOUS
  <2>1. PICK k \in T : k < m
    OBVIOUS
  <2>2. k \in 0..n
    BY <2>1
  <2> QED BY <2>2
<1> HIDE DEF U
<1>3. Nat \subseteq U
  BY <1>1, <1>2, SetInduction
<1>4. PICK n \in T : n \in Nat
  OBVIOUS
<1> QED BY <1>3, <1>4 DEF U

LEMMA RankNat ==
    /\ \A f \in FileSet : Rank(Files, f) \in Nat
    /\ \A name \in Names : Rank(Listing, name) \in Nat
<1>1. ASSUME NEW S, NEW names \in Seq(S), NEW i \in DOMAIN names
      PROVE  Rank(names, names[i]) \in Nat
  <2>1. Rank(names, names[i]) \in DOMAIN names
    BY DEF Rank
  <2> QED BY <2>1
<1>2. \A f \in FileSet : \E i \in DOMAIN Files : Files[i] = f
  BY DEF FileSet
<1> QED BY <1>1, <1>2, FilesAssumption

LEMMA NextFileIn ==
    ASSUME NEW files \in SUBSET FileSet, files # {}
    PROVE  NextFile(files) \in files
<1> DEFINE T == {Rank(Files, f) : f \in files}
<1>1. T \subseteq Nat /\ T # {}
  BY RankNat
<1>2. PICK m \in T : \A n \in T : m <= n
  <2> HIDE DEF T
  <2> QED BY <1>1, Least
<1>3. PICK f \in files : m = Rank(Files, f)
  OBVIOUS
<1>4. \A g \in files : Rank(Files, f) <= Rank(Files, g)
  BY <1>2, <1>3
<1> QED BY <1>4 DEF NextFile

LEMMA NextKeyIn ==
    ASSUME NEW keys \in SUBSET (Runs \X Names), keys # {}
    PROVE  NextKey(keys) \in keys
<1> DEFINE ages == {LastDay - k[1] : k \in keys}
<1>1. LastDay \in Nat /\ \A k \in keys : k[1] \in 1..LastDay /\ k[2] \in Names
  BY DaysAssumption DEF Runs
<1>2. ages \subseteq Nat /\ ages # {}
  BY <1>1
<1>3. PICK k \in keys : \A l \in keys : LastDay - k[1] <= LastDay - l[1]
  <2>1. PICK a \in ages : \A b \in ages : a <= b
    <3> HIDE DEF ages
    <3> QED BY <1>2, Least
  <2> QED BY <2>1
<1> DEFINE latest == {l \in keys : l[1] = k[1]}
           ranks == {Rank(Listing, l[2]) : l \in latest}
<1>4. ranks \subseteq Nat /\ ranks # {}
  BY <1>1, RankNat
<1>5. PICK m \in latest : \A l \in latest : Rank(Listing, m[2]) <= Rank(Listing, l[2])
  <2>1. PICK a \in ranks : \A b \in ranks : a <= b
    <3> HIDE DEF ranks
    <3> QED BY <1>4, Least
  <2> QED BY <2>1
<1>6. \A l \in keys : m[1] > l[1] \/ (m[1] = l[1] /\ Rank(Listing, m[2]) <= Rank(Listing, l[2]))
  <2> TAKE l \in keys
  <2>1. m[1] = k[1] /\ k[1] >= l[1]
    BY <1>1, <1>3
  <2>2. CASE l[1] = k[1]
    BY <1>5, <2>1, <2>2
  <2>3. CASE l[1] # k[1]
    BY <1>1, <2>1, <2>3
  <2> QED BY <2>2, <2>3
<1> QED BY <1>6 DEF NextKey

-----------------------------------------------------------------------------
(***************************************************************************)
(* The invariant behind RestoreIsWhole and OkRestores.  While a push that  *)
(* no other one overlaps goes on, what it has listed is in the bucket;     *)
(* once it is complete its manifest lists every copy, until a prune has    *)
(* doomed the run: then MinKeep newer runs have a manifest, and keep it at *)
(* least as long, because a prune is only ever after the older ones.       *)
(***************************************************************************)

\* The copies of a run: the list is written after the push.
CopiesOf(r) == IF r \in DOMAIN recorded THEN recorded[r] ELSE local[r]

Listed(entries, f) == \E e \in entries : e.file = f

HostTyped ==
    /\ today \in 0..LastDay
    /\ config.master \in Masters
    /\ local \in [Runs -> SUBSET FileSet]
    /\ DOMAIN recorded \subseteq 1..today /\ \A r \in DOMAIN recorded : recorded[r] \subseteq FileSet
    /\ DOMAIN manifests \subseteq 1..today
    /\ sound \in [Runs -> Masters \cup {Nobody}]

Newer(r) == {q \in DOMAIN manifests : q > r}

\* Past the retention, and not among the newest.
Passed(r) == r < today - Retention /\ (r \notin DOMAIN manifests \/ MinKeep <= Cardinality(Newer(r)))

StoredCopy(r, master, e) ==
    /\ e.file \in FileSet /\ e.plain = Plain[r][e.file]
    /\ <<r, e.file>> \in DOMAIN objects /\ objects[<<r, e.file>>] = e.cipher
    /\ \E salt : e.cipher = Encrypt(master, salt, Plain[r][e.file])

Stored(r) ==
    /\ r \in DOMAIN manifests /\ manifests[r].hmac = sound[r] /\ manifests[r].run = r
    /\ manifests[r].failures = {}
    /\ \A e \in manifests[r].entries : StoredCopy(r, sound[r], e)

Working(p) ==
    /\ push[p].pc \in {"idle", "files", "list", "prune", "write"}
    /\ Pushing(p) => push[p].run \in 1..today /\ push[p].master \in Masters /\ sound[push[p].run] = Nobody
    /\ push[p].todo \subseteq FileSet
    /\ p = "nightly" /\ Pushing(p) => push[p].run \notin DOMAIN recorded
    /\ push[p].alone => \A q \in Pushers \ {p} : ~Pushing(q)

Complete(p) ==
    Pushing(p) => \A f \in CopiesOf(push[p].run) :
        f \in push[p].todo \/ f \in push[p].failures \/ Listed(push[p].entries, f)

Pruning(p) ==
    /\ push[p].pc # "prune" => push[p].doomed = {}
    /\ \A k \in push[p].doomed :
          /\ k \in Runs \X Names /\ k[1] # push[p].run /\ k[1] < today - Retention
          /\ sound[k[1]] = Nobody \/ Passed(k[1])
          /\ k[2] = "manifest.json" => MinKeep <= Cardinality(Newer(k[1]))

Faithful(p) ==
    push[p].alone /\ Pushing(p) =>
        /\ \A e \in push[p].entries : StoredCopy(push[p].run, push[p].master, e) /\ e.file \notin push[p].todo
        /\ push[p].pc # "files" /\ push[p].failures = {} =>
              push[p].run \in DOMAIN manifests /\ manifests[push[p].run] = ManifestOf(p)

PushOk(p) == Working(p) /\ Complete(p) /\ Pruning(p) /\ Faithful(p)

RunOk(r) == sound[r] # Nobody => r <= today /\ (Stored(r) \/ Passed(r))

ManifestOk(m) ==
    /\ DOMAIN m = {"hmac", "run", "entries", "failures"}
    /\ m.run \in 1..today
    /\ m.failures = {} => \A f \in CopiesOf(m.run) : Listed(m.entries, f)

RestoreOk ==
    /\ restore.pc = "done" => restore.todo = {}
    /\ restore.pc \in {"next", "check", "done"} /\ restore.whole =>
          /\ restore.run \in 1..today
          /\ \A f \in CopiesOf(restore.run) : ServiceOf[f] = restore.service =>
                Listed(restore.todo, f) \/ <<restore.out, f>> \in DOMAIN disk

CopiesInv ==
    /\ Inv /\ HostTyped /\ RestoreOk
    /\ \A p \in Pushers : PushOk(p)
    /\ \A r \in Runs : RunOk(r)
    /\ \A r \in DOMAIN manifests : ManifestOk(manifests[r])

LEMMA InitCopies == Init => CopiesInv
<1> SUFFICES ASSUME Init PROVE CopiesInv
  OBVIOUS
<1>1. /\ push = [p \in Pushers |-> IdlePush] /\ DOMAIN manifests = {} /\ DOMAIN recorded = {}
      /\ sound = [r \in Runs |-> Nobody] /\ restore.pc = "idle" /\ today = 0
  BY DEF Init
<1>2. HostTyped
  BY <1>1, KeysAssumption, DaysAssumption DEF Init, HostTyped
<1>3. ASSUME NEW p \in Pushers
      PROVE  PushOk(p)
  <2>1. push[p].pc = "idle" /\ push[p].todo = {} /\ push[p].doomed = {} /\ push[p].alone = FALSE
    BY <1>1 DEF IdlePush
  <2> QED BY <2>1 DEF PushOk, Working, Complete, Pruning, Faithful, Pushing
<1> QED BY <1>1, <1>2, <1>3, InitInv DEF CopiesInv, RestoreOk, RunOk

-----------------------------------------------------------------------------
(***************************************************************************)
(* What the steps of others may change without breaking these promises.    *)
(***************************************************************************)
\* A prune takes a manifest only while enough newer ones are there.
ManifestsKeep ==
    \/ DOMAIN manifests \subseteq DOMAIN manifests'
    \/ \E m \in Runs : DOMAIN manifests' = DOMAIN manifests \ {m} /\ MinKeep <= Cardinality(Newer(m))

Calm ==
    /\ HostTyped /\ HostTyped' /\ today <= today'
    /\ \A r \in 1..today : CopiesOf(r)' = CopiesOf(r)
    /\ ManifestsKeep

Untouched(r) ==
    /\ r \in DOMAIN manifests => r \in DOMAIN manifests' /\ manifests'[r] = manifests[r]
    /\ \A f \in FileSet : <<r, f>> \in DOMAIN objects =>
          <<r, f>> \in DOMAIN objects' /\ objects'[<<r, f>>] = objects[<<r, f>>]

Alike(q) ==
    /\ push'[q].pc = push[q].pc /\ push'[q].run = push[q].run /\ push'[q].master = push[q].master
    /\ push'[q].todo = push[q].todo /\ push'[q].entries = push[q].entries
    /\ push'[q].failures = push[q].failures /\ push'[q].doomed = push[q].doomed

LEMMA NewerFinite ==
    ASSUME HostTyped, NEW r
    PROVE  IsFiniteSet(Newer(r)) /\ Cardinality(Newer(r)) \in Nat
<1>1. today \in Int /\ DOMAIN manifests \subseteq 1..today
  BY DaysAssumption DEF HostTyped
<1>2. Newer(r) \in SUBSET (1..today)
  BY <1>1 DEF Newer
<1>3. IsFiniteSet(1..today)
  BY <1>1, FS_Interval
<1>4. IsFiniteSet(Newer(r))
  BY <1>2, <1>3, FS_Subset
<1> QED BY <1>4, FS_CardinalityType

LEMMA NewerKeeps ==
    ASSUME HostTyped, HostTyped', ManifestsKeep, NEW r \in Runs, MinKeep <= Cardinality(Newer(r))
    PROVE  MinKeep <= Cardinality(Newer(r)')
<1>1. /\ IsFiniteSet(Newer(r)') /\ Cardinality(Newer(r)') \in Nat
      /\ Cardinality(Newer(r)) \in Nat /\ MinKeep \in Nat
  <2>1. today' \in Int /\ DOMAIN manifests' \subseteq 1..today'
    BY DaysAssumption DEF HostTyped
  <2>2. Newer(r)' \in SUBSET (1..today')
    BY <2>1 DEF Newer
  <2>3. IsFiniteSet(1..today')
    BY <2>1, FS_Interval
  <2>4. IsFiniteSet(Newer(r)')
    BY <2>2, <2>3, FS_Subset
  <2> QED BY <2>4, FS_CardinalityType, NewerFinite, DaysAssumption
<1>2. CASE Newer(r) \subseteq Newer(r)'
  <2>1. Cardinality(Newer(r)) <= Cardinality(Newer(r)')
    BY <1>1, <1>2, FS_Subset
  <2> QED BY <1>1, <2>1
<1>3. ASSUME NEW m \in Runs, DOMAIN manifests' = DOMAIN manifests \ {m}, MinKeep <= Cardinality(Newer(m)), m > r
      PROVE  MinKeep <= Cardinality(Newer(r)')
  <2>1. Newer(m) \subseteq Newer(r)'
    <3>1. DOMAIN manifests \subseteq Int /\ r \in Int /\ m \in Int
      BY DaysAssumption DEF HostTyped, Runs
    <3> QED BY <1>3, <3>1 DEF Newer
  <2>2. Cardinality(Newer(m)) <= Cardinality(Newer(r)') /\ Cardinality(Newer(m)) \in Nat
    BY <1>1, <2>1, FS_Subset, NewerFinite
  <2> QED BY <1>1, <1>3, <2>2
<1>4. ASSUME NEW m \in Runs, DOMAIN manifests' = DOMAIN manifests \ {m}, ~(m > r)
      PROVE  Newer(r) \subseteq Newer(r)'
  BY <1>4 DEF Newer
<1> QED BY <1>2, <1>3, <1>4 DEF ManifestsKeep, Newer

LEMMA PassedKeeps ==
    ASSUME Calm, NEW r \in Runs, Passed(r), r \in DOMAIN manifests' => r \in DOMAIN manifests
    PROVE  Passed(r)'
<1>1. today \in Int /\ today' \in Int /\ Retention \in Int /\ r \in Int /\ today <= today'
  BY DaysAssumption DEF Calm, HostTyped, Runs
<1>2. r < today' - Retention
  <2>1. r < today - Retention
    BY DEF Passed
  <2>2. \A a, b, c, d \in Int : a <= b /\ d < a - c => d < b - c
    OBVIOUS
  <2> QED BY <1>1, <2>1, <2>2
<1> QED BY <1>2, NewerKeeps DEF Calm, Passed

LEMMA StoredCopyKeeps ==
    ASSUME NEW r, NEW master, NEW e, StoredCopy(r, master, e), Untouched(r)
    PROVE  StoredCopy(r, master, e)'
BY DEF StoredCopy, Untouched

LEMMA RunKeeps ==
    ASSUME Calm, NEW r \in Runs, RunOk(r), sound'[r] \in {sound[r], Nobody},
           r \in DOMAIN manifests' \ DOMAIN manifests => sound[r] = Nobody,
           sound[r] = Nobody \/ Passed(r) \/ Untouched(r)
    PROVE  RunOk(r)'
<1> SUFFICES ASSUME sound'[r] # Nobody PROVE r <= today' /\ (Stored(r)' \/ Passed(r)')
  BY DEF RunOk
<1>1. sound'[r] = sound[r] /\ r <= today /\ (Stored(r) \/ Passed(r))
  BY DEF RunOk
<1>2. r <= today'
  BY <1>1, DaysAssumption DEF Calm, HostTyped, Runs
<1>3. CASE Passed(r)
  BY <1>1, <1>2, <1>3, PassedKeeps
<1>4. CASE Stored(r) /\ Untouched(r)
  <2>1. r \in DOMAIN manifests' /\ manifests'[r] = manifests[r]
    BY <1>4 DEF Stored, Untouched
  <2> PICK master : master = sound[r]
    OBVIOUS
  <2>2. \A e \in manifests[r].entries : StoredCopy(r, master, e)'
    <3>1. \A e \in manifests[r].entries : StoredCopy(r, master, e)
      BY <1>4 DEF Stored
    <3> QED BY <1>4, <3>1, StoredCopyKeeps
  <2>3. \A e \in manifests'[r].entries : StoredCopy(r, sound[r], e)'
    BY <1>1, <2>1, <2>2
  <2> QED BY <1>1, <1>2, <1>4, <2>1, <2>3 DEF Stored
<1> QED BY <1>1, <1>3, <1>4

LEMMA Bystander ==
    ASSUME Calm, NEW q \in Pushers, PushOk(q), Alike(q),
           Pushing(q) => sound'[push[q].run] = Nobody,
           q = "nightly" /\ Pushing(q) => push[q].run \notin DOMAIN recorded',
           \A k \in push[q].doomed : /\ sound'[k[1]] \in {sound[k[1]], Nobody}
                                     /\ k[1] \in DOMAIN manifests' \ DOMAIN manifests => sound[k[1]] = Nobody,
           push'[q].alone => push[q].alone /\ \A p \in Pushers \ {q} : ~Pushing(p)',
           push'[q].alone /\ Pushing(q) => Untouched(push[q].run)
    PROVE  PushOk(q)'
<1>1. Pushing(q)' = Pushing(q) /\ (Pushing(q) => push[q].run \in 1..today /\ push[q].run \in 1..today')
  BY DaysAssumption DEF Alike, Pushing, PushOk, Working, Calm, HostTyped
<1>2. Working(q)'
  BY <1>1 DEF Alike, PushOk, Working, Pushing
<1>3. Complete(q)'
  BY <1>1 DEF Alike, PushOk, Complete, Calm, Listed
<1>4. Pruning(q)'
  <2>1. push'[q].pc # "prune" => push'[q].doomed = {}
    BY DEF Alike, PushOk, Pruning
  <2>2. ASSUME NEW k \in push[q].doomed
        PROVE  /\ k \in Runs \X Names /\ k[1] # push[q].run /\ k[1] < today' - Retention
               /\ sound'[k[1]] = Nobody \/ Passed(k[1])'
               /\ k[2] = "manifest.json" => MinKeep <= Cardinality(Newer(k[1])')
    <3>1. /\ k \in Runs \X Names /\ k[1] # push[q].run /\ k[1] < today - Retention
          /\ sound[k[1]] = Nobody \/ Passed(k[1])
          /\ k[2] = "manifest.json" => MinKeep <= Cardinality(Newer(k[1]))
      BY <2>2 DEF PushOk, Pruning
    <3>2. k[1] \in Runs /\ k[1] < today' - Retention
      BY <3>1, DaysAssumption DEF Calm, HostTyped, Runs
    <3>3. sound'[k[1]] = Nobody \/ Passed(k[1])'
      <4> DEFINE r == k[1]
      <4>1. CASE sound[r] = Nobody
        BY <4>1, <2>2
      <4>2. CASE sound[r] # Nobody
        <5>1. r \in Runs /\ Passed(r) /\ (r \in DOMAIN manifests' => r \in DOMAIN manifests)
          BY <2>2, <3>1, <3>2, <4>2
        <5> HIDE DEF r
        <5>2. Passed(r)'
          BY <5>1, PassedKeeps
        <5> QED BY <5>2 DEF r
      <4> QED BY <4>1, <4>2
    <3>4. k[2] = "manifest.json" => MinKeep <= Cardinality(Newer(k[1])')
      <4> DEFINE r == k[1]
      <4>1. r \in Runs
        BY <3>2
      <4> HIDE DEF r
      <4>2. MinKeep <= Cardinality(Newer(r)) => MinKeep <= Cardinality(Newer(r)')
        BY <4>1, NewerKeeps DEF Calm
      <4> QED BY <3>1, <4>2 DEF r
    <3> QED BY <3>1, <3>2, <3>3, <3>4
  <2> QED BY <2>1, <2>2 DEF Alike, Pruning
<1>5. Faithful(q)'
  <2> SUFFICES ASSUME push'[q].alone, Pushing(q)
               PROVE  /\ \A e \in push'[q].entries : StoredCopy(push[q].run, push[q].master, e)' /\ e.file \notin push'[q].todo
                      /\ push'[q].pc # "files" /\ push'[q].failures = {} =>
                            push'[q].run \in DOMAIN manifests' /\ manifests'[push'[q].run] = ManifestOf(q)'
    BY <1>1 DEF Faithful
  <2> PICK r, master : r = push[q].run /\ master = push[q].master
    OBVIOUS
  <2>1. Untouched(r) /\ push[q].alone
    OBVIOUS
  <2>2. /\ \A e \in push[q].entries : StoredCopy(r, master, e) /\ e.file \notin push[q].todo
        /\ push[q].pc # "files" /\ push[q].failures = {} => r \in DOMAIN manifests /\ manifests[r] = ManifestOf(q)
    BY <2>1 DEF PushOk, Faithful
  <2>3. push'[q].run = r /\ push'[q].master = master
    BY DEF Alike
  <2>4. ManifestOf(q)' = ManifestOf(q)
    BY DEF Alike, ManifestOf
  <2>5. \A e \in push[q].entries : StoredCopy(r, master, e)'
    BY <2>1, <2>2, StoredCopyKeeps
  <2>6. \A e \in push'[q].entries : StoredCopy(push[q].run, push[q].master, e)'
    BY <2>3, <2>5 DEF Alike
  <2> QED BY <2>6, <2>1, <2>2, <2>3, <2>4, <2>5 DEF Alike, Untouched
<1> QED BY <1>2, <1>3, <1>4, <1>5 DEF PushOk

-----------------------------------------------------------------------------
(***************************************************************************)
(* Every step is calm.                                                     *)
(***************************************************************************)
LEMMA CalmNight ==
    ASSUME CopiesInv, NEW copies \in Batches, Night(copies)
    PROVE  Calm
<1> DEFINE r == today + 1
<1>1. today \in Nat /\ LastDay \in Nat /\ today < LastDay /\ r \in Runs /\ today' = r
  BY DaysAssumption DEF CopiesInv, HostTyped, Night, Runs
<1>2. copies \in SUBSET FileSet
  BY FilesAssumption
<1>3. /\ local' = [local EXCEPT ![r] = copies]
      /\ UNCHANGED <<config, recorded, manifests, sound>>
  BY DEF Night
<1>4. HostTyped'
  <2>1. today' \in 0..LastDay
    BY <1>1
  <2>2. DOMAIN recorded' \subseteq 1..today' /\ DOMAIN manifests' \subseteq 1..today'
    BY <1>1, <1>3 DEF CopiesInv, HostTyped
  <2> QED BY <1>2, <1>3, <2>1, <2>2 DEF CopiesInv, HostTyped
<1>5. \A q \in 1..today : CopiesOf(q)' = CopiesOf(q)
  BY <1>1, <1>3 DEF CopiesInv, HostTyped, CopiesOf, Runs
<1> QED BY <1>1, <1>3, <1>4, <1>5 DEF Calm, ManifestsKeep, CopiesInv

LEMMA CalmHost ==
    ASSUME CopiesInv,
           \/ UNCHANGED vars \/ QuietDay
           \/ \E r \in Runs, f \in FileSet : PruneLocal(r, f)
           \/ \E c \in [valid : BOOLEAN, prune : BOOLEAN, master : Masters] : Configure(c)
           \/ \E r \in Runs : PushAgain(r) \/ DamageManifest(r)
           \/ \E k \in Runs \X FileSet : DamageObject(k)
           \/ \E service \in Services, out \in Outs : \E r \in Runs : RestoreDownload(service, r, out)
           \/ Download \/ CheckDownload \/ RestoreDone \/ KillRestore
    PROVE  Calm
<1>1. today \in Nat /\ LastDay \in Nat /\ today <= LastDay
  BY DaysAssumption DEF CopiesInv, HostTyped
<1>2. today' \in {today, today + 1} /\ today' \in 0..LastDay
  <2>1. CASE QuietDay
    BY <1>1, <2>1 DEF QuietDay
  <2>2. CASE today' = today
    BY <1>1, <2>2
  <2>3. QuietDay \/ today' = today
    BY DEF vars, PruneLocal, Configure, PushAgain, DamageManifest, DamageObject,
           RestoreDownload, Download, CheckDownload, RestoreDone, KillRestore
  <2> QED BY <2>1, <2>2, <2>3
<1>3. recorded' = recorded
  BY DEF vars, QuietDay, PruneLocal, Configure, PushAgain, DamageManifest, DamageObject,
         RestoreDownload, Download, CheckDownload, RestoreDone, KillRestore
<1>4. DOMAIN manifests' = DOMAIN manifests
  BY DEF vars, QuietDay, PruneLocal, Configure, PushAgain, DamageManifest, DamageObject,
         RestoreDownload, Download, CheckDownload, RestoreDone, KillRestore
<1>5. config'.master \in Masters
  BY DEF vars, QuietDay, PruneLocal, Configure, PushAgain, DamageManifest, DamageObject,
         RestoreDownload, Download, CheckDownload, RestoreDone, KillRestore, CopiesInv, HostTyped
<1>6. sound' = sound \/ \E r \in Runs : sound' = [sound EXCEPT ![r] = Nobody]
  BY DEF vars, QuietDay, PruneLocal, Configure, PushAgain, DamageManifest, DamageObject,
         RestoreDownload, Download, CheckDownload, RestoreDone, KillRestore
<1>7. \/ local' = local
      \/ \E r \in DOMAIN recorded, f \in FileSet : local' = [local EXCEPT ![r] = @ \ {f}]
  BY DEF vars, QuietDay, PruneLocal, Configure, PushAgain, DamageManifest, DamageObject,
         RestoreDownload, Download, CheckDownload, RestoreDone, KillRestore
<1>8. local' \in [Runs -> SUBSET FileSet] /\ sound' \in [Runs -> Masters \cup {Nobody}]
  BY <1>6, <1>7 DEF CopiesInv, HostTyped
<1>9. HostTyped'
  <2>1. DOMAIN recorded' \subseteq 1..today' /\ DOMAIN manifests' \subseteq 1..today'
    BY <1>1, <1>2, <1>3, <1>4 DEF CopiesInv, HostTyped
  <2> QED BY <1>2, <1>3, <1>5, <1>8, <2>1 DEF CopiesInv, HostTyped
<1>10. \A q \in 1..today : CopiesOf(q)' = CopiesOf(q)
  BY <1>1, <1>3, <1>7 DEF CopiesInv, HostTyped, CopiesOf, Runs
<1> QED BY <1>1, <1>2, <1>4, <1>9, <1>10 DEF Calm, ManifestsKeep, CopiesInv

LEMMA CalmPush ==
    ASSUME CopiesInv, NEW p \in Pushers,
           \/ UploadFile(p) \/ UploadManifest(p) \/ PruneRemote(p) \/ DeleteObject(p)
           \/ WriteRun(p) \/ KillPush(p)
    PROVE  Calm
<1> DEFINE r == push[p].run
<1>1. UNCHANGED <<today, config, local>> /\ today \in Nat /\ today \in 0..LastDay
  BY DaysAssumption DEF CopiesInv, HostTyped, UploadFile, UploadManifest, PruneRemote, DeleteObject, WriteRun, KillPush
<1>2. r \in 1..today /\ r \in Runs /\ push[p].master \in Masters
  <2>1. Pushing(p)
    BY DEF UploadFile, UploadManifest, PruneRemote, DeleteObject, WriteRun, KillPush, Pushing
  <2> QED BY <1>1, <2>1, DaysAssumption DEF CopiesInv, PushOk, Working, Runs
<1>3. recorded' = recorded \/ (recorded' = Put(recorded, r, local[r]) /\ r \notin DOMAIN recorded)
  <2>1. CASE WriteRun(p) /\ p = "nightly"
    BY <2>1 DEF WriteRun, CopiesInv, PushOk, Working, Pushing
  <2> QED BY <2>1 DEF UploadFile, UploadManifest, PruneRemote, DeleteObject, WriteRun, KillPush
<1>4. /\ DOMAIN recorded' \subseteq 1..today
      /\ \A q \in DOMAIN recorded' : recorded'[q] \subseteq FileSet
      /\ \A q \in 1..today : CopiesOf(q)' = CopiesOf(q)
  BY <1>1, <1>2, <1>3 DEF CopiesInv, HostTyped, CopiesOf, Put
<1>5. sound' = sound \/ sound' = [sound EXCEPT ![r] = push[p].master]
  BY DEF UploadFile, UploadManifest, PruneRemote, DeleteObject, WriteRun, KillPush
<1>6. sound' \in [Runs -> Masters \cup {Nobody}]
  BY <1>2, <1>5 DEF CopiesInv, HostTyped
<1>7. DOMAIN manifests' \subseteq 1..today /\ ManifestsKeep
  <2>1. CASE UploadManifest(p)
    <3>1. DOMAIN manifests' = DOMAIN manifests \/ DOMAIN manifests' = DOMAIN manifests \cup {r}
      BY <2>1 DEF UploadManifest, Put
    <3> QED BY <1>2, <3>1 DEF CopiesInv, HostTyped, ManifestsKeep
  <2>2. CASE DeleteObject(p)
    <3> DEFINE k == NextKey(push[p].doomed)
    <3>1. k \in push[p].doomed
      <4>1. push[p].doomed \in SUBSET (Runs \X Names) /\ push[p].doomed # {}
        BY <2>2 DEF DeleteObject, CopiesInv, PushOk, Pruning
      <4> QED BY <4>1, NextKeyIn
    <3>2. \/ manifests' = manifests
          \/ k[2] = "manifest.json" /\ DOMAIN manifests' = DOMAIN manifests \ {k[1]}
      BY <2>2 DEF DeleteObject, Without
    <3> HIDE DEF k
    <3>3. k[1] \in Runs /\ (k[2] = "manifest.json" => MinKeep <= Cardinality(Newer(k[1])))
      BY <3>1 DEF CopiesInv, PushOk, Pruning
    <3> QED BY <3>2, <3>3 DEF CopiesInv, HostTyped, ManifestsKeep
  <2>3. CASE manifests' = manifests
    BY <2>3 DEF CopiesInv, HostTyped, ManifestsKeep
  <2> QED BY <2>1, <2>2, <2>3 DEF UploadFile, PruneRemote, WriteRun, KillPush
<1>8. HostTyped'
  BY <1>1, <1>4, <1>6, <1>7 DEF CopiesInv, HostTyped
<1> QED BY <1>1, <1>4, <1>7, <1>8 DEF Calm, CopiesInv

-----------------------------------------------------------------------------
(***************************************************************************)
(* The steps that leave the bucket and the pushes alone.                   *)
(***************************************************************************)
LEMMA SameUntouched ==
    ASSUME UNCHANGED <<objects, manifests>>
    PROVE  \A r : Untouched(r)
BY DEF Untouched

LEMMA RestoreKeeps ==
    ASSUME CopiesInv, Calm, UNCHANGED restore, DOMAIN disk \subseteq DOMAIN disk'
    PROVE  RestoreOk'
BY DaysAssumption DEF CopiesInv, Calm, HostTyped, RestoreOk

LEMMA ManifestsKeepOk ==
    ASSUME CopiesInv, Calm, NEW m, ManifestOk(m)
    PROVE  ManifestOk(m)'
BY DaysAssumption DEF Calm, HostTyped, ManifestOk, Listed

LEMMA BucketSame ==
    ASSUME CopiesInv, Calm, UNCHANGED <<objects, manifests, push, sound>>,
           \A p \in Pushers : p = "nightly" /\ Pushing(p) => push[p].run \notin DOMAIN recorded'
    PROVE  /\ \A p \in Pushers : PushOk(p)'
           /\ \A r \in Runs : RunOk(r)'
           /\ \A r \in DOMAIN manifests' : ManifestOk(manifests[r])'
<1>1. \A r : Untouched(r)
  BY SameUntouched
<1>2. ASSUME NEW p \in Pushers
      PROVE  PushOk(p)'
  <2>1. PushOk(p) /\ Alike(p)
    BY DEF CopiesInv, Alike
  <2>2. Pushing(p) => sound'[push[p].run] = Nobody
    BY <2>1 DEF PushOk, Working
  <2>3. push'[p].alone => push[p].alone /\ \A q \in Pushers \ {p} : ~Pushing(q)'
    BY <2>1 DEF PushOk, Working, Pushing
  <2> QED BY <1>1, <2>1, <2>2, <2>3, Bystander
<1>3. ASSUME NEW r \in Runs
      PROVE  RunOk(r)'
  BY <1>1, RunKeeps DEF CopiesInv
<1>4. ASSUME NEW r \in DOMAIN manifests'
      PROVE  ManifestOk(manifests[r])'
  <2>1. PICK m : m = manifests[r]
    OBVIOUS
  <2> QED BY <2>1, ManifestsKeepOk DEF CopiesInv
<1> QED BY <1>2, <1>3, <1>4

LEMMA QuietCopies ==
    ASSUME CopiesInv, Calm, Inv',
           UNCHANGED <<recorded, objects, manifests, push, restore, disk, sound>>
    PROVE  CopiesInv'
<1>1. \A p \in Pushers : p = "nightly" /\ Pushing(p) => push[p].run \notin DOMAIN recorded'
  BY DEF CopiesInv, PushOk, Working
<1> QED BY <1>1, BucketSame, RestoreKeeps DEF CopiesInv, Calm

LEMMA RestoreCopies ==
    ASSUME CopiesInv, Calm, Inv',
           UNCHANGED <<recorded, objects, manifests, push, sound>>, RestoreOk'
    PROVE  CopiesInv'
<1>1. \A p \in Pushers : p = "nightly" /\ Pushing(p) => push[p].run \notin DOMAIN recorded'
  BY DEF CopiesInv, PushOk, Working
<1> QED BY <1>1, BucketSame DEF CopiesInv, Calm

LEMMA RestoreSteps ==
    ASSUME CopiesInv, Calm,
           \/ \E service \in Services, out \in Outs : \E r \in Runs : RestoreDownload(service, r, out)
           \/ Download \/ CheckDownload \/ RestoreDone \/ KillRestore
    PROVE  RestoreOk'
<1>1. UNCHANGED <<today, local, recorded>> /\ \A r : CopiesOf(r)' = CopiesOf(r)
  BY DEF RestoreDownload, Download, CheckDownload, RestoreDone, KillRestore, CopiesOf
<1>2. RestoreShape
  BY DEF CopiesInv, Inv
<1>3. ASSUME NEW service \in Services, NEW out \in Outs, NEW r \in Runs, RestoreDownload(service, r, out)
      PROVE  RestoreOk'
  <2>1. /\ restore'.pc = "next" /\ restore'.run = r /\ restore'.service = service
        /\ restore'.todo = Downloads(r, service) /\ restore'.whole = (manifests[r].failures = {})
    BY <1>3 DEF RestoreDownload
  <2>2. r \in DOMAIN manifests /\ manifests[r].run = r /\ ManifestOk(manifests[r])
    BY <1>3 DEF RestoreDownload, ReadManifest, CopiesInv
  <2>3. r \in 1..today /\ (restore'.whole => \A f \in CopiesOf(r) : Listed(manifests[r].entries, f))
    BY <2>1, <2>2 DEF ManifestOk
  <2>4. \A f : Listed(manifests[r].entries, f) /\ ServiceOf[f] = service => Listed(restore'.todo, f)
    BY <2>1 DEF Listed, Downloads
  <2>5. /\ restore'.pc = "done" => restore'.todo = {}
        /\ restore'.pc \in {"next", "check", "done"} /\ restore'.whole =>
              /\ r \in 1..today'
              /\ \A f \in CopiesOf(r) : ServiceOf[f] = service => Listed(restore'.todo, f)
    BY <1>1, <2>1, <2>3, <2>4
  <2> QED BY <1>1, <2>1, <2>5 DEF RestoreOk, Listed
<1>4. ASSUME restore'.pc \notin {"next", "check", "done"}
      PROVE  RestoreOk'
  BY <1>4 DEF RestoreOk
<1>5. CASE Download
  <2>1. PICK entry \in restore.todo :
           /\ restore.pc = "next"
           /\ \/ restore'.pc = "failed"
              \/ /\ \E data : disk' = Put(disk, <<restore.out, entry.file>>, data)
                 /\ \E got : restore' = [restore EXCEPT !.pc = "check", !.todo = @ \ {entry},
                                                        !.entry = entry, !.got = got]
    BY <1>2, <1>5 DEF Download, RestoreEnds, RestoreShape
  <2>2. CASE restore'.pc = "failed"
    BY <1>4, <2>2
  <2>3. CASE restore'.pc # "failed"
    <3>1. /\ restore'.pc = "check" /\ restore'.run = restore.run /\ restore'.service = restore.service
          /\ restore'.out = restore.out /\ restore'.whole = restore.whole
          /\ restore'.todo = restore.todo \ {entry}
      BY <1>2, <2>1, <2>3 DEF RestoreShape
    <3>2. DOMAIN disk' = DOMAIN disk \cup {<<restore.out, entry.file>>}
      BY <2>1, <2>3 DEF Put
    <3>3. \A f : Listed(restore.todo, f) => Listed(restore'.todo, f) \/ f = entry.file
      BY <3>1 DEF Listed
    <3>4. restore.whole =>
             /\ restore.run \in 1..today
             /\ \A f \in CopiesOf(restore.run) : ServiceOf[f] = restore.service =>
                   Listed(restore.todo, f) \/ <<restore.out, f>> \in DOMAIN disk
      BY <2>1 DEF CopiesInv, RestoreOk
    <3>5. restore'.whole =>
             /\ restore'.run \in 1..today'
             /\ \A f \in CopiesOf(restore.run) : ServiceOf[f] = restore'.service =>
                   Listed(restore'.todo, f) \/ <<restore'.out, f>> \in DOMAIN disk'
      BY <1>1, <3>1, <3>2, <3>3, <3>4
    <3>6. CopiesOf(restore.run)' = CopiesOf(restore.run)
      BY <1>1, <3>1 DEF CopiesOf
    <3> QED BY <3>1, <3>5, <3>6 DEF RestoreOk, Listed
  <2> QED BY <2>2, <2>3
<1>6. CASE CheckDownload \/ RestoreDone \/ KillRestore
  <2>1. CASE restore'.pc \in {"failed", "killed"}
    BY <1>4, <2>1
  <2>2. CASE restore'.pc \notin {"failed", "killed"}
    <3>1. /\ restore.pc \in {"next", "check"} /\ restore'.run = restore.run /\ restore'.service = restore.service
          /\ restore'.out = restore.out /\ restore'.whole = restore.whole /\ DOMAIN disk' = DOMAIN disk
          /\ restore'.todo = restore.todo /\ (restore'.pc = "done" => restore.todo = {})
      BY <1>2, <1>6, <2>2 DEF CheckDownload, RestoreDone, KillRestore, RestoreEnds, Close, RestoreShape
    <3>2. CopiesOf(restore.run)' = CopiesOf(restore.run)
      BY <1>1, <3>1 DEF CopiesOf
    <3> QED BY <1>1, <3>1, <3>2 DEF CopiesInv, RestoreOk, Listed
  <2> QED BY <2>1, <2>2
<1> QED BY <1>3, <1>5, <1>6

-----------------------------------------------------------------------------
(***************************************************************************)
(* A push starts: it is alone when no other one is under way, and none of  *)
(* those is alone any more.                                                *)
(***************************************************************************)
LEMMA ManifestsSame ==
    ASSUME CopiesInv, Calm, UNCHANGED manifests
    PROVE  \A r \in DOMAIN manifests' : ManifestOk(manifests[r])'
<1> SUFFICES ASSUME NEW r \in DOMAIN manifests PROVE ManifestOk(manifests[r])'
  OBVIOUS
<1>1. PICK m : m = manifests[r]
  OBVIOUS
<1> QED BY <1>1, ManifestsKeepOk DEF CopiesInv

LEMMA StartCopies ==
    ASSUME CopiesInv, Calm, Inv', NEW p \in Pushers, ~Pushing(p), NEW r \in 1..today', NEW files \in SUBSET FileSet,
           push' = StartedPush(p, r, files), CopiesOf(r)' = files,
           p = "nightly" => r \notin DOMAIN recorded',
           sound' = [sound EXCEPT ![r] = Nobody],
           UNCHANGED <<recorded, objects, manifests, restore, disk>>
    PROVE  CopiesInv'
<1>1. r \in Runs /\ sound \in [Runs -> Masters \cup {Nobody}] /\ config.master \in Masters
      /\ sound' \in [Runs -> Masters \cup {Nobody}]
  BY DaysAssumption DEF Calm, HostTyped, Runs
<1>2. \A q \in Runs : sound'[q] \in {sound[q], Nobody}
  BY <1>1
<1>3. \A q : Untouched(q)
  BY SameUntouched
<1>4. PushOk(p)'
  <2>1. push'[p] = [IdlePush EXCEPT !.pc = "files", !.run = r, !.master = LoadKey,
                                    !.prune = config.prune, !.todo = files, !.alone = Alone(p)]
    BY DEF StartedPush
  <2>2. /\ push'[p].pc = "files" /\ push'[p].run = r /\ push'[p].master = LoadKey
        /\ push'[p].todo = files /\ push'[p].doomed = {} /\ push'[p].entries = {}
        /\ push'[p].alone = Alone(p) /\ push'[p].failures = {}
    BY <2>1 DEF IdlePush
  <2>3. \A q \in Pushers \ {p} : Pushing(q)' = Pushing(q)
    <3> TAKE q \in Pushers \ {p}
    <3>1. push'[q] = [push[q] EXCEPT !.alone = FALSE]
      BY DEF StartedPush
    <3> QED BY <3>1 DEF Pushing
  <2>4. Working(p)'
    BY <1>1, <2>2, <2>3 DEF Working, Pushing, LoadKey, Alone
  <2>5. Complete(p)'
    BY <2>2 DEF Complete
  <2>6. Pruning(p)' /\ Faithful(p)'
    BY <2>2 DEF Pruning, Faithful
  <2> QED BY <2>4, <2>5, <2>6 DEF PushOk
<1>5. ASSUME NEW q \in Pushers \ {p}
      PROVE  PushOk(q)'
  <2>1. push'[q] = [push[q] EXCEPT !.alone = FALSE]
    BY DEF StartedPush
  <2>2. Alike(q) /\ push'[q].alone = FALSE
    BY <2>1 DEF Alike, CopiesInv, Inv, PushShape
  <2>3. PushOk(q) /\ (Pushing(q) => push[q].run \in Runs /\ sound[push[q].run] = Nobody)
    BY DaysAssumption DEF CopiesInv, PushOk, Working, Calm, HostTyped, Runs
  <2>4. Pushing(q) => sound'[push[q].run] = Nobody
    BY <1>2, <2>3
  <2>5. q = "nightly" /\ Pushing(q) => push[q].run \notin DOMAIN recorded'
    BY <2>3 DEF PushOk, Working
  <2>6. \A k \in push[q].doomed : k[1] \in Runs
    BY <2>3 DEF PushOk, Pruning
  <2> QED BY <1>2, <2>2, <2>3, <2>4, <2>5, <2>6, Bystander
<1>6. \A q \in Runs : RunOk(q)'
  BY <1>2, <1>3, RunKeeps DEF CopiesInv
<1> QED BY <1>4, <1>5, <1>6, ManifestsSame, RestoreKeeps DEF CopiesInv, Calm

LEMMA NightCopies ==
    ASSUME CopiesInv, Calm, Inv', NEW copies \in Batches, Night(copies)
    PROVE  CopiesInv'
<1> PICK r : r = today + 1
  OBVIOUS
<1>1. today \in Nat /\ today' = r /\ r \in 1..today' /\ r \in Runs /\ copies \in SUBSET FileSet
  BY FilesAssumption, DaysAssumption DEF CopiesInv, HostTyped, Night, Runs
<1>2. push' = StartedPush("nightly", r, copies) /\ ~Pushing("nightly") /\ "nightly" \in Pushers
  BY DEF Night, Pushers
<1>3. r \notin DOMAIN recorded /\ recorded' = recorded
  BY <1>1 DEF Night, CopiesInv, HostTyped
<1>4. CopiesOf(r)' = copies
  BY <1>1, <1>3 DEF Night, CopiesInv, HostTyped, CopiesOf
<1>5. sound' = [sound EXCEPT ![r] = Nobody]
  <2>1. sound[r] = Nobody
    BY <1>1 DEF CopiesInv, RunOk
  <2> QED BY <1>1, <2>1 DEF Night, CopiesInv, HostTyped
<1>6. UNCHANGED <<objects, manifests, restore, disk>>
  BY DEF Night
<1> QED BY <1>1, <1>2, <1>3, <1>4, <1>5, <1>6, StartCopies

LEMMA PushAgainCopies ==
    ASSUME CopiesInv, Calm, Inv', NEW r \in Runs, PushAgain(r)
    PROVE  CopiesInv'
<1>1. r \in DOMAIN recorded
  BY DEF PushAgain, ReadRun, Newest
<1>2. r \in 1..today' /\ recorded[r] \in SUBSET FileSet /\ "byhand" \in Pushers
  BY <1>1 DEF CopiesInv, HostTyped, PushAgain, Pushers
<1>3. CopiesOf(r)' = recorded[r]
  BY <1>1 DEF PushAgain, CopiesOf
<1> QED BY <1>2, <1>3, StartCopies DEF PushAgain

-----------------------------------------------------------------------------
(***************************************************************************)
(* A step of a push: while it is under way no other one is alone.          *)
(***************************************************************************)
LEMMA OtherPush ==
    ASSUME CopiesInv, Calm, NEW p \in Pushers, Pushing(p), NEW q \in Pushers \ {p}, push'[q] = push[q],
           Pushing(q) => sound'[push[q].run] = Nobody,
           q = "nightly" /\ Pushing(q) => push[q].run \notin DOMAIN recorded',
           \A k \in push[q].doomed : sound'[k[1]] \in {sound[k[1]], Nobody},
           \A r \in DOMAIN manifests' \ DOMAIN manifests : sound[r] = Nobody
    PROVE  PushOk(q)'
<1>1. PushOk(q) /\ Alike(q)
  BY DEF CopiesInv, Alike
<1>2. ~push[q].alone
  BY <1>1 DEF PushOk, Working
<1>3. \A k \in push[q].doomed : k[1] \in DOMAIN manifests' \ DOMAIN manifests => sound[k[1]] = Nobody
  OBVIOUS
<1> QED BY <1>1, <1>2, <1>3, Bystander

LEMMA PushTurn ==
    ASSUME CopiesInv, Calm, Inv', NEW p \in Pushers, Pushing(p),
           UNCHANGED <<recorded, restore, disk, sound>>, \A q \in Pushers \ {p} : push'[q] = push[q],
           \A r \in DOMAIN manifests' \ DOMAIN manifests : sound[r] = Nobody,
           \A r \in Runs : sound[r] = Nobody \/ Passed(r) \/ Untouched(r),
           PushOk(p)', \A r \in DOMAIN manifests' : ManifestOk(manifests[r])'
    PROVE  CopiesInv'
<1>1. ASSUME NEW q \in Pushers \ {p}
      PROVE  PushOk(q)'
  BY <1>1, OtherPush DEF CopiesInv, PushOk, Working
<1>2. \A r \in Runs : RunOk(r)'
  BY RunKeeps DEF CopiesInv
<1> QED BY <1>1, <1>2, RestoreKeeps DEF CopiesInv, Calm

LEMMA EncryptUploaded ==
    ASSUME NEW master, NEW salt, NEW plain \in Plaintexts
    PROVE  Uploaded(Encrypt(master, salt, plain)) = Encrypt(master, salt, plain)
<1> DEFINE object == Encrypt(master, salt, plain)
           n == Chunks(plain)
<1>1. n \in Nat
  BY ChunksPositive
<1>2. object.blocks = [i \in 1..n |-> SealedChunk(master, salt, plain, i)]
      /\ object = [header |-> object.header, blocks |-> object.blocks]
  BY DEF Encrypt
<1> HIDE DEF n, object
<1>3. PICK S : S = {object.blocks[i] : i \in 1..n}
  OBVIOUS
<1>4. object.blocks \in Seq(S)
  BY <1>1, <1>2, <1>3
<1>5. UploadIterable(object.blocks) = object.blocks
  BY <1>4, UploadKeeps
<1> QED BY <1>2, <1>5 DEF Uploaded, object

(***************************************************************************)
(* The upload of a file: what the push lists is in the bucket, because     *)
(* the multipart upload keeps it and nobody else writes below the run.     *)
(***************************************************************************)
LEMMA UploadFileCopies ==
    ASSUME CopiesInv, Calm, Inv', NEW p \in Pushers, UploadFile(p)
    PROVE  CopiesInv'
<1> PICK r, f, master : r = push[p].run /\ f = NextFile(push[p].todo) /\ master = push[p].master
  OBVIOUS
<1> PICK object : object = Encrypt(master, FreshSalt, Plain[r][f])
  OBVIOUS
<1>1. push[p].pc = "files" /\ Pushing(p) /\ PushOk(p) /\ push[p].todo # {}
  BY DEF UploadFile, Pushing, CopiesInv
<1>2. f \in push[p].todo /\ push[p].todo \in SUBSET FileSet
  BY <1>1, NextFileIn DEF PushOk, Working
<1>3. r \in 1..today /\ r \in Runs /\ sound[r] = Nobody
  BY <1>1, DaysAssumption DEF PushOk, Working, CopiesInv, HostTyped, Runs
<1>4. UNCHANGED <<today, local, recorded, manifests, restore, disk, sound>>
  BY DEF UploadFile
<1>5. Plain[r][f] \in Plaintexts
  BY <1>2, <1>3, CopiesAssumption
<1>6. Uploaded(object) = object
  BY <1>5, EncryptUploaded
<1>7. DOMAIN push = Pushers /\ DOMAIN push[p] = PushFields
  BY DEF CopiesInv, Inv, PushShape, PushFields
<1>8. \/ /\ objects' = objects \/ objects' = Put(objects, <<r, f>>, object)
         /\ push' = [push EXCEPT ![p].todo = @ \ {f}, ![p].failures = @ \cup {f}]
      \/ /\ objects' = Put(objects, <<r, f>>, object)
         /\ push' = [push EXCEPT ![p].todo = @ \ {f}, ![p].entries = @ \cup {ManifestEntry(p, f, object)}]
  BY <1>6 DEF UploadFile
<1>9. \A k : k # <<r, f>> /\ k \in DOMAIN objects => k \in DOMAIN objects' /\ objects'[k] = objects[k]
  BY <1>8 DEF Put
<1>10. /\ \A q \in Pushers \ {p} : push'[q] = push[q]
       /\ push'[p].pc = "files" /\ push'[p].run = r /\ push'[p].master = master
       /\ push'[p].todo = push[p].todo \ {f} /\ push'[p].doomed = push[p].doomed /\ push'[p].alone = push[p].alone
  BY <1>1, <1>7, <1>8 DEF PushFields
<1>11. \/ push'[p].failures = push[p].failures \cup {f} /\ push'[p].entries = push[p].entries
       \/ /\ push'[p].failures = push[p].failures
          /\ push'[p].entries = push[p].entries \cup {ManifestEntry(p, f, object)}
          /\ objects' = Put(objects, <<r, f>>, object)
  BY <1>7, <1>8 DEF PushFields
<1>12. ManifestEntry(p, f, object) = [file |-> f, run |-> r, plain |-> Plain[r][f], cipher |-> object]
  BY DEF ManifestEntry
<1>13. PushOk(p)'
  <2>1. \A q \in Pushers : Pushing(q)' = Pushing(q)
    BY <1>1, <1>10 DEF Pushing
  <2>2. Working(p)'
    BY <1>1, <1>3, <1>4, <1>10, <2>1 DEF PushOk, Working
  <2>3. Complete(p)'
    <3>1. \A g \in CopiesOf(r)' : g \in push[p].todo \/ g \in push[p].failures \/ Listed(push[p].entries, g)
      BY <1>1, <1>4 DEF PushOk, Complete, CopiesOf
    <3>2. \A g : g \in push[p].todo \/ g \in push[p].failures \/ Listed(push[p].entries, g)
             => g \in push'[p].todo \/ g \in push'[p].failures \/ Listed(push'[p].entries, g)
      BY <1>10, <1>11, <1>12 DEF Listed
    <3>3. CopiesOf(push[p].run)' = CopiesOf(r)'
      BY <1>4, <1>10 DEF CopiesOf
    <3> QED BY <3>1, <3>2, <3>3 DEF Complete, Listed
  <2>4. Pruning(p)'
    <3>1. push[p].doomed = {}
      BY <1>1 DEF PushOk, Pruning
    <3> QED BY <1>10, <3>1 DEF Pruning
  <2>5. Faithful(p)'
    <3> SUFFICES ASSUME push[p].alone
                 PROVE  \A e \in push'[p].entries : StoredCopy(r, master, e)' /\ e.file \notin push'[p].todo
      BY <1>10 DEF Faithful
    <3>1. \A e \in push[p].entries : StoredCopy(r, master, e) /\ e.file \notin push[p].todo
      BY <1>1 DEF PushOk, Faithful
    <3>2. \A e \in push[p].entries : StoredCopy(r, master, e)' /\ e.file \notin push'[p].todo
      <4> SUFFICES ASSUME NEW e \in push[p].entries PROVE StoredCopy(r, master, e)'
        BY <1>10, <3>1
      <4>1. StoredCopy(r, master, e) /\ e.file # f
        BY <1>2, <3>1
      <4>2. <<r, e.file>> # <<r, f>>
        BY <4>1
      <4> QED BY <1>9, <4>1, <4>2 DEF StoredCopy
    <3>3. CASE push'[p].entries = push[p].entries
      BY <3>2, <3>3
    <3>4. CASE /\ push'[p].entries = push[p].entries \cup {ManifestEntry(p, f, object)}
               /\ objects' = Put(objects, <<r, f>>, object)
      <4> PICK e : e = ManifestEntry(p, f, object)
        OBVIOUS
      <4>1. e.file = f /\ e.plain = Plain[r][f] /\ e.cipher = object
        BY <1>12
      <4>2. <<r, f>> \in DOMAIN objects' /\ objects'[<<r, f>>] = object
        BY <3>4 DEF Put
      <4>3. \E salt : object = Encrypt(master, salt, Plain[r][f])
        OBVIOUS
      <4>4. StoredCopy(r, master, e)' /\ e.file \notin push'[p].todo
        BY <1>2, <1>10, <4>1, <4>2, <4>3 DEF StoredCopy
      <4> QED BY <3>2, <3>4, <4>4
    <3> QED BY <1>11, <3>3, <3>4
  <2> QED BY <2>2, <2>3, <2>4, <2>5 DEF PushOk
<1>14. \A q \in Runs \ {r} : Untouched(q)
  <2> TAKE q \in Runs \ {r}
  <2>1. \A g : <<q, g>> # <<r, f>>
    OBVIOUS
  <2> QED BY <1>4, <1>9, <2>1 DEF Untouched
<1>15. \A q \in Runs : sound[q] = Nobody \/ Untouched(q)
  BY <1>3, <1>14
<1> QED BY <1>1, <1>4, <1>10, <1>13, <1>15, ManifestsSame, PushTurn

(***************************************************************************)
(* The manifest: a push that has taken all its files has listed each copy  *)
(* or failed.                                                              *)
(***************************************************************************)
LEMMA UploadManifestCopies ==
    ASSUME CopiesInv, Calm, Inv', NEW p \in Pushers, UploadManifest(p)
    PROVE  CopiesInv'
<1> PICK r, m : r = push[p].run /\ m = ManifestOf(p)
  OBVIOUS
<1>1. push[p].pc = "files" /\ Pushing(p) /\ PushOk(p) /\ push[p].todo = {}
  BY DEF UploadManifest, Pushing, CopiesInv
<1>2. r \in 1..today /\ r \in Runs /\ sound[r] = Nobody
  BY <1>1, DaysAssumption DEF PushOk, Working, CopiesInv, HostTyped, Runs
<1>3. UNCHANGED <<today, local, recorded, objects, restore, disk, sound>>
  BY DEF UploadManifest
<1>4. DOMAIN push = Pushers /\ DOMAIN push[p] = PushFields
  BY DEF CopiesInv, Inv, PushShape, PushFields
<1>5. /\ \A q \in Pushers \ {p} : push'[q] = push[q]
      /\ push'[p].pc \in {"list", "write"} /\ push'[p].run = r /\ push'[p].master = push[p].master
      /\ push'[p].todo = {} /\ push'[p].doomed = push[p].doomed /\ push'[p].alone = push[p].alone
      /\ push'[p].entries = push[p].entries
  BY <1>1, <1>4 DEF UploadManifest, PushFields
<1>6. \/ manifests' = manifests /\ push'[p].failures = push[p].failures \cup {"manifest.json"}
      \/ manifests' = Put(manifests, r, m) /\ push'[p].failures \in {push[p].failures, push[p].failures \cup {"manifest.json"}}
  BY <1>1, <1>4 DEF UploadManifest, PushFields
<1>7. /\ m.hmac = push[p].master /\ m.run = r /\ m.entries = push[p].entries /\ m.failures = push[p].failures
      /\ DOMAIN m = {"hmac", "run", "entries", "failures"}
  BY DEF ManifestOf
<1>8. ManifestOk(m)
  BY <1>1, <1>2, <1>7 DEF ManifestOk, PushOk, Complete
<1>9. \A q \in DOMAIN manifests' : ManifestOk(manifests[q])'
  <2> SUFFICES ASSUME NEW q \in DOMAIN manifests' PROVE ManifestOk(manifests[q])'
    OBVIOUS
  <2>1. PICK n : n = manifests'[q]
    OBVIOUS
  <2>2. n = m \/ (q \in DOMAIN manifests /\ n = manifests[q])
    BY <1>6, <2>1 DEF Put
  <2>3. ManifestOk(n)
    BY <1>8, <2>2 DEF CopiesInv
  <2>4. ManifestOk(n)'
    BY <2>3, ManifestsKeepOk
  <2> QED BY <2>1, <2>4
<1>10. PushOk(p)'
  <2>1. \A q \in Pushers : Pushing(q)' = Pushing(q)
    BY <1>1, <1>5 DEF Pushing
  <2>2. Working(p)'
    BY <1>1, <1>2, <1>3, <1>5, <2>1 DEF PushOk, Working
  <2>3. Complete(p)'
    <3>1. \A g \in CopiesOf(r)' : g \in push[p].failures \/ Listed(push[p].entries, g)
      BY <1>1, <1>3 DEF PushOk, Complete, CopiesOf
    <3>2. \A g : g \in push[p].failures \/ Listed(push[p].entries, g)
             => g \in push'[p].failures \/ Listed(push'[p].entries, g)
      BY <1>5, <1>6 DEF Listed
    <3>3. CopiesOf(push[p].run)' = CopiesOf(r)'
      BY <1>3, <1>5 DEF CopiesOf
    <3> QED BY <3>1, <3>2, <3>3 DEF Complete, Listed
  <2>4. Pruning(p)'
    <3>1. push[p].doomed = {}
      BY <1>1 DEF PushOk, Pruning
    <3> QED BY <1>5, <3>1 DEF Pruning
  <2>5. Faithful(p)'
    <3> SUFFICES ASSUME push[p].alone
                 PROVE  /\ \A e \in push[p].entries : StoredCopy(r, push[p].master, e)'
                        /\ push'[p].failures = {} => r \in DOMAIN manifests' /\ manifests'[r] = ManifestOf(p)'
      BY <1>5 DEF Faithful
    <3> PICK master : master = push[p].master
      OBVIOUS
    <3>1. \A e \in push[p].entries : StoredCopy(r, master, e)
      BY <1>1 DEF PushOk, Faithful
    <3>2. \A e \in push[p].entries : StoredCopy(r, master, e)'
      BY <1>3, <3>1 DEF StoredCopy
    <3>3. push'[p].master = master
      BY <1>5
    <3>4. ASSUME push'[p].failures = {}
          PROVE  r \in DOMAIN manifests' /\ manifests'[r] = ManifestOf(p)'
      <4>1. manifests' = Put(manifests, r, m) /\ push[p].failures = {}
        BY <1>6, <3>4
      <4>2. ManifestOf(p)' = m
        BY <1>5, <3>4, <4>1 DEF ManifestOf
      <4> QED BY <4>1, <4>2 DEF Put
    <3> QED BY <3>2, <3>3, <3>4
  <2> QED BY <2>2, <2>3, <2>4, <2>5 DEF PushOk
<1>11. \A q \in DOMAIN manifests' \ DOMAIN manifests : sound[q] = Nobody
  BY <1>2, <1>6 DEF Put
<1>12. \A q \in Runs : sound[q] = Nobody \/ Untouched(q)
  BY <1>2, <1>3, <1>6 DEF Put, Untouched
<1> QED BY <1>1, <1>3, <1>5, <1>9, <1>10, <1>11, <1>12, PushTurn

(***************************************************************************)
(* The prune: what it dooms is past the retention and not among the newest *)
(* runs with a manifest.                                                   *)
(***************************************************************************)
LEMMA DoomedPassed ==
    ASSUME HostTyped, NEW r, NEW k \in Doomed(r)
    PROVE  /\ k \in Runs \X Names /\ k[1] # r /\ k[1] < today - Retention
           /\ Passed(k[1])
           /\ k[2] = "manifest.json" => MinKeep <= Cardinality(Newer(k[1]))
<1>1. PICK q \in Expired \ ProtectedRuns(r) : k \in KeysOf(q)
  BY DEF Doomed
<1>2. q \in Runs /\ q # r /\ q < today - Retention
  BY <1>1 DEF Expired, ListRuns, ProtectedRuns
<1>3. k \in Runs \X Names /\ k[1] = q /\ (k[2] = "manifest.json" => q \in DOMAIN manifests)
  <2>1. "manifest.json" \notin FileSet
    BY FilesAssumption
  <2>2. \/ \E f \in FileSet : k = <<q, f>>
        \/ k = <<q, "manifest.json">> /\ q \in DOMAIN manifests
    BY <1>1 DEF KeysOf, NamesIn
  <2> QED BY <1>2, <2>1, <2>2 DEF Names
<1>4. q \in DOMAIN manifests => MinKeep <= Cardinality(Newer(q))
  <2> SUFFICES ASSUME q \in DOMAIN manifests PROVE MinKeep <= Cardinality(Newer(q))
    OBVIOUS
  <2>1. DOMAIN manifests \subseteq Runs
    BY DaysAssumption DEF HostTyped, Runs
  <2>2. ListRuns \cap DOMAIN manifests = DOMAIN manifests
    BY <2>1 DEF ListRuns
  <2>3. ~(Cardinality(Newer(q)) < MinKeep)
    BY <1>1, <2>2 DEF ProtectedRuns, Newest, Newer
  <2>4. Cardinality(Newer(q)) \in Nat /\ MinKeep \in Nat
    BY NewerFinite, DaysAssumption
  <2> QED BY <2>3, <2>4
<1> QED BY <1>2, <1>3, <1>4 DEF Passed

LEMMA PruneRemoteCopies ==
    ASSUME CopiesInv, Calm, Inv', NEW p \in Pushers, PruneRemote(p)
    PROVE  CopiesInv'
<1> PICK r : r = push[p].run
  OBVIOUS
<1>1. push[p].pc = "list" /\ Pushing(p) /\ PushOk(p)
  BY DEF PruneRemote, Pushing, CopiesInv
<1>2. UNCHANGED <<today, local, recorded, objects, manifests, restore, disk, sound>>
  BY DEF PruneRemote
<1>3. DOMAIN push = Pushers /\ DOMAIN push[p] = PushFields
  BY DEF CopiesInv, Inv, PushShape, PushFields
<1>4. /\ \A q \in Pushers \ {p} : push'[q] = push[q]
      /\ push'[p].pc = "prune" /\ push'[p].run = r /\ push'[p].master = push[p].master
      /\ push'[p].todo = push[p].todo /\ push'[p].doomed = Doomed(r) /\ push'[p].alone = push[p].alone
      /\ push'[p].entries = push[p].entries /\ push'[p].failures = push[p].failures
  BY <1>1, <1>3 DEF PruneRemote, PushFields
<1>5. PushOk(p)'
  <2>1. \A q \in Pushers : Pushing(q)' = Pushing(q)
    BY <1>1, <1>4 DEF Pushing
  <2>2. Working(p)' /\ Complete(p)'
    BY <1>1, <1>2, <1>4, <2>1 DEF PushOk, Working, Complete, CopiesOf, Listed
  <2>3. Pruning(p)'
    <3>1. \A k \in Doomed(r) :
             /\ k \in Runs \X Names /\ k[1] # r /\ k[1] < today - Retention
             /\ Passed(k[1]) /\ (k[2] = "manifest.json" => MinKeep <= Cardinality(Newer(k[1])))
      BY DoomedPassed DEF CopiesInv
    <3> QED BY <1>2, <1>4, <3>1 DEF Pruning, Passed, Newer
  <2>4. Faithful(p)'
    <3>1. ManifestOf(p)' = ManifestOf(p)
      BY <1>4 DEF ManifestOf
    <3> QED BY <1>1, <1>2, <1>4, <2>1, <3>1 DEF PushOk, Faithful, StoredCopy
  <2> QED BY <2>2, <2>3, <2>4 DEF PushOk
<1>6. \A q : Untouched(q)
  BY <1>2, SameUntouched
<1> QED BY <1>1, <1>2, <1>4, <1>5, <1>6, ManifestsSame, PushTurn

(***************************************************************************)
(* A deletion takes an object of a run that is passed, or of one whose     *)
(* push is no longer good for a restore.                                   *)
(***************************************************************************)
LEMMA DeleteObjectCopies ==
    ASSUME CopiesInv, Calm, Inv', NEW p \in Pushers, DeleteObject(p)
    PROVE  CopiesInv'
<1> PICK k, r : k = NextKey(push[p].doomed) /\ r = push[p].run
  OBVIOUS
<1>1. push[p].pc = "prune" /\ Pushing(p) /\ PushOk(p) /\ push[p].doomed # {}
  BY DEF DeleteObject, Pushing, CopiesInv
<1>2. UNCHANGED <<today, local, recorded, restore, disk, sound>>
  BY DEF DeleteObject
<1>3. DOMAIN push = Pushers /\ DOMAIN push[p] = PushFields
  BY DEF CopiesInv, Inv, PushShape, PushFields
<1>4. k \in push[p].doomed /\ k \in Runs \X Names /\ k[1] # r /\ (sound[k[1]] = Nobody \/ Passed(k[1]))
  <2>1. push[p].doomed \in SUBSET (Runs \X Names)
    BY <1>1 DEF PushOk, Pruning
  <2>2. k \in push[p].doomed
    BY <1>1, <2>1, NextKeyIn
  <2> QED BY <1>1, <2>1, <2>2 DEF PushOk, Pruning
<1>5. /\ \A q \in Pushers \ {p} : push'[q] = push[q]
      /\ push'[p].pc \in {"prune", "write"} /\ push'[p].run = r /\ push'[p].master = push[p].master
      /\ push'[p].todo = push[p].todo /\ push'[p].doomed \subseteq push[p].doomed
      /\ push'[p].pc # "prune" => push'[p].doomed = {}
      /\ push'[p].alone = push[p].alone /\ push'[p].entries = push[p].entries
      /\ push'[p].failures # {} \/ push'[p].failures = push[p].failures
  BY <1>1, <1>3 DEF DeleteObject, PushFields
<1>6. /\ objects' = objects \/ objects' = Without(objects, {k})
      /\ manifests' = manifests \/ manifests' = Without(manifests, {k[1]})
  BY DEF DeleteObject
<1>7. \A q \in Runs : q # k[1] => Untouched(q)
  <2> SUFFICES ASSUME NEW q \in Runs, q # k[1] PROVE Untouched(q)
    OBVIOUS
  <2>1. \A f : <<q, f>> # k
    BY <1>4
  <2> QED BY <1>6, <2>1 DEF Without, Untouched
<1>8. DOMAIN manifests' \subseteq DOMAIN manifests /\ \A q \in DOMAIN manifests' : manifests'[q] = manifests[q]
  BY <1>6 DEF Without
<1>9. \A q \in DOMAIN manifests' : ManifestOk(manifests[q])'
  <2> SUFFICES ASSUME NEW q \in DOMAIN manifests' PROVE ManifestOk(manifests[q])'
    OBVIOUS
  <2>1. PICK n : n = manifests[q]
    OBVIOUS
  <2>2. ManifestOk(n)'
    BY <1>8, <2>1, ManifestsKeepOk DEF CopiesInv
  <2> QED BY <1>8, <2>1, <2>2
<1>10. r \in Runs /\ Untouched(r)
  BY <1>1, <1>4, <1>7, DaysAssumption DEF PushOk, Working, CopiesInv, HostTyped, Runs
<1>11. PushOk(p)'
  <2>1. \A q \in Pushers : Pushing(q)' = Pushing(q)
    BY <1>1, <1>5 DEF Pushing
  <2>2. Working(p)'
    BY <1>1, <1>2, <1>5, <2>1 DEF PushOk, Working
  <2>3. Complete(p)'
    <3>1. \A g \in CopiesOf(r)' : g \in push[p].todo \/ g \in push[p].failures \/ Listed(push[p].entries, g)
      BY <1>1, <1>2 DEF PushOk, Complete, CopiesOf
    <3>2. push'[p].failures = push[p].failures \/ push'[p].failures = push[p].failures \cup {"(prune)"}
      BY <1>1, <1>3 DEF DeleteObject, PushFields
    <3>3. \A g \in CopiesOf(r)' : g \in push'[p].todo \/ g \in push'[p].failures \/ Listed(push'[p].entries, g)
      BY <1>5, <3>1, <3>2
    <3>4. CopiesOf(push[p].run)' = CopiesOf(r)'
      BY <1>2, <1>5 DEF CopiesOf
    <3> QED BY <3>3, <3>4 DEF Complete, Listed
  <2>4. Pruning(p)'
    <3> SUFFICES ASSUME NEW l \in push[p].doomed
                 PROVE  /\ l \in Runs \X Names /\ l[1] # r /\ l[1] < today' - Retention
                        /\ sound'[l[1]] = Nobody \/ Passed(l[1])'
                        /\ l[2] = "manifest.json" => MinKeep <= Cardinality(Newer(l[1])')
      BY <1>5 DEF Pruning
    <3> PICK q : q = l[1]
      OBVIOUS
    <3>1. /\ l \in Runs \X Names /\ q # r /\ q < today - Retention /\ q \in Runs
          /\ sound[q] = Nobody \/ Passed(q)
          /\ l[2] = "manifest.json" => MinKeep <= Cardinality(Newer(q))
      BY <1>1 DEF PushOk, Pruning
    <3>2. Passed(q) => Passed(q)'
      BY <1>8, <3>1, PassedKeeps
    <3>3. MinKeep <= Cardinality(Newer(q)) => MinKeep <= Cardinality(Newer(q)')
      BY <3>1, NewerKeeps DEF Calm
    <3>4. q < today' - Retention
      BY <1>2, <3>1
    <3> QED BY <1>2, <3>1, <3>2, <3>3, <3>4
  <2>5. Faithful(p)'
    <3> SUFFICES ASSUME push[p].alone
                 PROVE  /\ \A e \in push[p].entries : StoredCopy(r, push[p].master, e)' /\ e.file \notin push'[p].todo
                        /\ push'[p].failures = {} => r \in DOMAIN manifests' /\ manifests'[r] = ManifestOf(p)'
      BY <1>5 DEF Faithful
    <3> PICK master : master = push[p].master
      OBVIOUS
    <3>1. /\ \A e \in push[p].entries : StoredCopy(r, master, e) /\ e.file \notin push[p].todo
          /\ push[p].failures = {} => r \in DOMAIN manifests /\ manifests[r] = ManifestOf(p)
      BY <1>1 DEF PushOk, Faithful
    <3>2. \A e \in push[p].entries : StoredCopy(r, master, e)' /\ e.file \notin push'[p].todo
      BY <1>5, <1>10, <3>1, StoredCopyKeeps
    <3>3. push'[p].master = master
      BY <1>5
    <3>4. push'[p].failures = {} => ManifestOf(p)' = ManifestOf(p) /\ push[p].failures = {}
      BY <1>5 DEF ManifestOf
    <3> QED BY <1>10, <3>1, <3>2, <3>3, <3>4 DEF Untouched
  <2> QED BY <2>2, <2>3, <2>4, <2>5 DEF PushOk
<1>12. \A q \in Runs : sound[q] = Nobody \/ Passed(q) \/ Untouched(q)
  BY <1>4, <1>7
<1> QED BY <1>1, <1>2, <1>5, <1>8, <1>9, <1>11, <1>12, PushTurn

(***************************************************************************)
(* The end of a push.  The run of one that was complete and alone can be   *)
(* restored; nobody else is about to delete anything then.                 *)
(***************************************************************************)
LEMMA IdleOk ==
    ASSUME NEW p, push'[p] = IdlePush
    PROVE  PushOk(p)'
<1>1. push'[p].pc = "idle" /\ push'[p].todo = {} /\ push'[p].doomed = {} /\ push'[p].alone = FALSE
  BY DEF IdlePush
<1> QED BY <1>1 DEF PushOk, Working, Complete, Pruning, Faithful, Pushing

LEMMA KillPushCopies ==
    ASSUME CopiesInv, Calm, Inv', NEW p \in Pushers, KillPush(p)
    PROVE  CopiesInv'
<1>1. /\ UNCHANGED <<recorded, objects, manifests, restore, disk, sound>> /\ Pushing(p)
      /\ push'[p] = IdlePush /\ \A q \in Pushers \ {p} : push'[q] = push[q]
  BY DEF KillPush, CopiesInv, Inv, PushShape
<1>2. PushOk(p)' /\ \A q : Untouched(q)
  BY <1>1, IdleOk, SameUntouched
<1> QED BY <1>1, <1>2, ManifestsSame, PushTurn

LEMMA WriteRunCopies ==
    ASSUME CopiesInv, Calm, Inv', NEW p \in Pushers, WriteRun(p)
    PROVE  CopiesInv'
<1> PICK r, master : r = push[p].run /\ master = push[p].master
  OBVIOUS
<1>1. push[p].pc \in {"write", "prune"} /\ Pushing(p) /\ PushOk(p)
  BY DEF WriteRun, Pushing, CopiesInv
<1>2. r \in 1..today /\ r \in Runs /\ sound[r] = Nobody /\ master \in Masters
  BY <1>1, DaysAssumption DEF PushOk, Working, CopiesInv, HostTyped, Runs
<1>3. /\ UNCHANGED <<today, local, objects, manifests, restore, disk>>
      /\ push'[p] = IdlePush /\ \A q \in Pushers \ {p} : push'[q] = push[q]
  BY DEF WriteRun, CopiesInv, Inv, PushShape
<1>4. sound \in [Runs -> Masters \cup {Nobody}]
  BY DEF CopiesInv, HostTyped
<1>5. /\ \A q \in Runs \ {r} : sound'[q] = sound[q]
      /\ \/ sound' = sound
         \/ push[p].failures = {} /\ push[p].alone /\ sound'[r] = master
  BY <1>2, <1>4 DEF WriteRun
<1>6. \A q : Untouched(q)
  BY <1>3, SameUntouched
<1>7. recorded' = recorded \/ (p = "nightly" /\ recorded' = Put(recorded, r, local[r]))
  BY DEF WriteRun
<1>8. ASSUME NEW q \in Pushers \ {p}
      PROVE  PushOk(q)'
  <2>1. PushOk(q) /\ (Pushing(q) => ~push[p].alone)
    BY <1>1 DEF CopiesInv, PushOk, Working
  <2>2. CASE sound' = sound
    <3>1. q = "nightly" /\ Pushing(q) => push[q].run \notin DOMAIN recorded'
      BY <1>7, <2>1 DEF PushOk, Working
    <3> QED BY <1>1, <1>3, <2>1, <2>2, <3>1, OtherPush DEF PushOk, Working
  <2>3. CASE ~Pushing(q)
    <3>1. push[q].doomed = {}
      BY <2>1, <2>3 DEF PushOk, Pruning, Pushing
    <3> QED BY <1>1, <1>3, <2>3, <3>1, OtherPush
  <2> QED BY <1>5, <2>1, <2>2, <2>3
<1>9. RunOk(r)'
  <2>1. CASE sound' = sound
    BY <1>2, <2>1 DEF RunOk
  <2>2. CASE push[p].failures = {} /\ push[p].alone /\ sound'[r] = master
    <3>1. /\ \A e \in push[p].entries : StoredCopy(r, master, e)
          /\ r \in DOMAIN manifests /\ manifests[r] = ManifestOf(p)
      BY <1>1, <2>2 DEF PushOk, Faithful
    <3>2. \A e \in push[p].entries : StoredCopy(r, master, e)'
      BY <1>6, <3>1, StoredCopyKeeps
    <3>3. /\ r \in DOMAIN manifests' /\ manifests'[r].hmac = sound'[r] /\ manifests'[r].run = r
          /\ manifests'[r].failures = {} /\ manifests'[r].entries = push[p].entries
      BY <1>3, <2>2, <3>1 DEF ManifestOf
    <3>4. Stored(r)'
      BY <2>2, <3>2, <3>3 DEF Stored
    <3> QED BY <1>2, <1>3, <3>4 DEF RunOk
  <2> QED BY <1>5, <2>1, <2>2
<1>10. \A q \in Runs \ {r} : RunOk(q)'
  <2> TAKE q \in Runs \ {r}
  <2>1. RunOk(q) /\ sound'[q] \in {sound[q], Nobody} /\ q \notin DOMAIN manifests' \ DOMAIN manifests
    BY <1>3, <1>5 DEF CopiesInv
  <2> QED BY <1>6, <2>1, RunKeeps
<1>11. \A q \in Runs : RunOk(q)'
  BY <1>9, <1>10
<1>12. PushOk(p)'
  BY <1>3, IdleOk
<1> QED BY <1>3, <1>8, <1>11, <1>12, ManifestsSame, RestoreKeeps DEF CopiesInv, Calm

(***************************************************************************)
(* Damage to a run: it is no longer sound, a push of it no longer alone.   *)
(***************************************************************************)
LEMMA DamageCopies ==
    ASSUME CopiesInv, Calm, Inv', NEW r \in Runs, push' = Disturbed(r),
           sound' = [sound EXCEPT ![r] = Nobody], UNCHANGED <<recorded, restore, disk>>,
           DOMAIN manifests' = DOMAIN manifests, \A q \in Runs \ {r} : Untouched(q),
           \A q \in DOMAIN manifests : ManifestOk(manifests'[q])
    PROVE  CopiesInv'
<1>1. /\ sound'[r] = Nobody /\ \A q \in Runs \ {r} : sound'[q] = sound[q]
      /\ \A q \in Runs : sound'[q] \in {sound[q], Nobody}
  BY DEF CopiesInv, HostTyped
<1>2. ASSUME NEW q \in Pushers
      PROVE  PushOk(q)'
  <2>1. PushOk(q)
    BY DEF CopiesInv
  <2>2. \A p \in Pushers : Alike(p) /\ (push'[p].alone => push[p].alone /\ push[p].run # r)
    BY DEF Disturbed, Alike, CopiesInv, Inv, PushShape
  <2>3. \A p \in Pushers : Pushing(p)' = Pushing(p)
    BY <2>2 DEF Alike, Pushing
  <2>4. Pushing(q) => push[q].run \in Runs /\ sound[push[q].run] = Nobody
    BY <2>1, DaysAssumption DEF PushOk, Working, Calm, HostTyped, Runs
  <2>5. Pushing(q) => sound'[push[q].run] = Nobody
    BY <1>1, <2>4
  <2>6. q = "nightly" /\ Pushing(q) => push[q].run \notin DOMAIN recorded'
    BY <2>1 DEF PushOk, Working
  <2>7. \A k \in push[q].doomed : sound'[k[1]] \in {sound[k[1]], Nobody}
    BY <1>1, <2>1 DEF PushOk, Pruning
  <2>8. push'[q].alone => push[q].alone /\ \A p \in Pushers \ {q} : ~Pushing(p)'
    BY <2>1, <2>2, <2>3 DEF PushOk, Working
  <2>9. push'[q].alone /\ Pushing(q) => Untouched(push[q].run)
    BY <2>2, <2>4
  <2> QED BY <2>1, <2>2, <2>5, <2>6, <2>7, <2>8, <2>9, Bystander
<1>3. \A q \in Runs : RunOk(q)'
  <2> TAKE q \in Runs
  <2>1. CASE q = r
    BY <1>1, <2>1 DEF RunOk
  <2>2. CASE q # r
    <3>1. RunOk(q) /\ Untouched(q) /\ q \notin DOMAIN manifests' \ DOMAIN manifests
      BY <2>2 DEF CopiesInv
    <3> QED BY <1>1, <3>1, RunKeeps
  <2> QED BY <2>1, <2>2
<1>4. \A q \in DOMAIN manifests' : ManifestOk(manifests[q])'
  <2> TAKE q \in DOMAIN manifests'
  <2>1. PICK m : m = manifests'[q]
    OBVIOUS
  <2>2. ManifestOk(m)'
    BY <2>1, ManifestsKeepOk
  <2> QED BY <2>1, <2>2
<1> QED BY <1>2, <1>3, <1>4, RestoreKeeps DEF CopiesInv, Calm

LEMMA DamageObjectCopies ==
    ASSUME CopiesInv, Calm, Inv', NEW k \in Runs \X FileSet, DamageObject(k)
    PROVE  CopiesInv'
<1> PICK r : r = k[1]
  OBVIOUS
<1>1. /\ r \in Runs /\ push' = Disturbed(r) /\ sound' = [sound EXCEPT ![r] = Nobody]
      /\ UNCHANGED <<recorded, manifests, restore, disk>>
      /\ \E object : objects' = [objects EXCEPT ![k] = object]
  BY DEF DamageObject
<1>2. \A q \in Runs \ {r} : Untouched(q)
  <2> TAKE q \in Runs \ {r}
  <2>1. \A f : <<q, f>> # k
    OBVIOUS
  <2> QED BY <1>1, <2>1 DEF Untouched
<1>3. \A q \in DOMAIN manifests : ManifestOk(manifests'[q])
  BY <1>1 DEF CopiesInv
<1> QED BY <1>1, <1>2, <1>3, DamageCopies

LEMMA DamageManifestCopies ==
    ASSUME CopiesInv, Calm, Inv', NEW r \in Runs, DamageManifest(r)
    PROVE  CopiesInv'
<1>1. /\ push' = Disturbed(r) /\ sound' = [sound EXCEPT ![r] = Nobody] /\ r \in DOMAIN manifests
      /\ UNCHANGED <<recorded, objects, restore, disk>>
  BY DEF DamageManifest
<1>2. PICK m \in {[manifests[r] EXCEPT !.hmac = Nobody]} \cup {manifests[q] : q \in DOMAIN manifests \ {r}} :
         manifests' = [manifests EXCEPT ![r] = m]
  BY DEF DamageManifest
<1>3. ManifestOk(m)
  <2>1. ManifestOk(manifests[r]) /\ \A q \in DOMAIN manifests : ManifestOk(manifests[q])
    BY <1>1 DEF CopiesInv
  <2>2. CASE m = [manifests[r] EXCEPT !.hmac = Nobody]
    <3>1. DOMAIN m = DOMAIN manifests[r] /\ m.run = manifests[r].run
          /\ m.failures = manifests[r].failures /\ m.entries = manifests[r].entries
      BY <2>2
    <3> QED BY <2>1, <3>1 DEF ManifestOk
  <2> QED BY <1>2, <2>1, <2>2
<1>4. /\ DOMAIN manifests' = DOMAIN manifests /\ manifests'[r] = m
      /\ \A q \in DOMAIN manifests \ {r} : manifests'[q] = manifests[q]
  BY <1>1, <1>2
<1>5. \A q \in Runs \ {r} : Untouched(q)
  BY <1>1, <1>4 DEF Untouched
<1>6. \A q \in DOMAIN manifests : ManifestOk(manifests'[q])
  BY <1>3, <1>4 DEF CopiesInv
<1> QED BY <1>1, <1>4, <1>5, <1>6, DamageCopies

-----------------------------------------------------------------------------
LEMMA StepCopies == CopiesInv /\ [Next]_vars => CopiesInv'
<1> SUFFICES ASSUME CopiesInv, [Next]_vars PROVE CopiesInv'
  OBVIOUS
<1>1. Inv'
  BY StepInv DEF CopiesInv
<1>2. CASE \/ UNCHANGED vars \/ QuietDay
           \/ \E r \in Runs, f \in FileSet : PruneLocal(r, f)
           \/ \E c \in [valid : BOOLEAN, prune : BOOLEAN, master : Masters] : Configure(c)
  BY <1>1, <1>2, CalmHost, QuietCopies DEF vars, QuietDay, PruneLocal, Configure
<1>3. CASE \/ \E service \in Services, out \in Outs : \E r \in Runs : RestoreDownload(service, r, out)
           \/ Download \/ CheckDownload \/ RestoreDone \/ KillRestore
  BY <1>1, <1>3, CalmHost, RestoreSteps, RestoreCopies
     DEF RestoreDownload, Download, CheckDownload, RestoreDone, KillRestore
<1>4. ASSUME NEW copies \in Batches, Night(copies)
      PROVE  CopiesInv'
  BY <1>1, <1>4, CalmNight, NightCopies
<1>5. ASSUME NEW r \in Runs, PushAgain(r) \/ DamageManifest(r)
      PROVE  CopiesInv'
  BY <1>1, <1>5, CalmHost, PushAgainCopies, DamageManifestCopies
<1>6. ASSUME NEW k \in Runs \X FileSet, DamageObject(k)
      PROVE  CopiesInv'
  BY <1>1, <1>6, CalmHost, DamageObjectCopies
<1>7. ASSUME NEW p \in Pushers,
             \/ UploadFile(p) \/ UploadManifest(p) \/ PruneRemote(p) \/ DeleteObject(p)
             \/ WriteRun(p) \/ KillPush(p)
      PROVE  CopiesInv'
  <2>1. Calm
    BY <1>7, CalmPush
  <2> QED BY <1>1, <1>7, <2>1, UploadFileCopies, UploadManifestCopies, PruneRemoteCopies,
             DeleteObjectCopies, WriteRunCopies, KillPushCopies
<1> QED BY <1>2, <1>3, <1>4, <1>5, <1>6, <1>7 DEF Next

-----------------------------------------------------------------------------
(***************************************************************************)
(* The properties follow.                                                  *)
(***************************************************************************)
LEMMA RestoreIsWholeFollows == CopiesInv => RestoreIsWhole
<1> SUFFICES ASSUME CopiesInv, restore.pc = "done", restore.whole, restore.run \in DOMAIN recorded,
                    NEW f \in recorded[restore.run], ServiceOf[f] = restore.service, restore.todo = {}
             PROVE  <<restore.out, f>> \in DOMAIN disk
  BY DEF RestoreIsWhole, CopiesInv, RestoreOk
<1> QED BY DEF CopiesInv, RestoreOk, CopiesOf, Listed

LEMMA KeptIsNotPassed ==
    ASSUME HostTyped, NEW r \in Runs, Kept(r)
    PROVE  ~Passed(r)
<1>1. r \in Int /\ today \in Int /\ Retention \in Nat /\ MinKeep \in Nat
  BY DaysAssumption DEF HostTyped, Runs
<1>2. ListRuns \cap DOMAIN manifests = DOMAIN manifests
  <2>1. LastDay \in Nat /\ today \in 0..LastDay /\ DOMAIN manifests \subseteq 1..today
    BY DaysAssumption DEF HostTyped
  <2>2. DOMAIN manifests \subseteq Runs
    BY <2>1 DEF Runs
  <2> QED BY <2>2 DEF ListRuns
<1>3. CASE r >= today - Retention
  BY <1>1, <1>3 DEF Passed
<1>4. CASE r \in Newest(DOMAIN manifests, MinKeep)
  <2>1. r \in DOMAIN manifests /\ Cardinality(Newer(r)) < MinKeep
    BY <1>4 DEF Newest, Newer
  <2>2. Cardinality(Newer(r)) \in Nat
    <3>1. IsFiniteSet(1..today)
      BY <1>1, FS_Interval
    <3>2. Newer(r) \in SUBSET (1..today)
      BY DEF HostTyped, Newer
    <3>3. IsFiniteSet(Newer(r))
      BY <3>1, <3>2, FS_Subset
    <3> QED BY <3>3, FS_CardinalityType
  <2> QED BY <1>1, <2>1, <2>2 DEF Passed
<1> QED BY <1>2, <1>3, <1>4 DEF Kept

LEMMA OkRestoresFollows == CopiesInv => OkRestores
<1> SUFFICES ASSUME CopiesInv, NEW r \in Runs, sound[r] # Nobody, Kept(r)
             PROVE  Restorable(r, sound[r])
  BY DEF OkRestores
<1>1. Stored(r) /\ sound[r] \in Masters
  BY KeptIsNotPassed DEF CopiesInv, RunOk, HostTyped
<1>2. ReadManifest(sound[r], r)
  BY <1>1 DEF Stored, ReadManifest
<1>3. ASSUME r \in DOMAIN recorded, NEW f \in recorded[r]
      PROVE  \E e \in manifests[r].entries : e.file = f
  BY <1>1, <1>3 DEF Stored, CopiesInv, ManifestOk, CopiesOf, Listed
<1>4. ASSUME NEW e \in manifests[r].entries
      PROVE  /\ <<r, e.file>> \in DOMAIN objects
             /\ Decrypts(sound[r], objects[<<r, e.file>>])
             /\ Matches(e, objects[<<r, e.file>>], DecryptedBytes(sound[r], objects[<<r, e.file>>]))
  <2>1. StoredCopy(r, sound[r], e)
    BY <1>1 DEF Stored
  <2>2. PICK salt : e.cipher = Encrypt(sound[r], salt, Plain[r][e.file])
    BY <2>1 DEF StoredCopy
  <2>3. Plain[r][e.file] \in Plaintexts
    BY <2>1, CopiesAssumption DEF StoredCopy
  <2>4. /\ Decrypts(sound[r], e.cipher)
        /\ DecryptedBytes(sound[r], e.cipher) = Plain[r][e.file]
    BY <2>2, <2>3, EncryptedOpens, DecryptedIsPlain
  <2> QED BY <2>1, <2>4 DEF StoredCopy, Matches
<1> QED BY <1>2, <1>3, <1>4 DEF Restorable

(***************************************************************************)
(* A restore that ended well from a manifest without failures has brought  *)
(* back every copy of its service the run has recorded, however pushes,    *)
(* prunes, damage and crashes fell (push, restoreDownload).                *)
(***************************************************************************)
THEOREM RestoreIsWholeHolds == Spec => []RestoreIsWhole
BY InitCopies, StepCopies, RestoreIsWholeFollows, PTL DEF Spec

(***************************************************************************)
(* A push that reported ok and that nothing disturbed can be restored with *)
(* its key while its run is within the retention or among the newest       *)
(* MIN_KEEP_RUNS (push, pruneRemote, restoreDownload).                     *)
(***************************************************************************)
THEOREM OkRestoresHolds == Spec => []OkRestores
BY InitCopies, StepCopies, OkRestoresFollows, PTL DEF Spec

-----------------------------------------------------------------------------
(***************************************************************************)
(* The restore drill                                                       *)
(***************************************************************************)
Stages == Running \cup Cleanup \cup Ended \cup {"lock"}

\* The databases and roles that carry the stamp of drill d.
Own(d) == {d} \X Dbs

Busy(d) == dr[d].pc \in Running \cup Cleanup

\* A record of drill.json while it is made.
Todo == Dbs \cup Scratch \cup (Scratch \X {"database", "role"})
Failures == {"-", "space", "error", "prepare", "restore", "objects", "start", "ready", "compare",
             "acceptance", "stop"}
Drilling == [pc : Stages, todo : SUBSET Todo, at : SUBSET Scratch, scratch : SUBSET Scratch, kept : BOOLEAN,
             pid : BOOLEAN, created : BOOLEAN, failure : Failures, stop : {"-", "ok", "failed"},
             undropped : SUBSET Scratch, result : {"-", "passed", "failed"}, by : SUBSET Drills, keep : BOOLEAN]

Typed ==
    /\ dr \in [Drills -> Drilling]
    /\ inst \in [Drills -> {"none", "starting", "up"}]
    /\ env \in [Drills -> SUBSET Addresses]

\* Whoever works holds the lock alone, and got it past the refusals.
Locked(d) == Busy(d) => lock = {d}
Checked(d) == dr[d].pc \notin {"idle", "refused"} => FullyOverridden

Unstarted == {"idle", "refused", "lock", "space", "sweep", "prepare"}
Starting == {"copy", "role", "createdb", "pgrestore", "objects", "counts", "start"}
Started == {"ready", "compare", "acceptance"}
Dropped == {"remove", "record", "done"}

\* The sweep has a list of every database there is; after it there are only the drill's own.
Swept(d) ==
    /\ dr[d].pc = "sweep" => \A x \in dbs : <<x, "database">> \in dr[d].todo
    /\ dr[d].pc \in Running \ {"space", "sweep"} => dbs \subseteq Own(d)

\* Who has answered.
Answered(d) ==
    /\ dr[d].pc \in Running \cup {"idle", "lock"} => dr[d].failure = "-"
    /\ dr[d].pc = "acceptance" => dr[d].by = {d}
    /\ dr[d].pc \in Cleanup /\ dr[d].failure = "-" => dr[d].by = {d}
    /\ dr[d].result = "passed" => dr[d].by = {d}

\* The scratch names what the drill has created ...
Copying(d) ==
    /\ dr[d].scratch \subseteq Own(d)
    /\ dr[d].pc = "copy" => dr[d].todo \subseteq Dbs
    /\ dr[d].pc \in {"role", "createdb", "pgrestore"} => dr[d].at \subseteq Own(d) /\ dr[d].todo \subseteq Dbs
    /\ dr[d].pc \in {"createdb", "pgrestore"} => dr[d].at \subseteq dr[d].scratch
    /\ dr[d].pc = "pgrestore" => dr[d].at \subseteq dbs

\* ... but for a role that was created when psql was cut off.
Named(d) ==
    /\ dr[d].pc \in Unstarted => \A x \in Own(d) : x \notin dbs /\ x \notin roles
    /\ \A x \in Own(d) \cap dbs : x \in dr[d].scratch
    /\ dr[d].pc # "dead" => \A x \in Own(d) \cap roles : x \in dr[d].scratch \/ dr[d].failure = "error"

\* What the cleanup has passed is gone or in the record.
Cleaned(d) ==
    LET left(x) == x \in dr[d].todo \/ x \in dr[d].undropped
    IN  /\ dr[d].pc \in {"drop", "drop role"} => dr[d].todo \subseteq dr[d].scratch
        /\ dr[d].pc \in {"drop", "drop role"} => \A x \in Own(d) \cap dr[d].scratch \cap roles : left(x)
        /\ dr[d].pc = "drop" => \A x \in Own(d) \cap dbs : left(x)
        /\ dr[d].pc = "drop role" =>
              \A x \in Own(d) \cap dbs : x \in dr[d].undropped \/ (x \in dr[d].todo /\ x \notin dr[d].at)
        /\ dr[d].pc \in Dropped =>
              \A x \in Own(d) \cap dr[d].scratch : x \in dbs \cup roles => x \in dr[d].undropped

Directory(d) ==
    /\ d \in dirs => dr[d].created
    /\ dr[d].pc \in {"record", "done"} /\ d \in dirs => dr[d].kept

\* An instance that may still run is known by its pid, or by the failure of its start.
Watched(d) ==
    /\ dr[d].pc \in Unstarted \cup Starting => inst[d] = "none"
    /\ dr[d].pc \in Started => dr[d].pid
    /\ dr[d].pc = "stop" /\ inst[d] # "none" => dr[d].pid \/ dr[d].failure = "start"
    /\ dr[d].pc \in {"drop", "drop role"} \cup Dropped /\ inst[d] # "none" =>
          dr[d].stop = "failed" \/ dr[d].failure = "start"

DrillInv(d) ==
    /\ Locked(d) /\ Checked(d) /\ Swept(d) /\ Answered(d) /\ Copying(d)
    /\ Named(d) /\ Cleaned(d) /\ Directory(d) /\ Watched(d)

Sets == dbs \subseteq Scratch /\ roles \subseteq Scratch /\ full \subseteq dbs

DrillsInv == Typed /\ InstanceIsolated /\ Sets /\ \A d \in Drills : DrillInv(d)

-----------------------------------------------------------------------------
(***************************************************************************)
(* What a step of one drill leaves to the others: nothing of theirs is     *)
(* changed but what a sweep removes, and nothing at all while one works,   *)
(* because it has the lock.                                                *)
(***************************************************************************)
Own1(d) == Precheck(d) \/ Acquire(d) \/ Space(d) \/ Sweep(d) \/ Prepare(d)
Own2(d) == Copy(d) \/ CreateRole(d) \/ CreateDatabase(d) \/ PgRestore(d) \/ Objects(d) \/ RestoredCounts(d)
Own3(d) == StartInstance(d) \/ ShowPid(d) \/ Ready(d) \/ Compare(d) \/ Acceptance(d)
Own4(d) == Stop(d) \/ Drop(d) \/ DropTheRole(d) \/ RemoveDirectory(d) \/ Record(d)
Own5(d) == Kill(d) \/ InstanceListens(d) \/ InstanceEnds(d)
Mine(d) == Own1(d) \/ Own2(d) \/ Own3(d) \/ Own4(d) \/ Own5(d)

Framed(e) ==
    /\ decl' = decl /\ dr'[e] = dr[e] /\ inst'[e] = inst[e] /\ env'[e] = env[e]
    /\ e \in dirs' <=> e \in dirs
    /\ \A x \in Own(e) : (x \in dbs' => x \in dbs) /\ (x \in roles' => x \in roles)
    /\ Busy(e) => dbs' = dbs /\ lock' = lock

LEMMA FramedStep ==
    ASSUME DrillsInv, NEW d \in Drills, NEW e \in Drills \ {d}, Mine(d)
    PROVE  Framed(e)
<1> USE DEF At, Goto, Fail, Failed, Cleaning, Framed, Busy, Running, Cleanup, Ended
<1>0. /\ dr \in [Drills -> Drilling] /\ inst \in [Drills -> {"none", "starting", "up"}]
      /\ env \in [Drills -> SUBSET Addresses]
      /\ Busy(d) => lock = {d} /\ ~Busy(e)
      /\ Busy(e) => lock = {e} /\ e \in lock
      /\ \A x \in Own(e) : x \notin Own(d)
      /\ dr[d].pc \in {"role", "createdb", "pgrestore"} => dr[d].at \subseteq Own(d)
  BY DEF DrillsInv, Typed, DrillInv, Locked, Copying, Own
<1>1. CASE Own1(d)
  <2>1. CASE Precheck(d) \/ Acquire(d)
    BY <1>0, <2>1 DEF Precheck, Acquire, worldVars, clusterVars, instVars
  <2>2. CASE Space(d) \/ Prepare(d)
    BY <1>0, <2>2 DEF Space, Prepare, worldVars, clusterVars, instVars
  <2>3. CASE Sweep(d)
    BY <1>0, <2>3 DEF Sweep, DropDatabase, DropRole, worldVars, clusterVars, instVars
  <2> QED BY <1>1, <2>1, <2>2, <2>3 DEF Own1
<1>2. CASE Own2(d)
  BY <1>0, <1>2 DEF Own2, Copy, CreateRole, CreateDatabase, WithRole, WithDatabase, PgRestore, Objects,
     RestoredCounts, worldVars, clusterVars, instVars
<1>3. CASE Own3(d)
  BY <1>0, <1>3 DEF Own3, StartInstance, ShowPid, Ready, Compare, Acceptance, worldVars, clusterVars, instVars
<1>4. CASE Own4(d)
  BY <1>0, <1>4 DEF Own4, Stop, Stopped, Drop, DropDatabase, DropTheRole, RemoveDirectory, Record, worldVars,
     clusterVars, instVars
<1>5. CASE Own5(d)
  BY <1>0, <1>5 DEF Own5, Kill, InstanceListens, InstanceEnds, Stopped, worldVars, clusterVars, instVars
<1> QED BY <1>1, <1>2, <1>3, <1>4, <1>5 DEF Mine

LEMMA FramedKeeps ==
    ASSUME NEW e \in Drills, DrillInv(e), Framed(e)
    PROVE  DrillInv(e)'
<1> USE DEF DrillInv, Framed
<1>1. Locked(e)' /\ Checked(e)' /\ Answered(e)' /\ Directory(e)' /\ Watched(e)'
  BY DEF Locked, Busy, Checked, FullyOverridden, DeclarationAccepted, Answered, Directory, Watched
<1>2. Swept(e)' /\ Copying(e)'
  BY DEF Swept, Copying, Busy, Running, Cleanup, Own
<1>3. Named(e)' /\ Cleaned(e)'
  BY DEF Named, Cleaned, Own
<1> QED BY <1>1, <1>2, <1>3

-----------------------------------------------------------------------------
(***************************************************************************)
(* What a step does to the drill's own record.                             *)
(***************************************************************************)
Tidy(d) == Named(d) /\ Cleaned(d) /\ Directory(d) /\ Watched(d)
Truthful(d) == Locked(d) /\ Checked(d) /\ Swept(d) /\ Answered(d) /\ Copying(d)

\* A drill writes its record.
Written(d) == \E r \in Drilling : dr' = [dr EXCEPT ![d] = r]

LEMMA NamesTyped ==
    /\ {"refused", "lock", "space", "sweep", "prepare", "copy", "role", "createdb", "pgrestore", "objects"} \subseteq Stages
    /\ {"counts", "start", "show", "ready", "compare", "acceptance"} \subseteq Stages
    /\ {"stop", "drop", "drop role", "remove", "record", "done", "dead"} \subseteq Stages
    /\ {"-", "space", "error", "prepare", "restore", "objects", "start", "ready", "compare", "acceptance", "stop"}
          \subseteq Failures
BY DEF Stages, Running, Cleanup, Ended, Failures

LEMMA FailedTyped == \A r \in Drilling, s \in Failures : Failed(r, s) \in Drilling
<1> SUFFICES ASSUME NEW r \in Drilling, NEW s \in Failures
             PROVE  Failed(r, s) \in Drilling
  OBVIOUS
<1>1. r.failure \in Failures
  BY DEF Drilling
<1>2. \A f \in Failures, p \in Stages : [r EXCEPT !.failure = f, !.pc = p] \in Drilling
  BY DEF Drilling
<1> QED BY <1>1, <1>2, NamesTyped DEF Failed

LEMMA GotoTyped == \A r \in Drilling, p \in Stages : [r EXCEPT !.pc = p] \in Drilling
BY DEF Drilling

LEMMA FailWritten ==
    ASSUME NEW d \in Drills, dr \in [Drills -> Drilling], NEW s \in Failures, Fail(d, s)
    PROVE  Written(d)
BY FailedTyped DEF Fail, Written

LEMMA GotoWritten ==
    ASSUME NEW d \in Drills, dr \in [Drills -> Drilling], NEW p \in Stages, Goto(d, p)
    PROVE  Written(d)
<1>1. dr' = [dr EXCEPT ![d] = [dr[d] EXCEPT !.pc = p]]
  BY DEF Goto
<1> QED BY <1>1, GotoTyped DEF Written

LEMMA WrittenStep ==
    ASSUME DrillsInv, NEW d \in Drills, Mine(d)
    PROVE  Written(d) \/ dr' = dr
<1> USE NamesTyped
<1>0. dr \in [Drills -> Drilling] /\ Sets /\ dr[d] \in Drilling
  BY DEF DrillsInv, Typed
<1>1. CASE Own1(d)
  <2>1. CASE Precheck(d)
    <3>1. PICK keep \in BOOLEAN : dr' = [dr EXCEPT ![d] = [dr[d] EXCEPT !.keep = keep,
              !.pc = IF FullyOverridden /\ RequirementsMet /\ ~PortInUse /\ BackupResolved /\ StartSpec
                     THEN "lock" ELSE "refused"]]
      BY <2>1 DEF Precheck
    <3>2. \A k \in BOOLEAN, p \in Stages : [dr[d] EXCEPT !.keep = k, !.pc = p] \in Drilling
      BY <1>0 DEF Drilling
    <3> QED BY <3>1, <3>2 DEF Written
  <2>2. CASE Acquire(d) \/ (Sweep(d) /\ (Goto(d, "prepare") \/ Fail(d, "error")))
    BY <1>0, <2>2, GotoWritten, FailWritten DEF Acquire
  <2>3. CASE Space(d)
    <3>1. Leftovers \subseteq Todo /\ \A x \in SUBSET Todo : [dr[d] EXCEPT !.pc = "sweep", !.todo = x] \in Drilling
      BY <1>0 DEF Leftovers, Todo, Sets, Drilling
    <3>2. dr' = [dr EXCEPT ![d] = [dr[d] EXCEPT !.pc = "sweep", !.todo = Leftovers]] \/ Fail(d, "space")
      BY <2>3 DEF Space
    <3> QED BY <1>0, <3>1, <3>2, FailWritten DEF Written
  <2>4. CASE Sweep(d) /\ ~(Goto(d, "prepare") \/ Fail(d, "error"))
    <3>1. PICK t : dr' = [dr EXCEPT ![d] = [dr[d] EXCEPT !.todo = @ \ {t}]]
      BY <2>4 DEF Sweep
    <3>2. [dr[d] EXCEPT !.todo = @ \ {t}] \in Drilling
      BY <1>0 DEF Drilling
    <3> QED BY <3>1, <3>2 DEF Written
  <2>5. CASE Prepare(d)
    <3>1. LET r == [dr[d] EXCEPT !.created = TRUE, !.pc = "copy", !.todo = Dbs]
              s == [dr[d] EXCEPT !.created = TRUE]
          IN  \/ dr' = [dr EXCEPT ![d] = r]
              \/ dr' = [dr EXCEPT ![d] = Failed(s, "error")]
              \/ Fail(d, "prepare")
      BY <2>5 DEF Prepare
    <3>2. [dr[d] EXCEPT !.created = TRUE, !.pc = "copy", !.todo = Dbs] \in Drilling
      BY <1>0 DEF Drilling, Todo
    <3>3. [dr[d] EXCEPT !.created = TRUE] \in Drilling
      BY <1>0 DEF Drilling
    <3> QED BY <1>0, <3>1, <3>2, <3>3, FailedTyped, FailWritten DEF Written
  <2> QED BY <1>1, <2>1, <2>2, <2>3, <2>4, <2>5 DEF Own1
<1>2. CASE Own2(d)
  <2>1. CASE Copy(d)
    <3>1. \/ \E b \in dr[d].todo :
               dr' = [dr EXCEPT ![d] = [dr[d] EXCEPT !.pc = "role", !.todo = @ \ {b}, !.at = {<<d, b>>}]]
          \/ Goto(d, "objects") \/ Fail(d, "restore")
      BY <2>1 DEF Copy
    <3>2. dr[d].todo \subseteq Dbs
      BY <2>1 DEF DrillsInv, DrillInv, Copying, Copy, At
    <3>3. \A b \in dr[d].todo : [dr[d] EXCEPT !.pc = "role", !.todo = @ \ {b}, !.at = {<<d, b>>}] \in Drilling
      <4>1. \A b \in dr[d].todo : <<d, b>> \in Scratch
        BY <3>2 DEF Scratch
      <4> QED BY <1>0, <4>1 DEF Drilling
    <3> QED BY <1>0, <3>1, <3>3, GotoWritten, FailWritten DEF Written
  <2>2. CASE CreateRole(d)
    <3>1. \/ dr' = [dr EXCEPT ![d] = [dr[d] EXCEPT !.pc = "createdb", !.scratch = @ \cup dr[d].at]]
          \/ Fail(d, "error")
      BY <2>2 DEF CreateRole
    <3>2. [dr[d] EXCEPT !.pc = "createdb", !.scratch = @ \cup dr[d].at] \in Drilling
      BY <1>0 DEF Drilling
    <3> QED BY <1>0, <3>1, <3>2, FailWritten DEF Written
  <2>3. CASE CreateDatabase(d) \/ PgRestore(d) \/ Objects(d) \/ RestoredCounts(d)
    BY <1>0, <2>3, GotoWritten, FailWritten DEF CreateDatabase, PgRestore, Objects, RestoredCounts
  <2> QED BY <1>2, <2>1, <2>2, <2>3 DEF Own2
<1>3. CASE Own3(d)
  <2>1. CASE StartInstance(d)
    BY <1>0, <2>1, GotoWritten, FailWritten DEF StartInstance
  <2>2. CASE ShowPid(d)
    <3>1. dr' = [dr EXCEPT ![d] = [dr[d] EXCEPT !.pid = TRUE, !.pc = "ready"]] \/ Fail(d, "start")
      BY <2>2 DEF ShowPid
    <3>2. [dr[d] EXCEPT !.pid = TRUE, !.pc = "ready"] \in Drilling
      BY <1>0 DEF Drilling
    <3> QED BY <1>0, <3>1, <3>2, FailWritten DEF Written
  <2>3. CASE Ready(d)
    <3>1. LET s == [dr[d] EXCEPT !.pid = FALSE]
          IN  Goto(d, "compare") \/ dr' = [dr EXCEPT ![d] = Failed(s, "ready")] \/ Fail(d, "ready")
      BY <2>3 DEF Ready
    <3>2. [dr[d] EXCEPT !.pid = FALSE] \in Drilling
      BY <1>0 DEF Drilling
    <3> QED BY <1>0, <3>1, <3>2, FailedTyped, GotoWritten, FailWritten DEF Written
  <2>4. CASE Compare(d) \/ Acceptance(d)
    <3>1. \/ dr' = [dr EXCEPT ![d] = [dr[d] EXCEPT !.by = Answering, !.pc = "acceptance"]]
          \/ dr' = [dr EXCEPT ![d] = [dr[d] EXCEPT !.by = @ \cup Answering, !.pc = "stop"]]
          \/ Fail(d, "compare") \/ Fail(d, "acceptance")
      BY <2>4 DEF Compare, Acceptance
    <3>2. /\ [dr[d] EXCEPT !.by = Answering, !.pc = "acceptance"] \in Drilling
          /\ [dr[d] EXCEPT !.by = @ \cup Answering, !.pc = "stop"] \in Drilling
      BY <1>0 DEF Drilling, Answering
    <3> QED BY <1>0, <3>1, <3>2, FailWritten DEF Written
  <2> QED BY <1>3, <2>1, <2>2, <2>3, <2>4 DEF Own3
<1>4. CASE Own4(d)
  <2>1. CASE Stop(d)
    <3>1. \E s \in {"-", "ok", "failed"} : dr' = [dr EXCEPT ![d] = Cleaning(dr[d], s)]
      BY <2>1 DEF Stop
    <3>2. \A s \in {"-", "ok", "failed"} : Cleaning(dr[d], s) \in Drilling
      BY <1>0 DEF Drilling, Cleaning, Todo
    <3> QED BY <3>1, <3>2 DEF Written
  <2>2. CASE Drop(d)
    <3>1. \/ Goto(d, "remove")
          \/ \E x \in dr[d].todo :
               \/ dr' = [dr EXCEPT ![d] = [dr[d] EXCEPT !.pc = "drop role", !.at = {x}]]
               \/ dr' = [dr EXCEPT ![d] = [dr[d] EXCEPT !.pc = "drop role", !.at = {x}, !.undropped = @ \cup {x}]]
      BY <2>2 DEF Drop
    <3>2. dr[d].todo \subseteq Scratch
      <4>1. dr[d].todo \subseteq dr[d].scratch
        BY <2>2 DEF DrillsInv, DrillInv, Cleaned, Drop, At
      <4> QED BY <1>0, <4>1 DEF Drilling
    <3>3. \A x \in dr[d].todo :
              /\ [dr[d] EXCEPT !.pc = "drop role", !.at = {x}] \in Drilling
              /\ [dr[d] EXCEPT !.pc = "drop role", !.at = {x}, !.undropped = @ \cup {x}] \in Drilling
      BY <1>0, <3>2 DEF Drilling
    <3> QED BY <1>0, <3>1, <3>3, GotoWritten DEF Written
  <2>3. CASE DropTheRole(d)
    <3>1. LET tried == [dr[d] EXCEPT !.pc = "drop", !.todo = @ \ dr[d].at]
          IN  \/ dr' = [dr EXCEPT ![d] = tried]
              \/ dr' = [dr EXCEPT ![d] = [tried EXCEPT !.undropped = @ \cup dr[d].at]]
      BY <2>3 DEF DropTheRole
    <3>2. LET tried == [dr[d] EXCEPT !.pc = "drop", !.todo = @ \ dr[d].at]
          IN  tried \in Drilling /\ [tried EXCEPT !.undropped = @ \cup dr[d].at] \in Drilling
      BY <1>0 DEF Drilling
    <3> QED BY <3>1, <3>2 DEF Written
  <2>4. CASE RemoveDirectory(d)
    <3>1. PICK f \in Failures :
              \/ dr' = [dr EXCEPT ![d] = [dr[d] EXCEPT !.failure = f, !.pc = "record"]]
              \/ dr' = [dr EXCEPT ![d] = [[dr[d] EXCEPT !.failure = f, !.pc = "record"] EXCEPT !.kept = TRUE]]
      <4>1. (IF dr[d].stop = "failed" /\ dr[d].failure = "-" THEN "stop" ELSE dr[d].failure) \in Failures
        BY <1>0 DEF Drilling
      <4> QED BY <2>4, <4>1 DEF RemoveDirectory
    <3>2. [dr[d] EXCEPT !.failure = f, !.pc = "record"] \in Drilling
      BY <1>0 DEF Drilling
    <3>3. [[dr[d] EXCEPT !.failure = f, !.pc = "record"] EXCEPT !.kept = TRUE] \in Drilling
      BY <3>2 DEF Drilling
    <3> QED BY <3>1, <3>2, <3>3 DEF Written
  <2>5. CASE Record(d)
    <3>1. dr' = [dr EXCEPT ![d] = [dr[d] EXCEPT !.pc = "done",
                                      !.result = IF dr[d].failure = "-" THEN "passed" ELSE "failed"]]
      BY <2>5 DEF Record
    <3>2. [dr[d] EXCEPT !.pc = "done",
                 !.result = IF dr[d].failure = "-" THEN "passed" ELSE "failed"] \in Drilling
      BY <1>0 DEF Drilling
    <3> QED BY <3>1, <3>2 DEF Written
  <2> QED BY <1>4, <2>1, <2>2, <2>3, <2>4, <2>5 DEF Own4
<1>5. CASE Own5(d)
  BY <1>0, <1>5, GotoWritten DEF Own5, Kill, InstanceListens, InstanceEnds
<1> QED BY <1>1, <1>2, <1>3, <1>4, <1>5 DEF Mine

LEMMA TypedStep ==
    ASSUME DrillsInv, NEW d \in Drills, Mine(d)
    PROVE  Typed' /\ Sets'
<1>1. dr \in [Drills -> Drilling] /\ Sets /\ (dr[d].pc = "pgrestore" => dr[d].at \subseteq dbs)
      /\ (dr[d].pc \in {"role", "createdb"} => dr[d].at \subseteq Scratch)
  BY DEF DrillsInv, DrillInv, Copying, Typed, Drilling
<1>2. dr' \in [Drills -> Drilling]
  BY <1>1, WrittenStep DEF Written
<1>3. Sets'
  <2> USE <1>1 DEF Sets, At, worldVars, clusterVars, instVars
  <2>1. CASE Own1(d)
    BY <2>1 DEF Own1, Precheck, Acquire, Space, Sweep, Prepare, DropDatabase, DropRole
  <2>2. CASE Own2(d)
    BY <2>2 DEF Own2, Copy, CreateRole, CreateDatabase, WithRole, WithDatabase, PgRestore, Objects, RestoredCounts
  <2>3. CASE Own3(d) \/ Own5(d)
    BY <2>3 DEF Own3, StartInstance, ShowPid, Ready, Compare, Acceptance, Own5, Kill, InstanceListens, InstanceEnds
  <2>4. CASE Own4(d)
    BY <2>4 DEF Own4, Stop, Drop, DropDatabase, DropTheRole, RemoveDirectory, Record
  <2> QED BY <2>1, <2>2, <2>3, <2>4 DEF Mine
<1>4. inst' \in [Drills -> {"none", "starting", "up"}] /\ env' \in [Drills -> SUBSET Addresses]
  <2> USE DEF DrillsInv, Typed, worldVars, clusterVars, instVars
  <2>1. CASE Own1(d) \/ Own2(d)
    BY <2>1 DEF Own1, Precheck, Acquire, Space, Sweep, Prepare, Own2, Copy, CreateRole, CreateDatabase,
       PgRestore, Objects, RestoredCounts
  <2>2. CASE Own3(d)
    BY <2>2 DEF Own3, StartInstance, ShowPid, Ready, Compare, Acceptance
  <2>3. CASE Own4(d) \/ Own5(d)
    BY <2>3 DEF Own4, Stop, Stopped, Drop, DropTheRole, RemoveDirectory, Record, Own5, Kill, InstanceListens, InstanceEnds
  <2> QED BY <2>1, <2>2, <2>3 DEF Mine
<1> QED BY <1>2, <1>3, <1>4 DEF Typed

-----------------------------------------------------------------------------
LEMMA AnswersOwn ==
    ASSUME Sets, NEW d \in Drills, dbs \subseteq Own(d)
    PROVE  Answering \subseteq {d}
<1> SUFFICES ASSUME NEW e \in Answering, e # d PROVE FALSE
  OBVIOUS
<1>1. PICK b : b \in Dbs
  BY DbsAssumption
<1>2. <<e, b>> \in dbs /\ <<e, b>> \notin Own(d)
  BY <1>1 DEF Answering, Sets, Own
<1> QED BY <1>2

\* Parts of a record a step leaves alone.
SameNames(d) == dr'[d].scratch = dr[d].scratch /\ dr'[d].undropped = dr[d].undropped
SameDir(d) == dr'[d].created = dr[d].created /\ dr'[d].kept = dr[d].kept
SameEnd(d) == dr'[d].stop = dr[d].stop /\ dr'[d].pid = dr[d].pid
SameAnswers(d) == dr'[d].by = dr[d].by /\ dr'[d].result = dr[d].result
SameWork(d) == dr'[d].todo = dr[d].todo /\ dr'[d].at = dr[d].at
SameFailure(d) == dr'[d].failure = dr[d].failure

\* The host around it.
SameWorld == decl' = decl /\ lock' = lock
SameScratch == dbs' = dbs /\ roles' = roles

LEMMA FailEffect ==
    ASSUME NEW d \in Drills, dr \in [Drills -> Drilling], NEW s \in Failures \ {"-"}, Fail(d, s)
    PROVE  /\ dr'[d].pc = "stop" /\ dr'[d].failure = (IF dr[d].failure = "-" THEN s ELSE dr[d].failure)
           /\ dr'[d].failure # "-"
           /\ SameNames(d) /\ SameDir(d) /\ SameEnd(d) /\ SameAnswers(d) /\ SameWork(d)
<1>1. dr'[d] = Failed(dr[d], s) /\ dr[d] \in Drilling
  BY DEF Fail
<1> QED BY <1>1 DEF Failed, Drilling, SameNames, SameDir, SameEnd, SameAnswers, SameWork

LEMMA FailedFields ==
    \A r \in Drilling, s \in Failures \ {"-"} :
        LET f == Failed(r, s)
        IN  /\ f.pc = "stop" /\ f.failure # "-" /\ f.stop = r.stop /\ f.pid = r.pid
            /\ f.scratch = r.scratch /\ f.undropped = r.undropped
            /\ f.created = r.created /\ f.kept = r.kept /\ f.by = r.by /\ f.result = r.result
BY DEF Failed, Drilling

LEMMA GotoEffect ==
    ASSUME NEW d \in Drills, dr \in [Drills -> Drilling], NEW p, Goto(d, p)
    PROVE  /\ dr'[d].pc = p /\ SameFailure(d)
           /\ SameNames(d) /\ SameDir(d) /\ SameEnd(d) /\ SameAnswers(d) /\ SameWork(d)
<1>1. dr'[d] = [dr[d] EXCEPT !.pc = p] /\ dr[d] \in Drilling
  BY DEF Goto
<1> QED BY <1>1 DEF Drilling, SameFailure, SameNames, SameDir, SameEnd, SameAnswers, SameWork

USE DEF SameNames, SameDir, SameEnd, SameAnswers, SameWork, SameFailure, SameWorld, SameScratch,
        worldVars, clusterVars, instVars

LEMMA PrecheckKeeps ==
    ASSUME DrillsInv, NEW d \in Drills, Precheck(d)
    PROVE  Truthful(d)' /\ Tidy(d)'
<1>0. dr \in [Drills -> Drilling] /\ dr[d] \in Drilling /\ DrillInv(d) /\ Sets
      /\ inst \in [Drills -> {"none", "starting", "up"}]
  BY DEF DrillsInv, Typed
<1>1. \E keep \in BOOLEAN, p \in {"lock", "refused"} :
      dr'[d] = [dr[d] EXCEPT !.keep = keep, !.pc = p] /\ (p = "lock" => FullyOverridden)
  BY <1>0 DEF Precheck, At
<1>2. /\ dr[d].pc = "idle" /\ dr'[d].pc \in {"lock", "refused"} /\ (dr'[d].pc = "lock" => FullyOverridden)
      /\ SameFailure(d) /\ SameNames(d) /\ SameDir(d) /\ SameEnd(d) /\ SameAnswers(d)
      /\ SameWorld /\ SameScratch /\ dirs' = dirs /\ inst' = inst
  BY <1>0, <1>1, FailEffect, GotoEffect DEF Precheck, At, Failures, Drilling
<1>3. Truthful(d)'
  BY <1>0, <1>2 DEF DrillInv, Truthful, Locked, Busy, Running, Cleanup, Checked, FullyOverridden, DeclarationAccepted,
     Swept, Answered, Copying, Own, Leftovers
<1>4. Tidy(d)'
  BY <1>0, <1>2 DEF DrillInv, Tidy, Named, Cleaned, Directory, Watched, Unstarted, Starting, Started, Dropped,
     Copying, Answered, Running, Own
<1> QED BY <1>3, <1>4

LEMMA AcquireKeeps ==
    ASSUME DrillsInv, NEW d \in Drills, Acquire(d)
    PROVE  Truthful(d)' /\ Tidy(d)'
<1>0. dr \in [Drills -> Drilling] /\ dr[d] \in Drilling /\ DrillInv(d) /\ Sets
      /\ inst \in [Drills -> {"none", "starting", "up"}]
  BY DEF DrillsInv, Typed
<1>1. (Goto(d, "space") /\ lock' = {d}) \/ (Goto(d, "refused") /\ lock' = lock)
  BY <1>0 DEF Acquire, At
<1>2. /\ dr[d].pc = "lock"
      /\ \/ dr'[d].pc = "space" /\ lock' = {d}
         \/ dr'[d].pc = "refused" /\ lock' = lock
      /\ decl' = decl /\ SameScratch /\ dirs' = dirs /\ inst' = inst
      /\ SameFailure(d) /\ SameNames(d) /\ SameDir(d) /\ SameEnd(d) /\ SameAnswers(d)
  BY <1>0, <1>1, FailEffect, GotoEffect DEF Acquire, At, Failures, Drilling
<1>3. Truthful(d)'
  BY <1>0, <1>2 DEF DrillInv, Truthful, Locked, Busy, Running, Cleanup, Checked, FullyOverridden, DeclarationAccepted,
     Swept, Answered, Copying, Own, Leftovers
<1>4. Tidy(d)'
  BY <1>0, <1>2 DEF DrillInv, Tidy, Named, Cleaned, Directory, Watched, Unstarted, Starting, Started, Dropped,
     Copying, Answered, Running, Own
<1> QED BY <1>3, <1>4

LEMMA SpaceKeeps ==
    ASSUME DrillsInv, NEW d \in Drills, Space(d)
    PROVE  Truthful(d)' /\ Tidy(d)'
<1>0. dr \in [Drills -> Drilling] /\ dr[d] \in Drilling /\ DrillInv(d) /\ Sets
      /\ inst \in [Drills -> {"none", "starting", "up"}]
  BY DEF DrillsInv, Typed
<1>1. dr'[d] = [dr[d] EXCEPT !.pc = "sweep", !.todo = Leftovers] \/ Fail(d, "space")
  BY <1>0 DEF Space, At
<1>2. /\ dr[d].pc = "space"
      /\ \/ dr'[d].pc = "sweep" /\ dr'[d].todo = Leftovers /\ SameFailure(d)
         \/ dr'[d].pc = "stop" /\ dr'[d].failure # "-"
      /\ SameNames(d) /\ SameDir(d) /\ SameEnd(d) /\ SameAnswers(d)
      /\ SameWorld /\ SameScratch /\ dirs' = dirs /\ inst' = inst
  BY <1>0, <1>1, FailEffect, GotoEffect DEF Space, At, Failures, Drilling
<1>3. Truthful(d)'
  BY <1>0, <1>2 DEF DrillInv, Truthful, Locked, Busy, Running, Cleanup, Checked, FullyOverridden, DeclarationAccepted,
     Swept, Answered, Copying, Own, Leftovers
<1>4. Tidy(d)'
  BY <1>0, <1>2 DEF DrillInv, Tidy, Named, Cleaned, Directory, Watched, Unstarted, Starting, Started, Dropped,
     Copying, Answered, Running, Own
<1> QED BY <1>3, <1>4

LEMMA SweepKeeps ==
    ASSUME DrillsInv, NEW d \in Drills, Sweep(d)
    PROVE  Truthful(d)' /\ Tidy(d)'
<1>0. dr \in [Drills -> Drilling] /\ dr[d] \in Drilling /\ DrillInv(d) /\ Sets
      /\ inst \in [Drills -> {"none", "starting", "up"}]
  BY DEF DrillsInv, Typed
<1>1. \/ Goto(d, "prepare") /\ dr[d].todo = {} /\ SameScratch
      \/ /\ \E t : dr'[d] = [dr[d] EXCEPT !.todo = @ \ {t}] /\ (t[2] = "database" => t[1] \notin dbs')
         /\ dbs' \subseteq dbs /\ roles' \subseteq roles
      \/ Fail(d, "error") /\ SameScratch
  BY <1>0 DEF Sweep, At, DropDatabase, DropRole
<1>2. /\ dr[d].pc = "sweep"
      /\ \/ dr'[d].pc = "prepare" /\ dr[d].todo = {} /\ SameFailure(d)
         \/ /\ dr'[d].pc = "sweep" /\ SameFailure(d)
            /\ \A x \in dbs' : <<x, "database">> \in dr'[d].todo
         \/ dr'[d].pc = "stop" /\ dr'[d].failure # "-"
      /\ dbs' \subseteq dbs /\ roles' \subseteq roles
      /\ SameNames(d) /\ SameDir(d) /\ SameEnd(d) /\ SameAnswers(d)
      /\ SameWorld /\ dirs' = dirs /\ inst' = inst
  <2>1. dr[d].pc = "sweep" /\ SameWorld /\ dirs' = dirs /\ inst' = inst
    BY DEF Sweep, At
  <2>2. CASE Goto(d, "prepare") /\ dr[d].todo = {} /\ SameScratch
    BY <1>0, <2>1, <2>2, GotoEffect
  <2>3. CASE Fail(d, "error") /\ SameScratch
    BY <1>0, <2>1, <2>3, FailEffect DEF Failures
  <2>4. CASE /\ \E t : dr'[d] = [dr[d] EXCEPT !.todo = @ \ {t}] /\ (t[2] = "database" => t[1] \notin dbs')
             /\ dbs' \subseteq dbs /\ roles' \subseteq roles
    <3>1. PICK t : dr'[d] = [dr[d] EXCEPT !.todo = @ \ {t}] /\ (t[2] = "database" => t[1] \notin dbs')
      BY <2>4
    <3>2. dr'[d].todo = dr[d].todo \ {t} /\ dr'[d].pc = dr[d].pc /\ SameFailure(d)
          /\ SameNames(d) /\ SameDir(d) /\ SameEnd(d) /\ SameAnswers(d)
      BY <1>0, <3>1 DEF Drilling
    <3>3. \A x \in dbs' : <<x, "database">> \in dr[d].todo /\ <<x, "database">> # t
      <4> TAKE x \in dbs'
      <4>1. <<x, "database">> \in dr[d].todo
        BY <1>0, <2>1, <2>4 DEF DrillInv, Swept
      <4>2. <<x, "database">>[1] = x /\ <<x, "database">>[2] = "database"
        OBVIOUS
      <4> QED BY <3>1, <4>1, <4>2
    <3> QED BY <2>1, <2>4, <3>2, <3>3
  <2> QED BY <1>1, <2>2, <2>3, <2>4
<1>3. Truthful(d)'
  BY <1>0, <1>2 DEF DrillInv, Truthful, Locked, Busy, Running, Cleanup, Checked, FullyOverridden, DeclarationAccepted,
     Swept, Answered, Copying, Own, Leftovers
<1>4. Tidy(d)'
  BY <1>0, <1>2 DEF DrillInv, Tidy, Named, Cleaned, Directory, Watched, Unstarted, Starting, Started, Dropped,
     Copying, Answered, Running, Own
<1> QED BY <1>3, <1>4

LEMMA PrepareKeeps ==
    ASSUME DrillsInv, NEW d \in Drills, Prepare(d)
    PROVE  Truthful(d)' /\ Tidy(d)'
<1>0. dr \in [Drills -> Drilling] /\ dr[d] \in Drilling /\ DrillInv(d) /\ Sets
      /\ inst \in [Drills -> {"none", "starting", "up"}]
  BY DEF DrillsInv, Typed
<1>1. \/ dr'[d] = [dr[d] EXCEPT !.created = TRUE, !.pc = "copy", !.todo = Dbs]
      \/ Fail(d, "prepare") /\ dirs' = dirs
      \/ dr'[d] = Failed([dr[d] EXCEPT !.created = TRUE], "error")
  BY <1>0 DEF Prepare, At
<1>2. /\ dr[d].pc = "prepare"
      /\ \/ dr'[d].pc = "copy" /\ dr'[d].todo = Dbs /\ dr'[d].created /\ SameFailure(d)
         \/ dr'[d].pc = "stop" /\ dr'[d].failure # "-" /\ (dr'[d].created \/ (dirs' = dirs /\ SameDir(d)))
      /\ SameNames(d) /\ SameEnd(d) /\ SameAnswers(d)
      /\ SameWorld /\ SameScratch /\ inst' = inst
  <2>1. dr[d].pc = "prepare" /\ SameWorld /\ SameScratch /\ inst' = inst
    BY DEF Prepare, At
  <2>2. CASE dr'[d] = [dr[d] EXCEPT !.created = TRUE, !.pc = "copy", !.todo = Dbs]
    BY <1>0, <2>1, <2>2 DEF Drilling
  <2>3. CASE Fail(d, "prepare") /\ dirs' = dirs
    BY <1>0, <2>1, <2>3, FailEffect DEF Failures
  <2>4. CASE dr'[d] = Failed([dr[d] EXCEPT !.created = TRUE], "error")
    <3>1. [dr[d] EXCEPT !.created = TRUE] \in Drilling
      BY <1>0 DEF Drilling
    <3>2. dr'[d].pc = "stop" /\ dr'[d].failure # "-" /\ dr'[d].created
          /\ SameNames(d) /\ SameEnd(d) /\ SameAnswers(d)
      BY <1>0, <2>4, <3>1, FailedFields DEF Drilling, Failures
    <3> QED BY <2>1, <3>2
  <2> QED BY <1>1, <2>2, <2>3, <2>4
<1>3. Truthful(d)'
  BY <1>0, <1>2 DEF DrillInv, Truthful, Locked, Busy, Running, Cleanup, Checked, FullyOverridden, DeclarationAccepted,
     Swept, Answered, Copying, Own, Leftovers
<1>4. Tidy(d)'
  BY <1>0, <1>2 DEF DrillInv, Tidy, Named, Cleaned, Directory, Watched, Unstarted, Starting, Started, Dropped,
     Copying, Answered, Running, Own
<1> QED BY <1>3, <1>4

LEMMA CopyKeeps ==
    ASSUME DrillsInv, NEW d \in Drills, Copy(d)
    PROVE  Truthful(d)' /\ Tidy(d)'
<1>0. dr \in [Drills -> Drilling] /\ dr[d] \in Drilling /\ DrillInv(d) /\ Sets
      /\ inst \in [Drills -> {"none", "starting", "up"}]
  BY DEF DrillsInv, Typed
<1>1. \/ Goto(d, "objects")
      \/ \E b \in dr[d].todo : dr'[d] = [dr[d] EXCEPT !.pc = "role", !.todo = @ \ {b}, !.at = {<<d, b>>}]
      \/ Fail(d, "restore")
  BY <1>0 DEF Copy, At
<1>2. /\ dr[d].pc = "copy"
      /\ \/ dr'[d].pc = "objects" /\ SameFailure(d)
         \/ /\ dr'[d].pc = "role" /\ SameFailure(d)
            /\ \E b \in dr[d].todo : dr'[d].at = {<<d, b>>} /\ dr'[d].todo \subseteq dr[d].todo
         \/ dr'[d].pc = "stop" /\ dr'[d].failure # "-"
      /\ SameNames(d) /\ SameDir(d) /\ SameEnd(d) /\ SameAnswers(d)
      /\ SameWorld /\ SameScratch /\ dirs' = dirs /\ inst' = inst
  <2>1. dr[d].pc = "copy" /\ SameWorld /\ SameScratch /\ dirs' = dirs /\ inst' = inst
    BY DEF Copy, At
  <2>2. CASE Goto(d, "objects")
    BY <1>0, <2>1, <2>2, GotoEffect
  <2>3. CASE Fail(d, "restore")
    BY <1>0, <2>1, <2>3, FailEffect DEF Failures
  <2>4. ASSUME NEW b \in dr[d].todo, dr'[d] = [dr[d] EXCEPT !.pc = "role", !.todo = @ \ {b}, !.at = {<<d, b>>}]
        PROVE  /\ dr'[d].pc = "role" /\ SameFailure(d) /\ dr'[d].at = {<<d, b>>} /\ dr'[d].todo \subseteq dr[d].todo
               /\ SameNames(d) /\ SameDir(d) /\ SameEnd(d) /\ SameAnswers(d)
    BY <1>0, <2>4 DEF Drilling
  <2> QED BY <1>1, <2>1, <2>2, <2>3, <2>4
<1>3. \A b \in Dbs : <<d, b>> \in Own(d)
  BY DEF Own
<1>4. Truthful(d)'
  BY <1>0, <1>2, <1>3 DEF DrillInv, Truthful, Locked, Busy, Running, Cleanup, Checked, FullyOverridden, DeclarationAccepted,
     Swept, Answered, Copying, Own, Leftovers
<1>5. Tidy(d)'
  BY <1>0, <1>2 DEF DrillInv, Tidy, Named, Cleaned, Directory, Watched, Unstarted, Starting, Started, Dropped,
     Copying, Answered, Running, Own
<1> QED BY <1>4, <1>5

LEMMA CreateRoleKeeps ==
    ASSUME DrillsInv, NEW d \in Drills, CreateRole(d)
    PROVE  Truthful(d)' /\ Tidy(d)'
<1>0. dr \in [Drills -> Drilling] /\ dr[d] \in Drilling /\ DrillInv(d) /\ Sets
      /\ inst \in [Drills -> {"none", "starting", "up"}]
  BY DEF DrillsInv, Typed
<1>1. \/ roles' = roles \cup dr[d].at /\ dr'[d] = [dr[d] EXCEPT !.pc = "createdb", !.scratch = @ \cup dr[d].at]
      \/ roles' \subseteq roles \cup dr[d].at /\ Fail(d, "error")
  BY <1>0 DEF CreateRole, At, WithRole
<1>2. /\ dr[d].pc = "role" /\ dr[d].failure = "-"
      /\ \/ /\ dr'[d].pc = "createdb" /\ SameFailure(d)
            /\ dr'[d].scratch = dr[d].scratch \cup dr[d].at /\ roles' = roles \cup dr[d].at
         \/ /\ dr'[d].pc = "stop" /\ dr'[d].failure = "error"
            /\ roles' \subseteq roles \cup dr[d].at /\ dr'[d].scratch = dr[d].scratch
      /\ SameWork(d) /\ dr'[d].undropped = dr[d].undropped /\ SameDir(d) /\ SameEnd(d) /\ SameAnswers(d)
      /\ SameWorld /\ dbs' = dbs /\ dirs' = dirs /\ inst' = inst
  BY <1>0, <1>1, FailEffect, GotoEffect DEF CreateRole, At, Failures, DrillInv, Answered, Running, Drilling
<1>3. Truthful(d)'
  BY <1>0, <1>2 DEF DrillInv, Truthful, Locked, Busy, Running, Cleanup, Checked, FullyOverridden, DeclarationAccepted,
     Swept, Answered, Copying, Own, Leftovers
<1>4. Tidy(d)'
  BY <1>0, <1>2 DEF DrillInv, Tidy, Named, Cleaned, Directory, Watched, Unstarted, Starting, Started, Dropped,
     Copying, Answered, Running, Own
<1> QED BY <1>3, <1>4

LEMMA CreateDatabaseKeeps ==
    ASSUME DrillsInv, NEW d \in Drills, CreateDatabase(d)
    PROVE  Truthful(d)' /\ Tidy(d)'
<1>0. dr \in [Drills -> Drilling] /\ dr[d] \in Drilling /\ DrillInv(d) /\ Sets
      /\ inst \in [Drills -> {"none", "starting", "up"}]
  BY DEF DrillsInv, Typed
<1>1. /\ dr[d].pc = "createdb"
      /\ \/ dr'[d].pc = "pgrestore" /\ SameFailure(d) /\ dbs' = dbs \cup dr[d].at
         \/ dr'[d].pc = "stop" /\ dr'[d].failure # "-" /\ dbs' \subseteq dbs \cup dr[d].at
      /\ SameWork(d) /\ SameNames(d) /\ SameDir(d) /\ SameEnd(d) /\ SameAnswers(d)
      /\ SameWorld /\ roles' = roles /\ dirs' = dirs /\ inst' = inst
  BY <1>0, FailEffect, GotoEffect DEF CreateDatabase, At, WithDatabase, Failures, Drilling
<1>2. Truthful(d)'
  BY <1>0, <1>1 DEF DrillInv, Truthful, Locked, Busy, Running, Cleanup, Checked, FullyOverridden, DeclarationAccepted,
     Swept, Answered, Copying, Own, Leftovers
<1>3. Tidy(d)'
  BY <1>0, <1>1 DEF DrillInv, Tidy, Named, Cleaned, Directory, Watched, Unstarted, Starting, Started, Dropped,
     Copying, Answered, Running, Own
<1> QED BY <1>2, <1>3

LEMMA PgRestoreKeeps ==
    ASSUME DrillsInv, NEW d \in Drills, PgRestore(d)
    PROVE  Truthful(d)' /\ Tidy(d)'
<1>0. dr \in [Drills -> Drilling] /\ dr[d] \in Drilling /\ DrillInv(d) /\ Sets
      /\ inst \in [Drills -> {"none", "starting", "up"}]
  BY DEF DrillsInv, Typed
<1>1. /\ dr[d].pc = "pgrestore"
      /\ \/ dr'[d].pc = "copy" /\ SameFailure(d)
         \/ dr'[d].pc = "stop" /\ dr'[d].failure # "-"
      /\ SameWork(d) /\ SameNames(d) /\ SameDir(d) /\ SameEnd(d) /\ SameAnswers(d)
      /\ SameWorld /\ SameScratch /\ dirs' = dirs /\ inst' = inst
  BY <1>0, FailEffect, GotoEffect DEF PgRestore, At, Failures, Drilling
<1>2. Truthful(d)'
  BY <1>0, <1>1 DEF DrillInv, Truthful, Locked, Busy, Running, Cleanup, Checked, FullyOverridden, DeclarationAccepted,
     Swept, Answered, Copying, Own, Leftovers
<1>3. Tidy(d)'
  BY <1>0, <1>1 DEF DrillInv, Tidy, Named, Cleaned, Directory, Watched, Unstarted, Starting, Started, Dropped,
     Copying, Answered, Running, Own
<1> QED BY <1>2, <1>3

LEMMA ObjectsKeeps ==
    ASSUME DrillsInv, NEW d \in Drills, Objects(d)
    PROVE  Truthful(d)' /\ Tidy(d)'
<1>0. dr \in [Drills -> Drilling] /\ dr[d] \in Drilling /\ DrillInv(d) /\ Sets
      /\ inst \in [Drills -> {"none", "starting", "up"}]
  BY DEF DrillsInv, Typed
<1>1. /\ dr[d].pc = "objects"
      /\ \/ dr'[d].pc = "counts" /\ SameFailure(d)
         \/ dr'[d].pc = "stop" /\ dr'[d].failure # "-"
      /\ SameNames(d) /\ SameDir(d) /\ SameEnd(d) /\ SameAnswers(d)
      /\ SameWorld /\ SameScratch /\ dirs' = dirs /\ inst' = inst
  BY <1>0, FailEffect, GotoEffect DEF Objects, At, Failures, Drilling
<1>2. Truthful(d)'
  BY <1>0, <1>1 DEF DrillInv, Truthful, Locked, Busy, Running, Cleanup, Checked, FullyOverridden, DeclarationAccepted,
     Swept, Answered, Copying, Own, Leftovers
<1>3. Tidy(d)'
  BY <1>0, <1>1 DEF DrillInv, Tidy, Named, Cleaned, Directory, Watched, Unstarted, Starting, Started, Dropped,
     Copying, Answered, Running, Own
<1> QED BY <1>2, <1>3

LEMMA RestoredCountsKeeps ==
    ASSUME DrillsInv, NEW d \in Drills, RestoredCounts(d)
    PROVE  Truthful(d)' /\ Tidy(d)'
<1>0. dr \in [Drills -> Drilling] /\ dr[d] \in Drilling /\ DrillInv(d) /\ Sets
      /\ inst \in [Drills -> {"none", "starting", "up"}]
  BY DEF DrillsInv, Typed
<1>1. /\ dr[d].pc = "counts"
      /\ \/ dr'[d].pc = "start" /\ SameFailure(d)
         \/ dr'[d].pc = "stop" /\ dr'[d].failure # "-"
      /\ SameNames(d) /\ SameDir(d) /\ SameEnd(d) /\ SameAnswers(d)
      /\ SameWorld /\ SameScratch /\ dirs' = dirs /\ inst' = inst
  BY <1>0, FailEffect, GotoEffect DEF RestoredCounts, At, Failures, Drilling
<1>2. Truthful(d)'
  BY <1>0, <1>1 DEF DrillInv, Truthful, Locked, Busy, Running, Cleanup, Checked, FullyOverridden, DeclarationAccepted,
     Swept, Answered, Copying, Own, Leftovers
<1>3. Tidy(d)'
  BY <1>0, <1>1 DEF DrillInv, Tidy, Named, Cleaned, Directory, Watched, Unstarted, Starting, Started, Dropped,
     Copying, Answered, Running, Own
<1> QED BY <1>2, <1>3

LEMMA StartInstanceKeeps ==
    ASSUME DrillsInv, NEW d \in Drills, StartInstance(d)
    PROVE  Truthful(d)' /\ Tidy(d)'
<1>0. dr \in [Drills -> Drilling] /\ dr[d] \in Drilling /\ DrillInv(d) /\ Sets
      /\ inst \in [Drills -> {"none", "starting", "up"}]
  BY DEF DrillsInv, Typed
<1>1. Goto(d, "show") \/ (Fail(d, "start") /\ inst' = inst)
  BY <1>0 DEF StartInstance, At
<1>2. /\ dr[d].pc = "start"
      /\ \/ dr'[d].pc = "show" /\ SameFailure(d)
         \/ dr'[d].pc = "stop" /\ dr'[d].failure # "-" /\ inst' = inst
      /\ SameNames(d) /\ SameDir(d) /\ SameEnd(d) /\ SameAnswers(d)
      /\ SameWorld /\ SameScratch /\ dirs' = dirs
  BY <1>0, <1>1, FailEffect, GotoEffect DEF StartInstance, At, Failures, Drilling
<1>3. Truthful(d)'
  BY <1>0, <1>2 DEF DrillInv, Truthful, Locked, Busy, Running, Cleanup, Checked, FullyOverridden, DeclarationAccepted,
     Swept, Answered, Copying, Own, Leftovers
<1>4. Tidy(d)'
  BY <1>0, <1>2 DEF DrillInv, Tidy, Named, Cleaned, Directory, Watched, Unstarted, Starting, Started, Dropped,
     Copying, Answered, Running, Own
<1> QED BY <1>3, <1>4

LEMMA ShowPidKeeps ==
    ASSUME DrillsInv, NEW d \in Drills, ShowPid(d)
    PROVE  Truthful(d)' /\ Tidy(d)'
<1>0. dr \in [Drills -> Drilling] /\ dr[d] \in Drilling /\ DrillInv(d) /\ Sets
      /\ inst \in [Drills -> {"none", "starting", "up"}]
  BY DEF DrillsInv, Typed
<1>1. dr'[d] = [dr[d] EXCEPT !.pid = TRUE, !.pc = "ready"] \/ Fail(d, "start")
  BY <1>0 DEF ShowPid, At
<1>2. /\ dr[d].pc = "show" /\ dr[d].failure = "-"
      /\ \/ dr'[d].pc = "ready" /\ SameFailure(d) /\ dr'[d].pid
         \/ dr'[d].pc = "stop" /\ dr'[d].failure = "start"
      /\ SameNames(d) /\ SameDir(d) /\ dr'[d].stop = dr[d].stop /\ SameAnswers(d)
      /\ SameWorld /\ SameScratch /\ dirs' = dirs /\ inst' = inst
  BY <1>0, <1>1, FailEffect, GotoEffect DEF ShowPid, At, Failures, DrillInv, Answered, Running, Drilling
<1>3. Truthful(d)'
  BY <1>0, <1>2 DEF DrillInv, Truthful, Locked, Busy, Running, Cleanup, Checked, FullyOverridden, DeclarationAccepted,
     Swept, Answered, Copying, Own, Leftovers
<1>4. Tidy(d)'
  BY <1>0, <1>2 DEF DrillInv, Tidy, Named, Cleaned, Directory, Watched, Unstarted, Starting, Started, Dropped,
     Copying, Answered, Running, Own
<1> QED BY <1>3, <1>4

LEMMA ReadyKeeps ==
    ASSUME DrillsInv, NEW d \in Drills, Ready(d)
    PROVE  Truthful(d)' /\ Tidy(d)'
<1>0. dr \in [Drills -> Drilling] /\ dr[d] \in Drilling /\ DrillInv(d) /\ Sets
      /\ inst \in [Drills -> {"none", "starting", "up"}]
  BY DEF DrillsInv, Typed
<1>1. \/ Goto(d, "compare")
      \/ inst[d] = "none" /\ dr'[d] = Failed([dr[d] EXCEPT !.pid = FALSE], "ready")
      \/ Fail(d, "ready")
  BY <1>0 DEF Ready, At
<1>2. /\ dr[d].pc = "ready"
      /\ \/ dr'[d].pc = "compare" /\ SameFailure(d) /\ SameEnd(d)
         \/ dr'[d].pc = "stop" /\ dr'[d].failure # "-" /\ (inst[d] = "none" \/ SameEnd(d))
      /\ SameNames(d) /\ SameDir(d) /\ dr'[d].stop = dr[d].stop /\ SameAnswers(d)
      /\ SameWorld /\ SameScratch /\ dirs' = dirs /\ inst' = inst
  <2>1. dr[d].pc = "ready" /\ SameWorld /\ SameScratch /\ dirs' = dirs /\ inst' = inst
    BY DEF Ready, At
  <2>2. CASE Goto(d, "compare")
    BY <1>0, <2>1, <2>2, GotoEffect
  <2>3. CASE Fail(d, "ready")
    BY <1>0, <2>1, <2>3, FailEffect DEF Failures
  <2>4. CASE inst[d] = "none" /\ dr'[d] = Failed([dr[d] EXCEPT !.pid = FALSE], "ready")
    <3>1. [dr[d] EXCEPT !.pid = FALSE] \in Drilling
      BY <1>0 DEF Drilling
    <3>2. dr'[d].pc = "stop" /\ dr'[d].failure # "-"
          /\ SameNames(d) /\ SameDir(d) /\ dr'[d].stop = dr[d].stop /\ SameAnswers(d)
      BY <1>0, <2>4, <3>1, FailedFields DEF Drilling, Failures
    <3> QED BY <2>1, <2>4, <3>2
  <2> QED BY <1>1, <2>2, <2>3, <2>4
<1>3. Truthful(d)'
  BY <1>0, <1>2 DEF DrillInv, Truthful, Locked, Busy, Running, Cleanup, Checked, FullyOverridden, DeclarationAccepted,
     Swept, Answered, Copying, Own, Leftovers
<1>4. Tidy(d)'
  BY <1>0, <1>2 DEF DrillInv, Tidy, Named, Cleaned, Directory, Watched, Unstarted, Starting, Started, Dropped,
     Copying, Answered, Running, Own
<1> QED BY <1>3, <1>4

LEMMA CompareKeeps ==
    ASSUME DrillsInv, NEW d \in Drills, Compare(d)
    PROVE  Truthful(d)' /\ Tidy(d)'
<1>0. dr \in [Drills -> Drilling] /\ dr[d] \in Drilling /\ DrillInv(d) /\ Sets
      /\ inst \in [Drills -> {"none", "starting", "up"}]
  BY DEF DrillsInv, Typed
<1>1. Answering = {} \/ Answering = {d}
  BY <1>0, AnswersOwn DEF Compare, At, DrillInv, Swept, Running
<1>2. dr'[d] = [dr[d] EXCEPT !.by = {d}, !.pc = "acceptance"] \/ Fail(d, "compare")
  BY <1>0, <1>1 DEF Compare, At
<1>3. /\ dr[d].pc = "compare"
      /\ \/ dr'[d].pc = "acceptance" /\ SameFailure(d) /\ dr'[d].by = {d}
         \/ dr'[d].pc = "stop" /\ dr'[d].failure # "-" /\ SameAnswers(d)
      /\ SameNames(d) /\ SameDir(d) /\ SameEnd(d) /\ dr'[d].result = dr[d].result
      /\ SameWorld /\ SameScratch /\ dirs' = dirs /\ inst' = inst
  BY <1>0, <1>2, FailEffect, GotoEffect DEF Compare, At, Failures, Drilling
<1>4. Truthful(d)'
  BY <1>0, <1>3 DEF DrillInv, Truthful, Locked, Busy, Running, Cleanup, Checked, FullyOverridden, DeclarationAccepted,
     Swept, Answered, Copying, Own, Leftovers
<1>5. Tidy(d)'
  BY <1>0, <1>3 DEF DrillInv, Tidy, Named, Cleaned, Directory, Watched, Unstarted, Starting, Started, Dropped,
     Copying, Answered, Running, Own
<1> QED BY <1>4, <1>5

LEMMA AcceptanceKeeps ==
    ASSUME DrillsInv, NEW d \in Drills, Acceptance(d)
    PROVE  Truthful(d)' /\ Tidy(d)'
<1>0. dr \in [Drills -> Drilling] /\ dr[d] \in Drilling /\ DrillInv(d) /\ Sets
      /\ inst \in [Drills -> {"none", "starting", "up"}]
  BY DEF DrillsInv, Typed
<1>1. Answering = {} \/ Answering = {d}
  BY <1>0, AnswersOwn DEF Acceptance, At, DrillInv, Swept, Running
<1>2. dr'[d] = [dr[d] EXCEPT !.by = {d}, !.pc = "stop"] \/ Fail(d, "acceptance")
  <2>1. dr[d].by = {d}
    BY <1>0 DEF Acceptance, At, DrillInv, Answered
  <2>2. dr[d].by \cup Answering = {d} \/ Answering = {}
    BY <1>1, <2>1
  <2>3. \/ dr' = [dr EXCEPT ![d] = [dr[d] EXCEPT !.by = dr[d].by \cup Answering, !.pc = "stop"]] /\ Answering # {}
        \/ Fail(d, "acceptance")
    BY <1>0 DEF Acceptance
  <2> QED BY <1>0, <2>2, <2>3
<1>3. /\ dr[d].pc = "acceptance"
      /\ dr'[d].pc = "stop"
      /\ \/ SameFailure(d) /\ dr'[d].by = {d}
         \/ dr'[d].failure # "-" /\ SameAnswers(d)
      /\ SameNames(d) /\ SameDir(d) /\ SameEnd(d) /\ dr'[d].result = dr[d].result
      /\ SameWorld /\ SameScratch /\ dirs' = dirs /\ inst' = inst
  BY <1>0, <1>2, FailEffect, GotoEffect DEF Acceptance, At, Failures, Drilling
<1>4. Truthful(d)'
  BY <1>0, <1>3 DEF DrillInv, Truthful, Locked, Busy, Running, Cleanup, Checked, FullyOverridden, DeclarationAccepted,
     Swept, Answered, Copying, Own, Leftovers
<1>5. Tidy(d)'
  BY <1>0, <1>3 DEF DrillInv, Tidy, Named, Cleaned, Directory, Watched, Unstarted, Starting, Started, Dropped,
     Copying, Answered, Running, Own
<1> QED BY <1>4, <1>5

LEMMA StopKeeps ==
    ASSUME DrillsInv, NEW d \in Drills, Stop(d)
    PROVE  Truthful(d)' /\ Tidy(d)'
<1>0. dr \in [Drills -> Drilling] /\ dr[d] \in Drilling /\ DrillInv(d) /\ Sets
      /\ inst \in [Drills -> {"none", "starting", "up"}]
  BY DEF DrillsInv, Typed
<1>1. \E s \in {"-", "ok", "failed"} :
          /\ dr'[d] = [dr[d] EXCEPT !.stop = s, !.pc = "drop", !.todo = dr[d].scratch]
          /\ (~dr[d].pid /\ inst' = inst) \/ inst'[d] = "none" \/ s = "failed"
  BY <1>0 DEF Stop, At, Cleaning, Stopped
<1>2. /\ dr[d].pc = "stop" /\ dr'[d].pc = "drop" /\ dr'[d].todo = dr[d].scratch
      /\ \/ ~dr[d].pid /\ inst' = inst
         \/ inst'[d] = "none"
         \/ dr'[d].stop = "failed"
      /\ SameFailure(d) /\ SameNames(d) /\ SameDir(d) /\ SameAnswers(d)
      /\ SameWorld /\ SameScratch /\ dirs' = dirs
  BY <1>0, <1>1, FailEffect, GotoEffect DEF Stop, At, Failures, Drilling
<1>3. Truthful(d)'
  BY <1>0, <1>2 DEF DrillInv, Truthful, Locked, Busy, Running, Cleanup, Checked, FullyOverridden, DeclarationAccepted,
     Swept, Answered, Copying, Own, Leftovers
<1>4. Tidy(d)'
  BY <1>0, <1>2 DEF DrillInv, Tidy, Named, Cleaned, Directory, Watched, Unstarted, Starting, Started, Dropped,
     Copying, Answered, Running, Own
<1> QED BY <1>3, <1>4

LEMMA DropKeeps ==
    ASSUME DrillsInv, NEW d \in Drills, Drop(d)
    PROVE  Truthful(d)' /\ Tidy(d)'
<1>0. dr \in [Drills -> Drilling] /\ dr[d] \in Drilling /\ DrillInv(d) /\ Sets
      /\ inst \in [Drills -> {"none", "starting", "up"}]
  BY DEF DrillsInv, Typed
<1>1. \/ Goto(d, "remove") /\ dr[d].todo = {} /\ SameScratch
      \/ \E x \in dr[d].todo :
           \/ /\ dbs' = dbs \ {x} /\ roles' = roles
              /\ dr'[d] = [dr[d] EXCEPT !.pc = "drop role", !.at = {x}]
           \/ SameScratch /\ dr'[d] = [dr[d] EXCEPT !.pc = "drop role", !.at = {x}, !.undropped = @ \cup {x}]
  BY <1>0 DEF Drop, At, DropDatabase
<1>2. /\ dr[d].pc = "drop"
      /\ \/ dr'[d].pc = "remove" /\ dr[d].todo = {} /\ SameScratch /\ SameNames(d)
         \/ /\ dr'[d].pc = "drop role"
            /\ \E x \in dr[d].todo :
                  /\ dr'[d].at = {x} /\ roles' = roles
                  /\ \/ dbs' = dbs \ {x} /\ dr'[d].undropped = dr[d].undropped
                     \/ dbs' = dbs /\ dr'[d].undropped = dr[d].undropped \cup {x}
      /\ SameFailure(d) /\ SameDir(d) /\ SameEnd(d) /\ SameAnswers(d)
      /\ dr'[d].scratch = dr[d].scratch /\ dr'[d].todo = dr[d].todo
      /\ SameWorld /\ dirs' = dirs /\ inst' = inst
  <2>1. dr[d].pc = "drop" /\ SameWorld /\ dirs' = dirs /\ inst' = inst
    BY DEF Drop, At
  <2>2. CASE Goto(d, "remove") /\ dr[d].todo = {} /\ SameScratch
    BY <1>0, <2>1, <2>2, GotoEffect
  <2>3. ASSUME NEW x \in dr[d].todo, dbs' = dbs \ {x} /\ roles' = roles,
               dr'[d] = [dr[d] EXCEPT !.pc = "drop role", !.at = {x}]
        PROVE  /\ dr'[d].pc = "drop role" /\ dr'[d].at = {x} /\ dr'[d].undropped = dr[d].undropped
               /\ SameFailure(d) /\ SameDir(d) /\ SameEnd(d) /\ SameAnswers(d)
               /\ dr'[d].scratch = dr[d].scratch /\ dr'[d].todo = dr[d].todo
    BY <1>0, <2>3 DEF Drilling
  <2>4. ASSUME NEW x \in dr[d].todo, SameScratch,
               dr'[d] = [dr[d] EXCEPT !.pc = "drop role", !.at = {x}, !.undropped = @ \cup {x}]
        PROVE  /\ dr'[d].pc = "drop role" /\ dr'[d].at = {x} /\ dr'[d].undropped = dr[d].undropped \cup {x}
               /\ SameFailure(d) /\ SameDir(d) /\ SameEnd(d) /\ SameAnswers(d)
               /\ dr'[d].scratch = dr[d].scratch /\ dr'[d].todo = dr[d].todo
    BY <1>0, <2>4 DEF Drilling
  <2> QED BY <1>1, <2>1, <2>2, <2>3, <2>4
<1>3. Truthful(d)'
  BY <1>0, <1>2 DEF DrillInv, Truthful, Locked, Busy, Running, Cleanup, Checked, FullyOverridden, DeclarationAccepted,
     Swept, Answered, Copying, Own, Leftovers
<1>4. Tidy(d)'
  BY <1>0, <1>2 DEF DrillInv, Tidy, Named, Cleaned, Directory, Watched, Unstarted, Starting, Started, Dropped,
     Copying, Answered, Running, Own
<1> QED BY <1>3, <1>4

LEMMA DropTheRoleKeeps ==
    ASSUME DrillsInv, NEW d \in Drills, DropTheRole(d)
    PROVE  Truthful(d)' /\ Tidy(d)'
<1>0. dr \in [Drills -> Drilling] /\ dr[d] \in Drilling /\ DrillInv(d) /\ Sets
      /\ inst \in [Drills -> {"none", "starting", "up"}]
  BY DEF DrillsInv, Typed
<1>1. LET tried == [dr[d] EXCEPT !.pc = "drop", !.todo = @ \ dr[d].at]
      IN  \/ roles' = roles \ dr[d].at /\ dr'[d] = tried
          \/ roles' = roles /\ dr'[d] = [tried EXCEPT !.undropped = @ \cup dr[d].at]
  BY <1>0 DEF DropTheRole, At
<1>2. /\ dr[d].pc = "drop role" /\ dr'[d].pc = "drop" /\ dr'[d].todo = dr[d].todo \ dr[d].at
      /\ \/ roles' = roles \ dr[d].at /\ dr'[d].undropped = dr[d].undropped
         \/ roles' = roles /\ dr'[d].undropped = dr[d].undropped \cup dr[d].at
      /\ SameFailure(d) /\ SameDir(d) /\ SameEnd(d) /\ SameAnswers(d)
      /\ dr'[d].scratch = dr[d].scratch
      /\ SameWorld /\ dbs' = dbs /\ dirs' = dirs /\ inst' = inst
  <2>1. dr[d].pc = "drop role" /\ SameWorld /\ dbs' = dbs /\ dirs' = dirs /\ inst' = inst
    BY DEF DropTheRole, At
  <2> DEFINE tried == [dr[d] EXCEPT !.pc = "drop", !.todo = @ \ dr[d].at]
             failed == [tried EXCEPT !.undropped = @ \cup dr[d].at]
  <2>2. /\ tried \in [pc : {"drop"}, todo : {dr[d].todo \ dr[d].at}, at : {dr[d].at}, scratch : {dr[d].scratch},
                      kept : {dr[d].kept}, pid : {dr[d].pid}, created : {dr[d].created}, failure : {dr[d].failure},
                      stop : {dr[d].stop}, undropped : {dr[d].undropped}, result : {dr[d].result},
                      by : {dr[d].by}, keep : {dr[d].keep}]
    BY <1>0 DEF Drilling
  <2> HIDE DEF tried
  <2>3. /\ failed.pc = "drop" /\ failed.todo = dr[d].todo \ dr[d].at
        /\ failed.undropped = dr[d].undropped \cup dr[d].at /\ failed.failure = dr[d].failure
        /\ failed.created = dr[d].created /\ failed.kept = dr[d].kept /\ failed.stop = dr[d].stop
        /\ failed.pid = dr[d].pid /\ failed.by = dr[d].by /\ failed.result = dr[d].result
        /\ failed.scratch = dr[d].scratch
    BY <2>2
  <2>4. \/ roles' = roles \ dr[d].at /\ dr'[d] = tried
        \/ roles' = roles /\ dr'[d] = failed
    BY <1>1 DEF tried
  <2> HIDE DEF failed
  <2> QED BY <2>1, <2>2, <2>3, <2>4
<1>3. Truthful(d)'
  BY <1>0, <1>2 DEF DrillInv, Truthful, Locked, Busy, Running, Cleanup, Checked, FullyOverridden, DeclarationAccepted,
     Swept, Answered, Copying, Own, Leftovers
<1>4. Tidy(d)'
  BY <1>0, <1>2 DEF DrillInv, Tidy, Named, Cleaned, Directory, Watched, Unstarted, Starting, Started, Dropped,
     Copying, Answered, Running, Own
<1> QED BY <1>3, <1>4

LEMMA RemoveKeeps ==
    ASSUME DrillsInv, NEW d \in Drills, RemoveDirectory(d)
    PROVE  Truthful(d)' /\ Tidy(d)'
<1>0. dr \in [Drills -> Drilling] /\ dr[d] \in Drilling /\ DrillInv(d) /\ Sets
      /\ inst \in [Drills -> {"none", "starting", "up"}]
  BY DEF DrillsInv, Typed
<1> DEFINE f == IF dr[d].stop = "failed" /\ dr[d].failure = "-" THEN "stop" ELSE dr[d].failure
           r == [dr[d] EXCEPT !.failure = f, !.pc = "record"]
<1>a. /\ r.created = dr[d].created /\ r.pc = "record" /\ r.failure = f /\ r.scratch = dr[d].scratch
      /\ r.undropped = dr[d].undropped /\ r.stop = dr[d].stop /\ r.pid = dr[d].pid /\ r.by = dr[d].by
      /\ r.result = dr[d].result /\ r.kept = dr[d].kept
  BY <1>0 DEF Drilling
<1>b. LET k == [r EXCEPT !.kept = TRUE]
      IN  /\ k.created = dr[d].created /\ k.pc = "record" /\ k.failure = f /\ k.scratch = dr[d].scratch
          /\ k.undropped = dr[d].undropped /\ k.stop = dr[d].stop /\ k.pid = dr[d].pid /\ k.by = dr[d].by
          /\ k.result = dr[d].result /\ k.kept
  <2>1. r \in Drilling
    BY <1>0, NamesTyped DEF Drilling
  <2> HIDE DEF r
  <2> QED BY <1>a, <2>1 DEF Drilling
<1>1. \/ dr' = [dr EXCEPT ![d] = r] /\ ((~r.created /\ dirs' = dirs) \/ dirs' = dirs \ {d})
      \/ dr' = [dr EXCEPT ![d] = [r EXCEPT !.kept = TRUE]] /\ dirs' = dirs
  BY DEF RemoveDirectory
<1>2. /\ dr[d].pc = "remove" /\ dr'[d].pc = "record"
      /\ SameFailure(d) \/ (dr[d].failure = "-" /\ dr'[d].failure = "stop")
      /\ d \in dirs' => d \in dirs /\ (dr[d].created => dr'[d].kept)
      /\ dr'[d].created = dr[d].created /\ SameNames(d) /\ SameEnd(d) /\ SameAnswers(d)
      /\ SameWorld /\ SameScratch /\ inst' = inst
  <2>1. dr[d].pc = "remove" /\ SameWorld /\ SameScratch /\ inst' = inst
    BY DEF RemoveDirectory, At
  <2> HIDE DEF r
  <2>2. \/ dr'[d] = r /\ ((~r.created /\ dirs' = dirs) \/ dirs' = dirs \ {d})
        \/ dr'[d] = [r EXCEPT !.kept = TRUE] /\ dirs' = dirs
    BY <1>0, <1>1
  <2> QED BY <1>a, <1>b, <2>1, <2>2
<1>3. Truthful(d)'
  BY <1>0, <1>2 DEF DrillInv, Truthful, Locked, Busy, Running, Cleanup, Checked, FullyOverridden, DeclarationAccepted,
     Swept, Answered, Copying, Own, Leftovers
<1>4. Tidy(d)'
  BY <1>0, <1>2 DEF DrillInv, Tidy, Named, Cleaned, Directory, Watched, Unstarted, Starting, Started, Dropped,
     Copying, Answered, Running, Own
<1> QED BY <1>3, <1>4

LEMMA RecordKeeps ==
    ASSUME DrillsInv, NEW d \in Drills, Record(d)
    PROVE  Truthful(d)' /\ Tidy(d)'
<1>0. dr \in [Drills -> Drilling] /\ dr[d] \in Drilling /\ DrillInv(d) /\ Sets
      /\ inst \in [Drills -> {"none", "starting", "up"}]
  BY DEF DrillsInv, Typed
<1>1. /\ dr[d].pc = "record" /\ dr'[d].pc = "done"
      /\ (dr'[d].result = "passed" => dr[d].failure = "-") /\ dr'[d].by = dr[d].by
      /\ SameFailure(d) /\ SameNames(d) /\ SameDir(d) /\ SameEnd(d)
      /\ decl' = decl /\ SameScratch /\ dirs' = dirs /\ inst' = inst
  BY <1>0, FailEffect, GotoEffect DEF Record, At, Failures, Drilling
<1>2. Truthful(d)'
  BY <1>0, <1>1 DEF DrillInv, Truthful, Locked, Busy, Running, Cleanup, Checked, FullyOverridden, DeclarationAccepted,
     Swept, Answered, Copying, Own, Leftovers
<1>3. Tidy(d)'
  BY <1>0, <1>1 DEF DrillInv, Tidy, Named, Cleaned, Directory, Watched, Unstarted, Starting, Started, Dropped,
     Copying, Answered, Running, Own
<1> QED BY <1>2, <1>3

LEMMA KillKeeps ==
    ASSUME DrillsInv, NEW d \in Drills, Kill(d)
    PROVE  Truthful(d)' /\ Tidy(d)'
<1>0. dr \in [Drills -> Drilling] /\ dr[d] \in Drilling /\ DrillInv(d) /\ Sets
      /\ inst \in [Drills -> {"none", "starting", "up"}]
  BY DEF DrillsInv, Typed
<1>1. /\ dr'[d].pc = "dead" /\ dr[d].pc \notin {"idle", "refused", "done"}
      /\ SameFailure(d) /\ SameNames(d) /\ SameDir(d) /\ SameEnd(d) /\ SameAnswers(d)
      /\ SameWorld /\ SameScratch /\ dirs' = dirs /\ inst' = inst
  BY <1>0, FailEffect, GotoEffect DEF Kill, At, Ended, Failures, Drilling
<1>2. Truthful(d)'
  BY <1>0, <1>1 DEF DrillInv, Truthful, Locked, Busy, Running, Cleanup, Checked, FullyOverridden, DeclarationAccepted,
     Swept, Answered, Copying, Own, Leftovers
<1>3. Tidy(d)'
  BY <1>0, <1>1 DEF DrillInv, Tidy, Named, Cleaned, Directory, Watched, Unstarted, Starting, Started, Dropped,
     Copying, Answered, Running, Own
<1> QED BY <1>2, <1>3

HIDE DEF SameNames, SameDir, SameEnd, SameAnswers, SameWork, SameFailure, SameWorld, SameScratch,
         worldVars, clusterVars, instVars

\* The instance may begin to listen, or end, at any time.
LEMMA InstanceKeeps ==
    ASSUME DrillsInv, NEW d \in Drills, InstanceListens(d) \/ InstanceEnds(d)
    PROVE  DrillInv(d)'
<1>1. /\ decl' = decl /\ dr' = dr /\ dirs' = dirs /\ lock' = lock /\ dbs' = dbs /\ roles' = roles
      /\ inst[d] # "none"
  BY DEF InstanceListens, InstanceEnds, worldVars, clusterVars
<1>2. Locked(d) /\ Checked(d) /\ Swept(d) /\ Answered(d) /\ Copying(d) /\ Named(d) /\ Cleaned(d)
      /\ Directory(d) /\ Watched(d)
  BY DEF DrillsInv, DrillInv
<1>3. Locked(d)' /\ Checked(d)' /\ Swept(d)' /\ Answered(d)' /\ Copying(d)'
  BY <1>1, <1>2 DEF Locked, Busy, Checked, FullyOverridden, DeclarationAccepted, Swept, Answered, Copying
<1>4. Named(d)' /\ Cleaned(d)' /\ Directory(d)' /\ Watched(d)'
  BY <1>1, <1>2 DEF Named, Cleaned, Directory, Watched
<1> QED BY <1>3, <1>4 DEF DrillInv

\* An instance is started with every name overridden: the refusals saw to it.
LEMMA IsolatedStep ==
    ASSUME DrillsInv, NEW d \in Drills, Mine(d)
    PROVE  InstanceIsolated'
<1> SUFFICES ASSUME NEW e \in Drills, inst'[e] # "none"
             PROVE  env'[e] = {}
  BY DEF InstanceIsolated
<1>0. /\ inst \in [Drills -> {"none", "starting", "up"}] /\ env \in [Drills -> SUBSET Addresses]
      /\ inst[e] # "none" => env[e] = {}
  BY DEF DrillsInv, Typed, InstanceIsolated
<1>1. CASE StartInstance(d)
  <2>1. FullyOverridden
    BY <1>1 DEF DrillsInv, DrillInv, Checked, StartInstance, At
  <2>2. Addresses \ Overridden = {}
    BY <2>1 DEF FullyOverridden, Addresses, Overridden
  <2> QED BY <1>0, <1>1, <2>2 DEF StartInstance, instVars
<1>2. CASE Stop(d) \/ Own5(d)
  BY <1>0, <1>2 DEF Stop, Own5, Kill, InstanceListens, InstanceEnds, Stopped, instVars
<1>3. CASE Own1(d) \/ Own2(d)
  BY <1>0, <1>3 DEF Own1, Precheck, Acquire, Space, Sweep, Prepare, Own2, Copy, CreateRole, CreateDatabase,
     PgRestore, Objects, RestoredCounts, instVars
<1>4. CASE ShowPid(d) \/ Ready(d) \/ Compare(d) \/ Acceptance(d) \/ Drop(d) \/ DropTheRole(d) \/ RemoveDirectory(d) \/ Record(d)
  BY <1>0, <1>4 DEF ShowPid, Ready, Compare, Acceptance, Drop, DropTheRole, RemoveDirectory, Record, instVars
<1> QED BY <1>1, <1>2, <1>3, <1>4 DEF Mine, Own3, Own4

-----------------------------------------------------------------------------
(***************************************************************************)
(* The invariant                                                           *)
(***************************************************************************)
LEMMA IInvInit == DrillInit => DrillsInv
<1> SUFFICES ASSUME DrillInit PROVE DrillsInv
  OBVIOUS
<1>1. Fresh \in Drilling
  BY DEF Fresh, Drilling, Stages, Ended, Failures
<1>2. Typed /\ InstanceIsolated /\ Sets
  BY <1>1 DEF DrillInit, Typed, InstanceIsolated, Sets
<1>3. ASSUME NEW d \in Drills
      PROVE  DrillInv(d)
  <2>1. /\ dr[d].pc = "idle" /\ dr[d].failure = "-" /\ dr[d].result = "-" /\ dr[d].scratch = {}
        /\ dbs = {} /\ roles = {} /\ dirs = {} /\ inst[d] = "none"
    BY DEF DrillInit, Fresh
  <2>2. Locked(d) /\ Checked(d) /\ Swept(d) /\ Answered(d) /\ Copying(d)
    BY <2>1 DEF Locked, Busy, Running, Cleanup, Checked, Swept, Answered, Copying
  <2>3. Named(d) /\ Cleaned(d) /\ Directory(d) /\ Watched(d)
    BY <2>1 DEF Named, Cleaned, Directory, Watched, Dropped, Unstarted, Started
  <2> QED BY <2>2, <2>3 DEF DrillInv
<1> QED BY <1>2, <1>3 DEF DrillsInv

LEMMA OwnKeeps ==
    ASSUME DrillsInv, NEW d \in Drills, Mine(d)
    PROVE  DrillInv(d)'
<1>1. CASE InstanceListens(d) \/ InstanceEnds(d)
  BY <1>1, InstanceKeeps
<1>2. CASE Step(d) \/ Kill(d)
  <2>1. Truthful(d)' /\ Tidy(d)'
    BY <1>2, PrecheckKeeps, AcquireKeeps, SpaceKeeps, SweepKeeps, PrepareKeeps, CopyKeeps, CreateRoleKeeps,
       CreateDatabaseKeeps, PgRestoreKeeps, ObjectsKeeps, RestoredCountsKeeps, StartInstanceKeeps, ShowPidKeeps,
       ReadyKeeps, CompareKeeps, AcceptanceKeeps, StopKeeps, DropKeeps, DropTheRoleKeeps, RemoveKeeps,
       RecordKeeps, KillKeeps DEF Step
  <2> QED BY <2>1 DEF Truthful, Tidy, DrillInv
<1> QED BY <1>1, <1>2 DEF Mine, Own1, Own2, Own3, Own4, Own5, Step

LEMMA IInvNext == DrillsInv /\ [DrillNext]_drillVars => DrillsInv'
<1> SUFFICES ASSUME DrillsInv, [DrillNext]_drillVars PROVE DrillsInv'
  OBVIOUS
<1>1. ASSUME NEW d \in Drills, Mine(d)
      PROVE  DrillsInv'
  <2>1. Typed' /\ Sets' /\ InstanceIsolated' /\ DrillInv(d)'
    BY <1>1, TypedStep, IsolatedStep, OwnKeeps
  <2>2. ASSUME NEW e \in Drills \ {d}
        PROVE  DrillInv(e)'
    <3>1. DrillInv(e) /\ Framed(e)
      BY <1>1, FramedStep DEF DrillsInv
    <3> QED BY <3>1, FramedKeeps
  <2> QED BY <2>1, <2>2 DEF DrillsInv
<1>2. CASE Redeploy \/ PruneBackup \/ UNCHANGED drillVars
  <2>1. /\ decl' = decl /\ dbs' = dbs /\ roles' = roles /\ full' = full /\ dirs' = dirs
        /\ inst' = inst /\ env' = env /\ lock' = lock /\ dr' = dr
    BY <1>2 DEF Redeploy, PruneBackup, drillVars, worldVars, clusterVars, instVars
  <2>2. Typed' /\ Sets' /\ InstanceIsolated'
    BY <2>1 DEF DrillsInv, Typed, Sets, InstanceIsolated
  <2>3. ASSUME NEW e \in Drills
        PROVE  DrillInv(e)'
    <3>1. DrillInv(e) /\ Framed(e)
      BY <2>1 DEF DrillsInv, Framed
    <3> QED BY <3>1, FramedKeeps
  <2> QED BY <2>2, <2>3 DEF DrillsInv
<1> QED BY <1>1, <1>2 DEF DrillNext, Step, Mine, Own1, Own2, Own3, Own4, Own5

\* Every reachable state of a drill satisfies the invariant.
THEOREM Invariant == DrillSpec => []DrillsInv
BY IInvInit, IInvNext, PTL DEF DrillSpec

\* "drill.env" points every database of the service and Valkey elsewhere: whatever the
\* drill block of the inventory leaves out, an instance that runs was started by a drill
\* that had refused nothing, and has production's value for none of them.
THEOREM Isolated == DrillSpec => []InstanceIsolated
<1>1. DrillsInv => InstanceIsolated
  BY DEF DrillsInv
<1> QED BY <1>1, Invariant, PTL

\* Whatever step of a drill failed, or was killed in another one, a drill that came to its
\* end has removed its databases, roles, directory and instance, or its record says which
\* are left.
THEOREM CleanEnd == DrillSpec => []EndsClean
<1>1. DrillsInv => EndsClean
  <2> SUFFICES ASSUME DrillsInv, NEW d \in Drills, At(d, "done")
               PROVE  /\ \A x \in dbs \cap Own(d) : x \in dr[d].undropped
                      /\ \A x \in roles \cap Own(d) :
                            x \in dr[d].undropped \/ (x \notin dr[d].scratch /\ dr[d].failure = "error")
                      /\ d \in dirs => dr[d].kept
                      /\ inst[d] # "none" => dr[d].stop = "failed" \/ dr[d].failure = "start"
    BY DEF EndsClean, Own
  <2>1. dr[d].pc = "done" /\ Named(d) /\ Cleaned(d) /\ Directory(d) /\ Watched(d)
    BY DEF At, DrillsInv, DrillInv
  <2> QED BY <2>1 DEF Named, Cleaned, Directory, Watched, Dropped
<1> QED BY <1>1, Invariant, PTL

\* While a drill compares, its own databases are the only scratch databases there are: the
\* instance of a killed drill that still listens on the port has lost its own and cannot
\* answer in its place.
THEOREM OwnAnswers == DrillSpec => []PassedIsOwn
<1>1. DrillsInv => PassedIsOwn
  BY DEF DrillsInv, DrillInv, Answered, PassedIsOwn
<1> QED BY <1>1, Invariant, PTL

-----------------------------------------------------------------------------
(***************************************************************************)
(* Types                                                                   *)
(***************************************************************************)
ClusterTyped ==
    /\ decl.mapped \subseteq Dbs /\ decl.env \subseteq Addresses /\ decl.startable \in BOOLEAN
    /\ switches \in BOOLEAN /\ backup \in Backups
    /\ dirs \subseteq Drills /\ old \subseteq Drills
    /\ lock = {} \/ \E d \in Drills : lock = {d}
    /\ \A d, e \in Drills : inst[d] = "up" /\ inst[e] = "up" => d = e

LEMMA ClusterTypedStep ==
    ASSUME DrillsInv, ClusterTyped, NEW d \in Drills, Mine(d)
    PROVE  ClusterTyped'
<1> USE DEF DrillsInv, Typed, ClusterTyped, worldVars, instVars
<1>1. CASE Own1(d)
  BY <1>1 DEF Own1, Precheck, Acquire, Space, Sweep, Prepare
<1>2. CASE Own2(d)
  BY <1>2 DEF Own2, Copy, CreateRole, CreateDatabase, PgRestore, Objects, RestoredCounts
<1>3. CASE Own3(d)
  BY <1>3 DEF Own3, StartInstance, ShowPid, Ready, Compare, Acceptance
<1>4. CASE Own4(d)
  <2>1. CASE Stop(d)
    BY <2>1 DEF Stop, Stopped
  <2>2. CASE Record(d)
    BY <2>2 DEF Record
  <2>3. CASE Drop(d) \/ DropTheRole(d) \/ RemoveDirectory(d)
    BY <2>3 DEF Drop, DropTheRole, RemoveDirectory
  <2> QED BY <1>4, <2>1, <2>2, <2>3 DEF Own4
<1>5. CASE Own5(d)
  BY <1>5 DEF Own5, Kill, InstanceListens, InstanceEnds, Stopped, PortInUse, Listening
<1> QED BY <1>1, <1>2, <1>3, <1>4, <1>5 DEF Mine

\* The lock and the drill port have at most one holder, every scratch name carries the
\* stamp of a drill, and what is restored exists.
THEOREM DrillTypeCorrect == DrillSpec => []TypeOK
<1>1. DrillInit => ClusterTyped
  BY DEF DrillInit, ClusterTyped
<1>2. DrillsInv /\ ClusterTyped /\ [DrillNext]_drillVars => ClusterTyped'
  <2> SUFFICES ASSUME DrillsInv, ClusterTyped, [DrillNext]_drillVars PROVE ClusterTyped'
    OBVIOUS
  <2>1. CASE UNCHANGED drillVars
    BY <2>1 DEF ClusterTyped, drillVars, worldVars, instVars
  <2>2. CASE Redeploy \/ PruneBackup
    BY <2>2 DEF ClusterTyped, Redeploy, PruneBackup, Backups, instVars
  <2>3. ASSUME NEW d \in Drills, Mine(d)
        PROVE  ClusterTyped'
    BY <2>3, ClusterTypedStep
  <2> QED BY <2>1, <2>2, <2>3 DEF DrillNext, Step, Mine, Own1, Own2, Own3, Own4, Own5
<1>3. DrillsInv /\ ClusterTyped => TypeOK
  <2> SUFFICES ASSUME DrillsInv, ClusterTyped PROVE TypeOK
    OBVIOUS
  <2>1. Cardinality({d \in Drills : inst[d] = "up"}) <= 1
    <3>1. \/ {d \in Drills : inst[d] = "up"} = {}
          \/ \E d \in Drills : {e \in Drills : inst[e] = "up"} = {d}
      BY DEF ClusterTyped
    <3> QED BY <3>1, FS_EmptySet, FS_Singleton
  <2>2. Cardinality(lock) <= 1 /\ lock \subseteq Drills
    <3>1. lock = {} \/ \E d \in Drills : lock = {d}
      BY DEF ClusterTyped
    <3>2. Cardinality({}) = 0 /\ \A d \in Drills : Cardinality({d}) = 1
      BY FS_EmptySet, FS_Singleton
    <3>3. Cardinality(lock) \in {0, 1}
      BY <3>1, <3>2
    <3> QED BY <3>1, <3>3
  <2>3. \A d \in Drills : dr[d].pc \in Running \cup Cleanup \cup Ended \cup {"lock"}
    BY DEF DrillsInv, Typed, Drilling, Stages
  <2> QED BY <2>1, <2>2, <2>3 DEF TypeOK, ClusterTyped, DrillsInv, Typed, Sets
<1> QED BY <1>1, <1>2, <1>3, Invariant, PTL DEF DrillSpec
=============================================================================
