------------------------------- MODULE Sealed -------------------------------
(***************************************************************************)
(* The format of an off-host copy (lib/backup-crypto.js): a header and the *)
(* chunks of the file, each sealed with AES-256-GCM under a key derived    *)
(* from the master key and a salt that is drawn afresh for every file.     *)
(*                                                                         *)
(* A sealed block is the record of what went into it: it opens with the    *)
(* same file key, nonce and header and with nothing else, which is what    *)
(* GCM and HKDF promise.  An object is the sequence of its blocks, the     *)
(* header first; a block cut short is one that no key opens.               *)
(***************************************************************************)
EXTENDS Integers, Sequences

CONSTANTS
    Masters,        \* the 32-byte keys a key file may hold
    Salts,          \* the random salts
    Bytes,          \* what files are made of
    ChunkSize       \* plaintext bytes of a chunk

ASSUME ChunkSizeAssumption == ChunkSize \in Nat \ {0}

Plaintexts == Seq(Bytes)

(***************************************************************************)
(* keyId and header: the key id names the master key without giving it.    *)
(***************************************************************************)
Header(master, salt) == [salt |-> salt, keyId |-> master]

FileKey(master, salt) == <<master, salt>>

(***************************************************************************)
(* sealChunk: the index and the final flag are the nonce, the header is    *)
(* the additional data.                                                    *)
(***************************************************************************)
SealChunk(key, aad, index, final, plain) ==
    [key |-> key, aad |-> aad, index |-> index, final |-> final, plain |-> plain]

OpensAs(block, key, aad, index, final) ==
    block.key = key /\ block.aad = aad /\ block.index = index /\ block.final = final

(***************************************************************************)
(* createEncryptStream: a chunk is sealed when more data follows it, so    *)
(* the last one, empty only for an empty file, carries the final flag.     *)
(***************************************************************************)
Chunks(plain) == IF Len(plain) = 0 THEN 1 ELSE (Len(plain) - 1) \div ChunkSize + 1

Chunk(plain, i) ==
    SubSeq(plain, (i - 1) * ChunkSize + 1,
           IF i < Chunks(plain) THEN i * ChunkSize ELSE Len(plain))

SealedChunk(master, salt, plain, i) ==
    SealChunk(FileKey(master, salt), Header(master, salt), i - 1,
              i = Chunks(plain), Chunk(plain, i))

Encrypt(master, salt, plain) ==
    [header |-> Header(master, salt),
     blocks |-> [i \in 1..Chunks(plain) |-> SealedChunk(master, salt, plain, i)]]

(***************************************************************************)
(* createDecryptStream: every block but the last is opened as one that is  *)
(* not final, the last as the final one.                                   *)
(***************************************************************************)
OpenChunk(master, object, i) ==
    OpensAs(object.blocks[i], FileKey(master, object.header.salt), object.header,
            i - 1, i = Len(object.blocks))

Decrypts(master, object) ==
    /\ object.header.keyId = master
    /\ object.blocks # <<>>
    /\ \A i \in DOMAIN object.blocks : OpenChunk(master, object, i)
=============================================================================
