----------------------------- MODULE HashTable -----------------------------
(***************************************************************************)
(* The chained hash table from a block's CRC32 to source block indices.    *)
(* A bucket's chain is a sequence of entries, newest first.                *)
(***************************************************************************)
EXTENDS Integers, Sequences

CONSTANT bucket_count       \* a power of two, at least 1024, in the code

ASSUME BucketAssumption == bucket_count \in Nat \ {0}

Entry == [crc32 : Nat, block_index : Nat]
Bucket == 0..bucket_count-1
Table == [Bucket -> Seq(Entry)]

hash_table_create == [b \in Bucket |-> << >>]

hash_to_bucket(crc) == crc % bucket_count

\* A new entry becomes the head of its chain.
hash_table_insert(table, crc, index) ==
  [table EXCEPT ![hash_to_bucket(crc)] =
     <<[crc32 |-> crc, block_index |-> index]>> \o @]

\* Mutant: only the entry that lookup returned.
VisitedFrom_head(table, crc) ==
  LET chain == table[hash_to_bucket(crc)]
      found == {p \in DOMAIN chain : chain[p].crc32 = crc}
  IN {p \in found : \A q \in found : p <= q}

\* The places of crc's chain that a caller visits when it starts from the
\* entry lookup returned (the first with this crc) and follows ->next.
\* Entries of other CRCs of the same bucket are among them.
VisitedFrom(table, crc) ==
  LET chain == table[hash_to_bucket(crc)]
  IN {p \in DOMAIN chain : \E q \in 1..p : chain[q].crc32 = crc}
=============================================================================
