---------------------------- MODULE VerifiedFiles ----------------------------
(***************************************************************************)
(* What the transfer engine promises of the files it writes, without its   *)
(* sessions' progress, its open files, the hashing or the clock: a place   *)
(* of a file is written only with the chunk that a manifest announced for  *)
(* this file lists there, or is spoilt while that is tried, and a place    *)
(* counts as verified for a manifest once such a write has succeeded.      *)
(*                                                                         *)
(* TransferEngine.tla implements this specification.                       *)
(***************************************************************************)
EXTENDS Naturals, Sequences

CONSTANTS
  Names,   \* names of files
  Places,  \* positions of chunks in a file, from 0
  Absent,  \* what nobody has written
  Torn     \* what a failed write may leave

VARIABLES
  manifest,  \* ID -> the chunks announced under it
  claims,    \* pairs of an ID and a name it was announced for
  verified,  \* ID -> the places written since it was last announced
  page       \* name -> place -> chunk

vfVars == <<manifest, claims, verified, page>>

VFInit ==
  /\ manifest = [id \in {} |-> Absent]
  /\ claims = {}
  /\ verified = [id \in {} |-> {}]
  /\ page = [n \in Names |-> [i \in Places |-> Absent]]

Entered(f, id, v) == [x \in DOMAIN f \cup {id} |-> IF x = id THEN v ELSE f[x]]

\* A file is announced, under a new ID or under one that is in use.
Announce(id, n, chunks) ==
  /\ UNCHANGED page
  /\ verified' = Entered(verified, id, {})
  /\ claims' = claims \cup {<<id, n>>}
  /\ manifest' = Entered(manifest, id, chunks)

Listed(id, i) == i + 1 \in DOMAIN manifest[id]

Write(id, n, i) ==
  /\ Listed(id, i)
  /\ page' = [page EXCEPT ![n][i] = manifest[id][i + 1]]
  /\ verified' = [verified EXCEPT ![id] = @ \cup {i}]
  /\ UNCHANGED <<manifest, claims>>

\* The chunk that was there already survives.
Spoil(id, n, i) ==
  /\ Listed(id, i) /\ page[n][i] # manifest[id][i + 1]
  /\ page' = [page EXCEPT ![n][i] = Torn]
  /\ UNCHANGED <<manifest, claims, verified>>

\* What is not on disk is forgotten.
Forget ==
  /\ manifest' = [id \in {} |-> Absent]
  /\ claims' = {}
  /\ verified' = [id \in {} |-> {}]
  /\ UNCHANGED page

VFNext ==
  \/ \E id \in DOMAIN manifest', n \in Names : Announce(id, n, manifest'[id])
  \/ \E claim \in claims, i \in Places : Write(claim[1], claim[2], i) \/ Spoil(claim[1], claim[2], i)
  \/ Forget

VFSpec == VFInit /\ [][VFNext]_vfVars

-----------------------------------------------------------------------------
\* Only file n is announced under this ID, and it under no other.
Sole(id, n) ==
  /\ <<id, n>> \in claims
  /\ \A claim \in claims : claim[1] = id <=> claim[2] = n

\* What a manifest has verified of a file that it shares with no other stays
\* in that file, whatever is written, repeated or spoilt later.
Kept ==
  \A id \in DOMAIN manifest, n \in Names : Sole(id, n) =>
    \A i \in verified[id] : page[n][i] = manifest[id][i + 1]
=============================================================================
