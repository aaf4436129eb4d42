------------------------- MODULE VerifiedFilesProofs -------------------------
(***************************************************************************)
(* What VerifiedFiles.tla alone guarantees, for any names, places and IDs. *)
(***************************************************************************)
EXTENDS VerifiedFiles, TLAPS

\* Claims pair an ID that has a manifest with a name, and what is verified is
\* a place of a file.
VFTypes ==
  /\ DOMAIN verified = DOMAIN manifest
  /\ \A claim \in claims :
       claim = <<claim[1], claim[2]>> /\ claim[1] \in DOMAIN manifest /\ claim[2] \in Names
  /\ \A id \in DOMAIN manifest : verified[id] \subseteq Places
  /\ page = [n \in Names |-> [i \in Places |-> page[n][i]]]

VFInv == VFTypes /\ Kept

LEMMA AnnounceInv ==
  ASSUME VFInv, NEW id, NEW n \in Names, NEW chunks, Announce(id, n, chunks)
  PROVE  VFInv'
<1>1. /\ DOMAIN manifest' = DOMAIN manifest \cup {id} /\ DOMAIN verified' = DOMAIN manifest'
      /\ verified'[id] = {} /\ page' = page /\ claims' = claims \cup {<<id, n>>}
      /\ \A x \in DOMAIN manifest : x # id => manifest'[x] = manifest[x] /\ verified'[x] = verified[x]
  BY DEF Announce, Entered, VFInv, VFTypes
<1>2. VFTypes'
  BY <1>1 DEF VFInv, VFTypes
<1>3. Kept'
  <2> SUFFICES ASSUME NEW x \in DOMAIN manifest', NEW m \in Names, Sole(x, m)',
                      NEW i \in verified'[x]
               PROVE  page'[m][i] = manifest'[x][i + 1]
    BY DEF Kept
  <2>1. x # id /\ x \in DOMAIN manifest
    BY <1>1
  <2>2. Sole(x, m)
    BY <1>1, <2>1 DEF Sole
  <2> QED
    BY <1>1, <2>1, <2>2 DEF VFInv, Kept
<1> QED
  BY <1>2, <1>3 DEF VFInv

\* A write, whether it succeeds or spoils its place, disturbs no chunk that a
\* sole manifest has verified.
LEMMA PlaceInv ==
  ASSUME VFInv, NEW claim \in claims, NEW i \in Places,
         Write(claim[1], claim[2], i) \/ Spoil(claim[1], claim[2], i)
  PROVE  VFInv'
<1> DEFINE id == claim[1]
           n == claim[2]
<1>1. id \in DOMAIN manifest /\ n \in Names /\ UNCHANGED <<manifest, claims>>
  BY DEF VFInv, VFTypes, Write, Spoil
<1>2. PICK chunk : page' = [page EXCEPT ![n][i] = chunk]
  BY DEF Write, Spoil
<1>3. /\ page' = [m \in Names |-> [k \in Places |-> page'[m][k]]]
      /\ page'[n][i] = chunk
      /\ \A m \in Names, k \in Places : (m # n \/ k # i) => page'[m][k] = page[m][k]
  BY <1>1, <1>2 DEF VFInv, VFTypes
<1>4. /\ DOMAIN verified' = DOMAIN verified
      /\ \A x \in DOMAIN manifest : x # id => verified'[x] = verified[x]
      /\ \/ verified'[id] = verified[id] \cup {i} /\ chunk = manifest[id][i + 1]
         \/ verified'[id] = verified[id] /\ page[n][i] # manifest[id][i + 1]
  <2>1. CASE Write(id, n, i)
    BY <1>1, <1>3, <2>1 DEF Write, VFInv, VFTypes
  <2>2. CASE Spoil(id, n, i)
    BY <1>1, <2>2 DEF Spoil
  <2> QED
    BY <2>1, <2>2
<1>5. VFTypes'
  BY <1>1, <1>3, <1>4 DEF VFInv, VFTypes
<1>6. Kept'
  <2> SUFFICES ASSUME NEW x \in DOMAIN manifest, NEW m \in Names, Sole(x, m),
                      NEW k \in verified'[x]
               PROVE  page'[m][k] = manifest[x][k + 1]
    BY <1>1 DEF Kept, Sole
  <2>1. k \in Places
    BY <1>1, <1>5 DEF VFTypes
  <2>2. n = m <=> id = x
    BY DEF Sole
  <2>3. \A l \in verified[x] : page[m][l] = manifest[x][l + 1]
    BY DEF VFInv, Kept
  <2>4. CASE n = m
    BY <1>3, <1>4, <2>1, <2>2, <2>3, <2>4
  <2>5. CASE n # m
    BY <1>3, <1>4, <2>1, <2>2, <2>3, <2>5
  <2> QED
    BY <2>4, <2>5
<1> QED
  BY <1>5, <1>6 DEF VFInv

\* A chunk that was verified for the only manifest of a file stays on disk,
\* whatever is written, repeated, spoilt or announced later (what
\* engine.go:166-191 is for).
THEOREM KeptAlways == VFSpec => []Kept
<1>1. VFInit => VFInv
  BY DEF VFInit, VFInv, VFTypes, Kept
<1>2. VFInv /\ [VFNext]_vfVars => VFInv'
  <2> SUFFICES ASSUME VFInv, [VFNext]_vfVars PROVE VFInv'
    OBVIOUS
  <2>1. CASE Forget
    BY <2>1 DEF Forget, VFInv, VFTypes, Kept
  <2>2. CASE UNCHANGED vfVars
    BY <2>2 DEF vfVars, VFInv, VFTypes, Kept, Sole
  <2> QED
    BY <2>1, <2>2, AnnounceInv, PlaceInv DEF VFNext
<1>3. VFInv => Kept
  BY DEF VFInv
<1> QED
  BY <1>1, <1>2, <1>3, PTL DEF VFSpec
=============================================================================
