---------------------------- MODULE TransferEngine ----------------------------
(***************************************************************************)
(* pkg/transfer/engine.go: manifests of files to send, and the chunks that *)
(* arrive for them.                                                        *)
(*                                                                         *)
(* PrepareUpload runs without te.mu until it registers its session, so the *)
(* file may change between its stat and each of its reads.                 *)
(* StoreIncomingChunk holds te.mu throughout: one call is one step, and    *)
(* the order, loss and repetition of calls is the network's.               *)
(*                                                                         *)
(* A chunk is one unit of data and stands for its own SHA-256, a sequence  *)
(* of chunks for a file's content and its checksum.  Speed, target peer    *)
(* and IsDirectP2P are left out: nothing reads them.  Calls that return an *)
(* error before they change anything (lines 82-93, 113-115, 156-172,       *)
(* 180-183) are stuttering steps.                                          *)
(***************************************************************************)
EXTENDS Integers, Sequences, FiniteSets

CONSTANTS
  Names,      \* base names of files
  Chunks,     \* chunk contents
  Absent,     \* what a place of a file holds that nobody has written
  Torn,       \* what a failed write leaves behind
  Contents,   \* the contents files may have: sequences of chunks
  MaxChunks,  \* bound on the chunks of a file
  Jobs,       \* calls of PrepareUpload
  MaxSecond,  \* bound on the clock
  MaxBytes    \* bound on the chunks a session counts

ASSUME EngineAssumption ==
  /\ Contents \subseteq Seq(Chunks)
  /\ MaxChunks \in Nat \ {0}
  /\ \A content \in Contents : Len(content) <= MaxChunks
  /\ Absent \notin Chunks /\ Torn \notin Chunks /\ Absent # Torn
  /\ MaxSecond \in Nat /\ MaxBytes \in Nat

VARIABLES
  file,      \* name -> content of the file to send
  second,    \* time.Now().Unix()
  job,       \* call of PrepareUpload -> its progress
  sessions,  \* file ID -> manifest and stats, registered together
  active,    \* activeFiles: ID -> name under which the open file was opened
  disk,      \* name -> position -> chunk in storageDir
  stuck,     \* a goroutine has panicked while it held te.mu
  stored,    \* history: ID -> indices stored since it was registered
  skipped    \* history: IDs that stored a chunk before its predecessor

fileVars == <<file, second>>
engineVars == <<sessions, active, disk, stuck, stored, skipped>>
vars == <<fileVars, job, engineVars>>

IdleJob == [pc |-> "idle", name |-> Absent, total |-> 0, hashes |-> <<>>, read |-> 0,
            id |-> Absent]

\* Lines 96-100: an empty file is announced as one chunk.
MutExtraChunk(content) == Len(content) + 1

TotalChunks(content) == IF Len(content) = 0 THEN 1 ELSE Len(content)

-----------------------------------------------------------------------------
\* PrepareUpload

\* Lines 82-103.
Stat(j, n) ==
  /\ job[j].pc = "idle"
  /\ job' = [job EXCEPT ![j] =
       [IdleJob EXCEPT !.pc = "hashing", !.name = n, !.total = TotalChunks(file[n])]]
  /\ UNCHANGED <<fileVars, engineVars>>

\* One turn of the loop of lines 106-116, on the file as it is now: a read
\* that meets the end leaves the place for the next turn.
HashChunk(j) ==
  /\ job[j].pc = "hashing"
  /\ job[j].read < job[j].total
  /\ LET place == Len(job[j].hashes) + 1
         content == file[job[j].name]
     IN  job' = [job EXCEPT
           ![j].read = @ + 1,
           ![j].hashes = IF place <= Len(content) THEN Append(@, content[place]) ELSE @]
  /\ UNCHANGED <<fileVars, engineVars>>

\* Lines 118-119: the prefix of the checksum and the time in seconds.
FileID(j) == <<job[j].hashes, second>>

NewSession(j) ==
  [name |-> job[j].name, total |-> job[j].total, hashes |-> job[j].hashes,
   state |-> "PENDING", current |-> 0, bytes |-> 0]

Bind(f, id, v) == [i \in DOMAIN f \cup {id} |-> IF i = id THEN v ELSE f[i]]

\* Lines 119-148; a session of the same ID is replaced, its file stays open.
Register(j) ==
  /\ job[j].pc = "hashing"
  /\ job[j].read = job[j].total
  /\ ~stuck
  /\ job' = [job EXCEPT ![j].pc = "done", ![j].id = FileID(j)]
  /\ sessions' = Bind(sessions, FileID(j), NewSession(j))
  /\ stored' = Bind(stored, FileID(j), {})
  /\ skipped' = skipped \ {FileID(j)}
  /\ UNCHANGED <<fileVars, active, disk, stuck>>

-----------------------------------------------------------------------------
\* StoreIncomingChunk(fileID, chunkIndex, data)

\* Lines 154-164.
InBounds(id, i) ==
  /\ ~stuck
  /\ id \in DOMAIN sessions
  /\ i \in 0..(sessions[id].total - 1)

\* Lines 167-172.
MutUnverified(id, i, data) == i < Len(sessions[id].hashes)

Verified(id, i, data) ==
  i < Len(sessions[id].hashes) /\ sessions[id].hashes[i + 1] = data

\* Lines 174-188: the file that is open for the session, or else the one its
\* manifest names, and the place in it.
Target(id) == IF id \in DOMAIN active THEN active[id] ELSE sessions[id].name

\* Lines 194-206: the stats after chunk i, and whether it is taken as the end.
MutOneEarly(id, i) == i + 2 >= sessions[id].total

IsEnd(id, i) == i + 1 >= sessions[id].total

MutNoReopen(id, i) ==
  IF IsEnd(id, i) THEN [x \in DOMAIN active \ {id} |-> active[x]]
  ELSE IF stored[id] = {} THEN Bind(active, id, Target(id)) ELSE active

FilesAfter(id, i) ==
  IF IsEnd(id, i) THEN [x \in DOMAIN active \ {id} |-> active[x]]
                  ELSE Bind(active, id, Target(id))

MutCountsLast(id) == 1

BytesAfter(id) == sessions[id].bytes + 1

StoreChunk(id, i, data) ==
  /\ InBounds(id, i)
  /\ Verified(id, i, data)
  /\ sessions[id].bytes < MaxBytes
  /\ disk' = [disk EXCEPT ![Target(id)][i] = data]
  /\ sessions' = [sessions EXCEPT ![id].current = i + 1,
                                  ![id].bytes = BytesAfter(id),
                                  ![id].state = IF IsEnd(id, i) THEN "COMPLETED"
                                                                ELSE "TRANSFERRING"]
  /\ active' = FilesAfter(id, i)
  /\ stored' = [stored EXCEPT ![id] = @ \cup {i}]
  /\ skipped' = IF i = 0 \/ i - 1 \in stored[id] THEN skipped ELSE skipped \cup {id}
  /\ UNCHANGED <<fileVars, job, stuck>>

\* Lines 187-191: the disk fails; what was there may be partly overwritten.
WriteFails(id, i, data) ==
  /\ InBounds(id, i)
  /\ Verified(id, i, data)
  /\ active' = Bind(active, id, Target(id))
  /\ \/ UNCHANGED disk
     \/ disk' = [disk EXCEPT ![Target(id)][i] = IF @ = data THEN @ ELSE Torn]
  /\ UNCHANGED <<fileVars, job, sessions, stuck, stored, skipped>>

\* Line 167: the index is in bounds but there is no hash for it.
IndexPanics(id, i) ==
  /\ InBounds(id, i)
  /\ i >= Len(sessions[id].hashes)
  /\ stuck' = TRUE
  /\ UNCHANGED <<fileVars, job, sessions, active, disk, stored, skipped>>

-----------------------------------------------------------------------------
\* External

Edit(n, content) ==
  /\ file' = [file EXCEPT ![n] = content]
  /\ UNCHANGED <<second, job, engineVars>>

Tick ==
  /\ second < MaxSecond
  /\ second' = second + 1
  /\ UNCHANGED <<file, job, engineVars>>

\* The program ends, and a new one starts no sooner than in the next second:
\* everything but the files is gone (lines 55-78).
Restart ==
  /\ second < MaxSecond
  /\ second' = second + 1
  /\ job' = [j \in Jobs |-> IdleJob]
  /\ sessions' = [id \in {} |-> Absent]
  /\ active' = [id \in {} |-> Absent]
  /\ stuck' = FALSE
  /\ stored' = [id \in {} |-> {}]
  /\ skipped' = {}
  /\ UNCHANGED <<file, disk>>

Places == 0..(MaxChunks - 1)

Init ==
  /\ file \in [Names -> Contents]
  /\ second = 0
  /\ job = [j \in Jobs |-> IdleJob]
  /\ sessions = [id \in {} |-> Absent]
  /\ active = [id \in {} |-> Absent]
  /\ disk = [n \in Names |-> [i \in Places |-> Absent]]
  /\ stuck = FALSE
  /\ stored = [id \in {} |-> {}]
  /\ skipped = {}

Prepare(j) == HashChunk(j) \/ Register(j) \/ \E n \in Names : Stat(j, n)

Incoming(id, i) ==
  \/ \E data \in Chunks : StoreChunk(id, i, data) \/ WriteFails(id, i, data)
  \/ IndexPanics(id, i)

Next ==
  \/ \E j \in Jobs : Prepare(j)
  \/ \E id \in DOMAIN sessions, i \in Places : Incoming(id, i)
  \/ \E n \in Names, content \in Contents : Edit(n, content)
  \/ Tick
  \/ Restart

Spec == Init /\ [][Next]_vars

-----------------------------------------------------------------------------
\* Properties

AllOf(id) == 0..(sessions[id].total - 1)

Job == [pc : {"idle", "hashing", "done"}, name : Names \cup {Absent}, total : 0..MaxChunks,
        hashes : Seq(Chunks), read : 0..MaxChunks,
        id : (Seq(Chunks) \X (0..MaxSecond)) \cup {Absent}]

Session == [name : Names, total : 1..MaxChunks, hashes : Seq(Chunks),
            state : {"PENDING", "TRANSFERRING", "COMPLETED"}, current : 0..MaxChunks,
            bytes : 0..MaxBytes]

\* The variables have their types; a manifest never has more hashes than
\* chunks, and what is stored has an index in bounds (lines 31-62, 102-115).
TypeOK ==
  /\ file \in [Names -> Contents]
  /\ second \in 0..MaxSecond
  /\ job \in [Jobs -> Job]
  /\ \A j \in Jobs : job[j].pc = "hashing" =>
       /\ job[j].name \in Names /\ job[j].total \in 1..MaxChunks
       /\ job[j].read <= job[j].total /\ Len(job[j].hashes) <= job[j].read
  /\ sessions \in [DOMAIN sessions -> Session]
  /\ active \in [DOMAIN active -> Names] /\ DOMAIN active \subseteq DOMAIN sessions
  /\ stored \in [DOMAIN sessions -> SUBSET Places]
  /\ \A id \in DOMAIN sessions :
       Len(sessions[id].hashes) <= sessions[id].total /\ stored[id] \subseteq AllOf(id)
  /\ skipped \subseteq DOMAIN sessions
  /\ disk \in [Names -> [Places -> Chunks \cup {Absent, Torn}]]
  /\ stuck \in BOOLEAN

\* A session in transfer has its file open, one that is pending has stored
\* nothing.  This survives duplicates that reopen a completed session, failed
\* writes and re-registration (lines 176-185, 199-206).
OpenWhileActive ==
  \A id \in DOMAIN sessions :
    /\ sessions[id].state = "TRANSFERRING" => id \in DOMAIN active
    /\ sessions[id].state = "PENDING" => stored[id] = {}

\* Only this session's file name was ever announced under this ID, and this
\* name under no other.
Exclusive(id) ==
  \A j \in Jobs :
    job[j].pc = "done" => (job[j].id = id <=> job[j].name = sessions[id].name)

\* Every chunk a session has stored is on disk, at its place and as its
\* manifest describes it, whatever duplicates, disorder and failing writes
\* came after (lines 166-191), and whatever an earlier run of the program
\* left there, unless another session shares the file.
StoredIsOnDisk ==
  \A id \in DOMAIN sessions : Exclusive(id) =>
    \A i \in stored[id] : disk[sessions[id].name][i] = sessions[id].hashes[i + 1]

\* BytesTransferred never lags behind what is stored, whatever was received
\* twice or failed (line 195).
ProgressCoversStored ==
  \A id \in DOMAIN sessions : sessions[id].bytes >= Cardinality(stored[id])

\* A session whose chunks were stored in order, duplicates and failed writes
\* aside, is COMPLETED only when it has all of them (lines 194-206).
InOrderIsWhole ==
  \A id \in DOMAIN sessions :
    (sessions[id].state = "COMPLETED" /\ id \notin skipped) => stored[id] = AllOf(id)

\* The engine at its best: nobody edits a file, and none is empty.
Undisturbed ==
  /\ Init /\ \A n \in Names : file[n] # <<>>
  /\ [][Next /\ UNCHANGED file]_vars

\* Then no call panics, and a completed session whose chunks came in order and
\* which shares neither ID nor name has put the whole file on disk, whatever
\* was repeated, failed, or interrupted by a restart (lines 81-209).
FileArrives ==
  /\ ~stuck
  /\ \A id \in DOMAIN sessions :
       (sessions[id].state = "COMPLETED" /\ id \notin skipped /\ Exclusive(id)) =>
         LET content == file[sessions[id].name]
         IN  \A i \in 1..Len(content) : disk[sessions[id].name][i - 1] = content[i]

\* The engine implements the files of VerifiedFiles.tla: how it hashes, what it
\* has open and what it reports about a session show in nothing on disk.
VF == INSTANCE VerifiedFiles WITH
        manifest <- [id \in DOMAIN sessions |-> sessions[id].hashes],
        claims <- {<<job[j].id, job[j].name>> : j \in {k \in Jobs : job[k].pc = "done"}},
        verified <- stored,
        page <- disk

ImplementsFiles == VF!VFSpec

\* README.md:84 and README_EN.md:84 promise resumable transfers with SHA-256
\* verification, frontend/src/main.js:385 a complete file that is checked in
\* full.  Line 201 completes a session on its last index, whatever is missing.
CompletedIsWhole ==
  \A id \in DOMAIN sessions : sessions[id].state = "COMPLETED" => stored[id] = AllOf(id)

\* Lines 30 and 151: the manifest holds the checking data of every chunk, and
\* the receiver verifies each chunk it stores.  An empty file, or one that
\* shrinks while it is hashed, has an index in bounds without a hash.
EveryChunkHasHash ==
  \A id \in DOMAIN sessions : Len(sessions[id].hashes) = sessions[id].total
=============================================================================
