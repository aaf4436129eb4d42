------------------------- MODULE TransferEngineProofs -------------------------
(***************************************************************************)
(* Safety of TransferEngine.tla for any files, contents, numbers of calls  *)
(* and bounds.                                                             *)
(***************************************************************************)
EXTENDS TransferEngine, FiniteSetTheorems, TLAPS

\* What Bind returns.
LEMMA BindType ==
  ASSUME NEW f, NEW id, NEW v, NEW S, f \in [DOMAIN f -> S], v \in S
  PROVE  Bind(f, id, v) \in [DOMAIN f \cup {id} -> S]
  BY DEF Bind

\* The three parts of TypeOK: of the calls, of the sessions, of the rest.
JobsOK ==
  /\ file \in [Names -> Contents]
  /\ second \in 0..MaxSecond
  /\ job \in [Jobs -> Job]
  /\ \A j \in Jobs : job[j].pc = "hashing" =>
       /\ job[j].name \in Names /\ job[j].total \in 1..MaxChunks
       /\ job[j].read <= job[j].total /\ Len(job[j].hashes) <= job[j].read

SessionsOK ==
  /\ sessions \in [DOMAIN sessions -> Session]
  /\ active \in [DOMAIN active -> Names] /\ DOMAIN active \subseteq DOMAIN sessions
  /\ stored \in [DOMAIN sessions -> SUBSET Places]
  /\ \A id \in DOMAIN sessions :
       Len(sessions[id].hashes) <= sessions[id].total /\ stored[id] \subseteq AllOf(id)
  /\ skipped \subseteq DOMAIN sessions

DiskOK == disk \in [Names -> [Places -> Chunks \cup {Absent, Torn}]]

LEMMA TypeParts == TypeOK <=> JobsOK /\ SessionsOK /\ DiskOK /\ stuck \in BOOLEAN
  BY Zenon DEF TypeOK, JobsOK, SessionsOK, DiskOK

LEMMA InitTypes == Init => TypeOK
<1> SUFFICES ASSUME Init PROVE TypeOK
  OBVIOUS
<1>1. DOMAIN sessions = {} /\ DOMAIN active = {} /\ DOMAIN stored = {}
  BY DEF Init
<1>2. IdleJob \in Job
  BY EngineAssumption DEF IdleJob, Job
<1>3. job \in [Jobs -> Job] /\ \A j \in Jobs : job[j].pc = "idle"
  BY <1>2 DEF IdleJob, Init
<1>4. DiskOK
  BY DEF Init, DiskOK
<1>5. second \in 0..MaxSecond
  BY EngineAssumption DEF Init
<1>6. stuck \in BOOLEAN
  BY Zenon DEF Init
<1>7. JobsOK
  BY <1>3, <1>5 DEF Init, JobsOK
<1>8. SessionsOK
  BY <1>1 DEF Init, SessionsOK
<1> QED
  BY <1>4, <1>6, <1>7, <1>8, Zenon DEF TypeOK, JobsOK, SessionsOK, DiskOK

-----------------------------------------------------------------------------
\* The calls of PrepareUpload

LEMMA StatTypes ==
  ASSUME TypeOK, NEW j \in Jobs, NEW n \in Names, Stat(j, n)
  PROVE  TypeOK'
<1> DEFINE c == file[n]
           g == [IdleJob EXCEPT !.pc = "hashing", !.name = n, !.total = TotalChunks(c)]
<1>1. c \in Seq(Chunks) /\ Len(c) \in 0..MaxChunks
  BY EngineAssumption DEF TypeOK
<1>2. TotalChunks(c) \in 1..MaxChunks
  BY <1>1, EngineAssumption DEF TotalChunks
<1> HIDE DEF c
<1>3. /\ g \in Job /\ g.pc = "hashing" /\ g.name = n /\ g.total = TotalChunks(c)
      /\ g.read = 0 /\ Len(g.hashes) = 0
  <2>1. IdleJob \in Job /\ IdleJob.read = 0 /\ Len(IdleJob.hashes) = 0
    BY EngineAssumption DEF IdleJob, Job
  <2>2. TotalChunks(c) \in 0..MaxChunks
    BY <1>2, EngineAssumption
  <2>3. g \in Job
    BY <2>1, <2>2 DEF Job
  <2> QED
    BY <2>1, <2>3 DEF Job
<1>4. job' = [job EXCEPT ![j] = g] /\ UNCHANGED <<fileVars, engineVars>>
  BY DEF Stat, c
<1> HIDE DEF g
<1>5. JobsOK'
  <2>1. job' \in [Jobs -> Job]
    BY <1>3, <1>4 DEF TypeOK
  <2>2. \A k \in Jobs : job'[k] = IF k = j THEN g ELSE job[k]
    BY <1>4 DEF TypeOK
  <2> QED
    BY <1>2, <1>3, <1>4, <2>1, <2>2 DEF TypeOK, JobsOK, fileVars
<1>6. SessionsOK' /\ DiskOK'
  BY <1>4, TypeParts DEF engineVars, SessionsOK, DiskOK, AllOf
<1>7. stuck' \in BOOLEAN
  BY <1>4, Zenon DEF engineVars, TypeOK
<1> QED
  BY <1>5, <1>6, <1>7, Zenon DEF TypeOK, JobsOK, SessionsOK, DiskOK

LEMMA HashTypes ==
  ASSUME TypeOK, NEW j \in Jobs, HashChunk(j)
  PROVE  TypeOK'
<1> DEFINE i == job[j].read + 1
           place == Len(job[j].hashes) + 1
           content == file[job[j].name]
           h == IF place <= Len(content) THEN Append(job[j].hashes, content[place]) ELSE job[j].hashes
           g == [job[j] EXCEPT !.read = i, !.hashes = h]
<1>1. /\ job[j].pc = "hashing" /\ job[j].read < job[j].total /\ job[j] \in Job
      /\ UNCHANGED <<fileVars, engineVars>>
      /\ job' = [job EXCEPT ![j].read = i, ![j].hashes = h]
  BY DEF HashChunk, TypeOK
<1>2. content \in Seq(Chunks)
  BY <1>1, EngineAssumption DEF TypeOK
<1>3. /\ job[j].hashes \in Seq(Chunks) /\ job[j].read \in 0..MaxChunks
      /\ job[j].total \in 1..MaxChunks /\ job[j].name \in Names
      /\ Len(job[j].hashes) <= job[j].read
  BY <1>1 DEF Job, TypeOK
<1>4. i \in 1..MaxChunks /\ i <= job[j].total
  BY <1>1, <1>3, EngineAssumption
<1>5. h \in Seq(Chunks) /\ Len(h) <= i
  <2>1. CASE place <= Len(content)
    <3>1. content[place] \in Chunks
      BY <1>2, <1>3, <2>1
    <3>2. h = Append(job[j].hashes, content[place])
      BY <2>1
    <3> QED
      BY <1>3, <3>1, <3>2
  <2>2. CASE ~(place <= Len(content))
    BY <1>3, <2>2
  <2> QED
    BY <2>1, <2>2
<1> HIDE DEF i, h
<1>6. /\ g \in Job /\ g.read = i /\ g.hashes = h
      /\ g.pc = job[j].pc /\ g.name = job[j].name /\ g.total = job[j].total
  <2>1. i \in 0..MaxChunks
    BY <1>4, EngineAssumption
  <2>2. g \in Job
    BY <1>1, <1>5, <2>1 DEF Job
  <2> QED
    BY <1>1, <2>2 DEF Job
<1>7. job' = [job EXCEPT ![j] = g]
  BY <1>1 DEF TypeOK
<1> HIDE DEF g
<1>8. JobsOK'
  <2>1. job' \in [Jobs -> Job]
    BY <1>6, <1>7 DEF TypeOK
  <2>2. \A k \in Jobs : job'[k] = IF k = j THEN g ELSE job[k]
    BY <1>7 DEF TypeOK
  <2> QED
    BY <1>1, <1>3, <1>4, <1>5, <1>6, <2>1, <2>2 DEF TypeOK, JobsOK, fileVars
<1>9. SessionsOK' /\ DiskOK'
  BY <1>1, TypeParts DEF engineVars, SessionsOK, DiskOK, AllOf
<1>10. stuck' \in BOOLEAN
  BY <1>1, Zenon DEF engineVars, TypeOK
<1> QED
  BY <1>8, <1>9, <1>10, Zenon DEF TypeOK, JobsOK, SessionsOK, DiskOK

LEMMA RegisterTypes ==
  ASSUME TypeOK, NEW j \in Jobs, Register(j)
  PROVE  TypeOK'
<1> DEFINE id == FileID(j)
           s == NewSession(j)
<1>1. /\ job[j].pc = "hashing" /\ job[j].read = job[j].total /\ job[j] \in Job
      /\ job' = [job EXCEPT ![j].pc = "done", ![j].id = id]
      /\ sessions' = Bind(sessions, id, s) /\ stored' = Bind(stored, id, {})
      /\ skipped' = skipped \ {id} /\ UNCHANGED <<file, second, active, disk, stuck>>
  BY DEF Register, TypeOK, fileVars
<1>2. job[j].name \in Names /\ job[j].total \in 1..MaxChunks /\ job[j].hashes \in Seq(Chunks)
  BY <1>1 DEF TypeOK, Job
<1>3. id \in Seq(Chunks) \X (0..MaxSecond)
  BY <1>2 DEF FileID, TypeOK
<1>4. /\ s \in Session /\ s.total = job[j].total /\ s.hashes = job[j].hashes
      /\ Len(s.hashes) <= s.total
  BY <1>1, <1>2, EngineAssumption DEF NewSession, Session, TypeOK
<1> HIDE DEF id, s
<1>5. JobsOK'
  <2> DEFINE g == [job[j] EXCEPT !.pc = "done", !.id = id]
  <2>1. g \in Job /\ g.pc = "done"
    BY <1>1, <1>3 DEF Job
  <2>2. job' = [job EXCEPT ![j] = g]
    BY <1>1 DEF TypeOK
  <2> HIDE DEF g
  <2>3. job' \in [Jobs -> Job] /\ \A k \in Jobs : job'[k] = IF k = j THEN g ELSE job[k]
    BY <2>1, <2>2 DEF TypeOK
  <2> QED
    BY <1>1, <2>1, <2>3 DEF TypeOK, JobsOK
<1>6. SessionsOK'
  <2>1. /\ DOMAIN sessions' = DOMAIN sessions \cup {id} /\ sessions'[id] = s
        /\ \A x \in DOMAIN sessions : x # id => sessions'[x] = sessions[x]
    BY <1>1 DEF Bind
  <2>2. /\ DOMAIN stored' = DOMAIN stored \cup {id} /\ stored'[id] = {}
        /\ \A x \in DOMAIN stored : x # id => stored'[x] = stored[x]
    BY <1>1 DEF Bind
  <2>3. DOMAIN stored = DOMAIN sessions
    BY DEF TypeOK
  <2>4. sessions' \in [DOMAIN sessions' -> Session]
    BY <1>1, <1>4, <2>1, BindType DEF TypeOK
  <2>5. stored' \in [DOMAIN sessions' -> SUBSET Places]
    <3>1. stored \in [DOMAIN stored -> SUBSET Places] /\ {} \in SUBSET Places
      BY DEF TypeOK
    <3> QED
      BY <1>1, <2>1, <2>3, <3>1, BindType
  <2>6. \A x \in DOMAIN sessions' :
          Len(sessions'[x].hashes) <= sessions'[x].total /\ stored'[x] \subseteq AllOf(x)'
    BY <1>4, <2>1, <2>2, <2>3 DEF TypeOK, AllOf
  <2>7. skipped' \subseteq DOMAIN sessions'
    BY <1>1, <2>1 DEF TypeOK
  <2>8. active' \in [DOMAIN active' -> Names] /\ DOMAIN active' \subseteq DOMAIN sessions'
    BY <1>1, <2>1 DEF TypeOK
  <2> QED
    BY <2>4, <2>5, <2>6, <2>7, <2>8 DEF SessionsOK
<1>7. DiskOK'
  BY <1>1, TypeParts DEF DiskOK
<1>8. stuck' \in BOOLEAN
  BY <1>1, Zenon DEF TypeOK
<1> QED
  BY <1>5, <1>6, <1>7, <1>8, Zenon DEF TypeOK, JobsOK, SessionsOK, DiskOK

-----------------------------------------------------------------------------
\* The chunks that arrive

LEMMA ChunkInPlace ==
  ASSUME TypeOK, NEW id, NEW i, InBounds(id, i)
  PROVE  /\ id \in DOMAIN sessions /\ sessions[id] \in Session /\ i \in AllOf(id)
         /\ i \in Places /\ i + 1 \in 1..MaxChunks /\ Target(id) \in Names
<1>1. id \in DOMAIN sessions /\ sessions[id] \in Session /\ i \in 0..(sessions[id].total - 1)
  BY DEF InBounds, TypeOK
<1>2. sessions[id].total \in 1..MaxChunks /\ sessions[id].name \in Names
  BY <1>1 DEF Session
<1>3. i \in Places /\ i + 1 \in 1..MaxChunks
  BY <1>1, <1>2, EngineAssumption DEF Places
<1>4. Target(id) \in Names
  BY <1>2 DEF Target, TypeOK
<1> QED
  BY <1>1, <1>3, <1>4 DEF AllOf

\* What storing chunk i does to its session, and that it leaves the others.
LEMMA StoreEffect ==
  ASSUME TypeOK, NEW id, NEW i, NEW data, StoreChunk(id, i, data)
  PROVE  /\ DOMAIN sessions' = DOMAIN sessions
         /\ sessions' \in [DOMAIN sessions -> Session]
         /\ \A x \in DOMAIN sessions : x # id => sessions'[x] = sessions[x]
         /\ sessions'[id] \in Session
         /\ sessions'[id].name = sessions[id].name
         /\ sessions'[id].total = sessions[id].total
         /\ sessions'[id].hashes = sessions[id].hashes
         /\ sessions'[id].bytes = sessions[id].bytes + 1
         /\ sessions'[id].state = IF IsEnd(id, i) THEN "COMPLETED" ELSE "TRANSFERRING"
<1> DEFINE st == IF IsEnd(id, i) THEN "COMPLETED" ELSE "TRANSFERRING"
           g == [sessions[id] EXCEPT !.current = i + 1, !.bytes = BytesAfter(id), !.state = st]
<1>1. /\ id \in DOMAIN sessions /\ sessions[id] \in Session /\ i + 1 \in 0..MaxChunks
      /\ sessions[id].bytes < MaxBytes
      /\ sessions' = [sessions EXCEPT ![id].current = i + 1, ![id].bytes = BytesAfter(id),
                                      ![id].state = st]
  BY ChunkInPlace, EngineAssumption DEF StoreChunk
<1>2. BytesAfter(id) \in 0..MaxBytes /\ BytesAfter(id) = sessions[id].bytes + 1
  BY <1>1, EngineAssumption DEF BytesAfter, Session
<1>3. st \in {"PENDING", "TRANSFERRING", "COMPLETED"}
  OBVIOUS
<1> HIDE DEF st
<1>4. g \in Session
  BY <1>1, <1>2, <1>3 DEF Session
<1>5. /\ g.name = sessions[id].name /\ g.total = sessions[id].total
      /\ g.hashes = sessions[id].hashes /\ g.bytes = BytesAfter(id) /\ g.state = st
  BY <1>1, <1>4 DEF Session
<1>6. sessions' = [sessions EXCEPT ![id] = g]
  BY <1>1 DEF TypeOK
<1> HIDE DEF g
<1>7. /\ DOMAIN sessions' = DOMAIN sessions /\ sessions'[id] = g
      /\ \A x \in DOMAIN sessions : x # id => sessions'[x] = sessions[x]
  BY <1>1, <1>6
<1>8. sessions' \in [DOMAIN sessions -> Session]
  BY <1>4, <1>6 DEF TypeOK
<1> QED
  BY <1>2, <1>4, <1>5, <1>7, <1>8 DEF st

LEMMA StoreTypes ==
  ASSUME TypeOK, NEW id, NEW i, NEW data \in Chunks, StoreChunk(id, i, data)
  PROVE  TypeOK'
<1>1. /\ id \in DOMAIN sessions /\ i \in AllOf(id) /\ i \in Places /\ Target(id) \in Names
  BY ChunkInPlace DEF StoreChunk
<1>2. /\ disk' = [disk EXCEPT ![Target(id)][i] = data]
      /\ active' = FilesAfter(id, i)
      /\ stored' = [stored EXCEPT ![id] = @ \cup {i}]
      /\ skipped' \in {skipped, skipped \cup {id}}
      /\ UNCHANGED <<file, second, job, stuck>>
  BY DEF StoreChunk, fileVars
<1>3. JobsOK'
  BY <1>2 DEF TypeOK, JobsOK
<1>4. SessionsOK'
  <2>1. sessions' \in [DOMAIN sessions' -> Session]
    BY StoreEffect DEF TypeOK
  <2>2. active' \in [DOMAIN active' -> Names] /\ DOMAIN active' \subseteq DOMAIN sessions'
    BY <1>1, <1>2, StoreEffect DEF FilesAfter, Bind, TypeOK
  <2>3. /\ stored' \in [DOMAIN sessions' -> SUBSET Places]
        /\ stored'[id] = stored[id] \cup {i}
        /\ \A x \in DOMAIN sessions : x # id => stored'[x] = stored[x]
    BY <1>1, <1>2, StoreEffect DEF TypeOK
  <2>4. \A x \in DOMAIN sessions' :
          Len(sessions'[x].hashes) <= sessions'[x].total /\ stored'[x] \subseteq AllOf(x)'
    BY <1>1, <2>3, StoreEffect DEF TypeOK, AllOf
  <2>5. skipped' \subseteq DOMAIN sessions'
    BY <1>1, <1>2, StoreEffect DEF TypeOK
  <2> QED
    BY <2>1, <2>2, <2>3, <2>4, <2>5 DEF SessionsOK
<1>5. DiskOK'
  BY <1>1, <1>2 DEF DiskOK, TypeOK
<1>6. stuck' \in BOOLEAN
  BY <1>2, Zenon DEF TypeOK
<1> QED
  BY <1>3, <1>4, <1>5, <1>6, Zenon DEF TypeOK, JobsOK, SessionsOK, DiskOK

LEMMA FailTypes ==
  ASSUME TypeOK, NEW id, NEW i, NEW data \in Chunks, WriteFails(id, i, data)
  PROVE  TypeOK'
<1>1. /\ id \in DOMAIN sessions /\ i \in Places /\ Target(id) \in Names
  BY ChunkInPlace DEF WriteFails
<1>2. /\ active' = Bind(active, id, Target(id))
      /\ UNCHANGED <<file, second, job, sessions, stuck, stored, skipped>>
  BY DEF WriteFails, fileVars
<1>3. JobsOK'
  BY <1>2 DEF TypeOK, JobsOK
<1>4. SessionsOK'
  <2>1. active' \in [DOMAIN active' -> Names] /\ DOMAIN active' \subseteq DOMAIN sessions
    BY <1>1, <1>2 DEF Bind, TypeOK
  <2> QED
    BY <1>2, <2>1 DEF SessionsOK, TypeOK, AllOf
<1>5. DiskOK'
  <2>1. disk' = disk \/ \E v \in Chunks \cup {Absent, Torn} :
                          disk' = [disk EXCEPT ![Target(id)][i] = v]
    BY <1>1 DEF WriteFails, TypeOK
  <2> QED
    BY <1>1, <2>1 DEF DiskOK, TypeOK
<1>6. stuck' \in BOOLEAN
  BY <1>2, Zenon DEF TypeOK
<1> QED
  BY <1>3, <1>4, <1>5, <1>6, Zenon DEF TypeOK, JobsOK, SessionsOK, DiskOK

LEMMA RestartTypes ==
  ASSUME TypeOK, Restart
  PROVE  TypeOK'
<1>1. /\ DOMAIN sessions' = {} /\ DOMAIN active' = {} /\ DOMAIN stored' = {} /\ skipped' = {}
      /\ second' = second + 1 /\ second < MaxSecond /\ UNCHANGED <<file, disk>>
  BY DEF Restart
<1>2. IdleJob \in Job /\ IdleJob.pc = "idle"
  BY EngineAssumption DEF IdleJob, Job
<1>3. job' \in [Jobs -> Job] /\ \A j \in Jobs : job'[j].pc = "idle"
  BY <1>2 DEF Restart
<1>4. second' \in 0..MaxSecond
  BY <1>1, EngineAssumption DEF TypeOK
<1>5. JobsOK'
  BY <1>1, <1>3, <1>4 DEF TypeOK, JobsOK
<1>6. SessionsOK'
  BY <1>1 DEF Restart, SessionsOK
<1>7. DiskOK'
  BY <1>1 DEF TypeOK, DiskOK
<1>8. stuck' \in BOOLEAN
  BY Zenon DEF Restart
<1> QED
  BY <1>5, <1>6, <1>7, <1>8, Zenon DEF TypeOK, JobsOK, SessionsOK, DiskOK

LEMMA TypeStep == TypeOK /\ [Next]_vars => TypeOK'
<1> SUFFICES ASSUME TypeOK, [Next]_vars PROVE TypeOK'
  OBVIOUS
<1>1. ASSUME NEW j \in Jobs, Prepare(j) PROVE TypeOK'
  BY <1>1, StatTypes, HashTypes, RegisterTypes DEF Prepare
<1>2. ASSUME NEW id \in DOMAIN sessions, NEW i \in Places, NEW data \in Chunks,
             StoreChunk(id, i, data) \/ WriteFails(id, i, data)
      PROVE  TypeOK'
  BY <1>2, StoreTypes, FailTypes
<1>3. ASSUME UNCHANGED <<sessions, active, disk, stored, skipped>>
      PROVE  SessionsOK' /\ DiskOK'
  BY <1>3 DEF TypeOK, SessionsOK, DiskOK, AllOf
<1>4. ASSUME NEW id \in DOMAIN sessions, NEW i \in Places, IndexPanics(id, i) PROVE TypeOK'
  <2>1. JobsOK'
    BY <1>4 DEF IndexPanics, fileVars, TypeOK, JobsOK
  <2>2. SessionsOK' /\ DiskOK'
    BY <1>3, <1>4 DEF IndexPanics
  <2>3. stuck' \in BOOLEAN
    BY <1>4, Zenon DEF IndexPanics
  <2> QED
    BY <2>1, <2>2, <2>3, Zenon DEF TypeOK, JobsOK, SessionsOK, DiskOK
<1>5. ASSUME (\E n \in Names, content \in Contents : Edit(n, content)) \/ Tick \/ UNCHANGED vars
      PROVE  TypeOK'
  <2>1. JobsOK'
    <3>1. ASSUME NEW n \in Names, NEW content \in Contents, Edit(n, content) PROVE JobsOK'
      BY <3>1 DEF Edit, TypeOK, JobsOK
    <3>2. CASE Tick
      BY <3>2, EngineAssumption DEF Tick, TypeOK, JobsOK
    <3>3. CASE UNCHANGED vars
      BY <3>3 DEF vars, fileVars, TypeOK, JobsOK
    <3> QED
      BY <1>5, <3>1, <3>2, <3>3
  <2>2. SessionsOK' /\ DiskOK'
    <3>1. UNCHANGED engineVars
      BY <1>5 DEF Edit, Tick, vars
    <3> QED
      BY <1>3, <3>1 DEF engineVars
  <2>3. stuck' \in BOOLEAN
    BY <1>5, Zenon DEF Edit, Tick, vars, engineVars, TypeOK
  <2> QED
    BY <2>1, <2>2, <2>3, Zenon DEF TypeOK, JobsOK, SessionsOK, DiskOK
<1> QED
  BY <1>1, <1>2, <1>4, <1>5, RestartTypes, Zenon DEF Next, Incoming

\* The variables have their types for any bounds (engine.go:19-62).
THEOREM TypeCorrect == Spec => []TypeOK
  BY InitTypes, TypeStep, PTL DEF Spec

-----------------------------------------------------------------------------
\* Where sessions and open files come from, and what the order of chunks
\* implies: the parts of the invariant beside the properties themselves.

Announced(calls, id, n) ==
  \E j \in Jobs : calls[j].pc = "done" /\ calls[j].id = id /\ calls[j].name = n

Origins ==
  /\ \A id \in DOMAIN sessions : Announced(job, id, sessions[id].name)
  /\ \A id \in DOMAIN active : Announced(job, id, active[id])

\* Without a skipped chunk, what is stored has no gap.
NoGaps ==
  \A id \in DOMAIN sessions : id \notin skipped =>
    \A i \in stored[id] : 0..i \subseteq stored[id]

LastIsStored ==
  \A id \in DOMAIN sessions :
    sessions[id].state = "COMPLETED" => sessions[id].total - 1 \in stored[id]

Inv == TypeOK /\ Origins /\ NoGaps /\ LastIsStored /\ OpenWhileActive /\ ProgressCoversStored

LEMMA RegisterEffect ==
  ASSUME TypeOK, NEW j \in Jobs, Register(j)
  PROVE  /\ job'[j].pc = "done" /\ job'[j].id = FileID(j) /\ job'[j].name = job[j].name
         /\ job[j].pc = "hashing"
         /\ \A k \in Jobs : k # j => job'[k] = job[k]
         /\ DOMAIN sessions' = DOMAIN sessions \cup {FileID(j)}
         /\ sessions'[FileID(j)].name = job[j].name
         /\ sessions'[FileID(j)].state = "PENDING" /\ sessions'[FileID(j)].bytes = 0
         /\ stored'[FileID(j)] = {}
         /\ \A x \in DOMAIN sessions :
              x # FileID(j) => sessions'[x] = sessions[x] /\ stored'[x] = stored[x]
         /\ skipped' = skipped \ {FileID(j)}
         /\ UNCHANGED <<active, disk>>
<1> DEFINE id == FileID(j)
           s == NewSession(j)
<1>1. /\ job[j].pc = "hashing" /\ job[j] \in Job
      /\ job' = [job EXCEPT ![j].pc = "done", ![j].id = id]
      /\ sessions' = Bind(sessions, id, s) /\ stored' = Bind(stored, id, {})
      /\ skipped' = skipped \ {id} /\ UNCHANGED <<active, disk>>
  BY DEF Register, TypeOK
<1>2. s.name = job[j].name /\ s.state = "PENDING" /\ s.bytes = 0
  BY DEF NewSession
<1> HIDE DEF id, s
<1>3. /\ job'[j].pc = "done" /\ job'[j].id = id /\ job'[j].name = job[j].name
      /\ \A k \in Jobs : k # j => job'[k] = job[k]
  BY <1>1 DEF TypeOK, Job
<1>4. /\ DOMAIN sessions' = DOMAIN sessions \cup {id} /\ sessions'[id] = s /\ stored'[id] = {}
      /\ \A x \in DOMAIN sessions : x # id => sessions'[x] = sessions[x] /\ stored'[x] = stored[x]
  BY <1>1 DEF Bind, TypeOK
<1> QED
  BY <1>1, <1>2, <1>3, <1>4 DEF id

\* What storing a chunk does to the other variables.
LEMMA StoreFiles ==
  ASSUME TypeOK, NEW id, NEW i, NEW data \in Chunks, StoreChunk(id, i, data)
  PROVE  /\ stored'[id] = stored[id] \cup {i}
         /\ \A x \in DOMAIN sessions : x # id => stored'[x] = stored[x]
         /\ IsEnd(id, i) <=> i = sessions[id].total - 1
         /\ ~IsEnd(id, i) => id \in DOMAIN active' /\ active'[id] = Target(id)
         /\ IsEnd(id, i) => id \notin DOMAIN active'
         /\ \A x : x # id => (x \in DOMAIN active' <=> x \in DOMAIN active)
         /\ \A x \in DOMAIN active : x # id => active'[x] = active[x]
         /\ disk'[Target(id)][i] = data
         /\ \A n \in Names, k \in Places : (n # Target(id) \/ k # i) => disk'[n][k] = disk[n][k]
         /\ id \notin skipped' => (i = 0 \/ i - 1 \in stored[id]) /\ id \notin skipped
         /\ \A x : x # id => (x \in skipped' <=> x \in skipped)
         /\ data = sessions[id].hashes[i + 1]
         /\ UNCHANGED job
<1>1. /\ id \in DOMAIN sessions /\ i \in 0..(sessions[id].total - 1) /\ i \in Places
      /\ Target(id) \in Names /\ sessions[id].total \in 1..MaxChunks
  BY ChunkInPlace DEF StoreChunk, AllOf, Session
<1>2. /\ stored'[id] = stored[id] \cup {i}
      /\ \A x \in DOMAIN sessions : x # id => stored'[x] = stored[x]
  BY <1>1 DEF StoreChunk, TypeOK
<1>3. IsEnd(id, i) <=> i = sessions[id].total - 1
  BY <1>1, EngineAssumption DEF IsEnd
<1>4. /\ ~IsEnd(id, i) => id \in DOMAIN active' /\ active'[id] = Target(id)
      /\ IsEnd(id, i) => id \notin DOMAIN active'
      /\ \A x : x # id => (x \in DOMAIN active' <=> x \in DOMAIN active)
      /\ \A x \in DOMAIN active : x # id => active'[x] = active[x]
  <2>1. active' = FilesAfter(id, i)
    BY DEF StoreChunk
  <2>2. CASE IsEnd(id, i)
    BY <2>1, <2>2 DEF FilesAfter
  <2>3. CASE ~IsEnd(id, i)
    BY <2>1, <2>3 DEF FilesAfter, Bind
  <2> QED
    BY <2>2, <2>3
<1>5. /\ disk'[Target(id)][i] = data
      /\ \A n \in Names, k \in Places : (n # Target(id) \/ k # i) => disk'[n][k] = disk[n][k]
  BY <1>1 DEF StoreChunk, TypeOK
<1>6. /\ id \notin skipped' => (i = 0 \/ i - 1 \in stored[id]) /\ id \notin skipped
      /\ \A x : x # id => (x \in skipped' <=> x \in skipped)
  BY DEF StoreChunk
<1>7. data = sessions[id].hashes[i + 1] /\ UNCHANGED job
  BY DEF StoreChunk, Verified
<1> QED
  BY <1>2, <1>3, <1>4, <1>5, <1>6, <1>7

LEMMA InitInv == Init => Inv
<1> SUFFICES ASSUME Init PROVE Inv
  OBVIOUS
<1>1. DOMAIN sessions = {} /\ DOMAIN active = {}
  BY DEF Init
<1> QED
  BY <1>1, InitTypes DEF Inv, Origins, NoGaps, LastIsStored, OpenWhileActive, ProgressCoversStored

LEMMA RegisterInv ==
  ASSUME Inv, NEW j \in Jobs, Register(j)
  PROVE  Inv'
<1> DEFINE new == FileID(j)
<1>1. TypeOK /\ TypeOK'
  BY RegisterTypes DEF Inv
<1>0. /\ job'[j].pc = "done" /\ job'[j].id = new /\ job'[j].name = job[j].name
      /\ job[j].pc = "hashing" /\ \A k \in Jobs : k # j => job'[k] = job[k]
      /\ DOMAIN sessions' = DOMAIN sessions \cup {new}
      /\ sessions'[new].name = job[j].name
      /\ sessions'[new].state = "PENDING" /\ sessions'[new].bytes = 0 /\ stored'[new] = {}
      /\ \A x \in DOMAIN sessions :
           x # new => sessions'[x] = sessions[x] /\ stored'[x] = stored[x]
      /\ skipped' = skipped \ {new}
      /\ UNCHANGED <<active, disk>>
  BY <1>1, RegisterEffect
<1> HIDE DEF new
<1>2. ASSUME NEW id, NEW n, Announced(job, id, n) PROVE Announced(job', id, n)
  BY <1>0, <1>2 DEF Announced
<1>3. Announced(job', new, job[j].name)
  BY <1>0 DEF Announced
<1>4. Origins'
  <2>1. \A id \in DOMAIN sessions' : Announced(job', id, sessions'[id].name)
    BY <1>0, <1>2, <1>3 DEF Inv, Origins
  <2>2. \A id \in DOMAIN active' : Announced(job', id, active'[id])
    BY <1>0, <1>2 DEF Inv, Origins
  <2> QED
    BY <2>1, <2>2 DEF Origins
<1>5. NoGaps' /\ LastIsStored' /\ OpenWhileActive'
  BY <1>1, <1>0 DEF Inv, NoGaps, LastIsStored, OpenWhileActive, TypeOK
<1>7. ProgressCoversStored'
  <2>1. Cardinality({}) = 0
    BY FS_EmptySet
  <2>2. \A id \in DOMAIN sessions' : sessions'[id].bytes >= Cardinality(stored'[id])
    <3> TAKE id \in DOMAIN sessions'
    <3>1. CASE id = new
      <4>1. sessions'[id].bytes = 0 /\ Cardinality(stored'[id]) = 0
        BY <1>0, <2>1, <3>1
      <4> QED
        BY <4>1
    <3>2. CASE id # new
      <4>1. sessions'[id] = sessions[id] /\ stored'[id] = stored[id] /\ id \in DOMAIN sessions
        BY <1>0, <3>2
      <4> QED
        BY <4>1 DEF Inv, ProgressCoversStored
    <3> QED
      BY <3>1, <3>2
  <2> QED
    BY <2>2 DEF ProgressCoversStored
<1> QED
  BY <1>1, <1>4, <1>5, <1>7 DEF Inv

\* The file a chunk goes to was announced under the chunk's ID.
LEMMA TargetIsAnnounced ==
  ASSUME Inv, NEW id \in DOMAIN sessions
  PROVE  Announced(job, id, Target(id))
  BY DEF Inv, Origins, Target

LEMMA StoredFinite ==
  ASSUME TypeOK, NEW id \in DOMAIN sessions
  PROVE  IsFiniteSet(stored[id]) /\ Cardinality(stored[id]) \in Nat
<1>1. IsFiniteSet(Places)
  BY FS_Interval, EngineAssumption DEF Places
<1> QED
  BY <1>1, FS_Subset, FS_CardinalityType DEF TypeOK

LEMMA StoreInv ==
  ASSUME Inv, NEW id, NEW i, NEW data \in Chunks, StoreChunk(id, i, data)
  PROVE  Inv'
<1>1. TypeOK /\ TypeOK'
  BY StoreTypes DEF Inv
<1>2. /\ id \in DOMAIN sessions /\ i \in Nat /\ i \in Places /\ Target(id) \in Names
      /\ stored[id] \subseteq Nat
  BY <1>1, ChunkInPlace DEF StoreChunk, AllOf, Places, TypeOK
<1>3. Announced(job, id, Target(id)) /\ job' = job
  BY <1>1, <1>2, TargetIsAnnounced, StoreFiles
<1>4. Origins'
  <2>1. \A x \in DOMAIN sessions' : Announced(job', x, sessions'[x].name)
    BY <1>1, <1>2, <1>3, StoreEffect DEF Inv, Origins
  <2>2. \A x \in DOMAIN active' : Announced(job', x, active'[x])
    BY <1>1, <1>2, <1>3, StoreFiles DEF Inv, Origins
  <2> QED
    BY <2>1, <2>2 DEF Origins
<1>5. NoGaps'
  <2> SUFFICES ASSUME NEW x \in DOMAIN sessions', x \notin skipped', NEW k \in stored'[x]
               PROVE  0..k \subseteq stored'[x]
    BY DEF NoGaps
  <2>1. CASE x # id
    BY <1>1, <2>1, StoreEffect, StoreFiles DEF Inv, NoGaps
  <2>2. CASE x = id /\ k \in stored[id]
    BY <1>1, <1>2, <2>2, StoreFiles DEF Inv, NoGaps
  <2>3. CASE x = id /\ k = i
    <3>1. i = 0 \/ 0..(i - 1) \subseteq stored[id]
      BY <1>1, <1>2, <2>3, StoreFiles DEF Inv, NoGaps
    <3>2. 0..i \subseteq 0..(i - 1) \cup {i}
      BY <1>2
    <3>3. i = 0 => 0..i \subseteq {i}
      OBVIOUS
    <3> QED
      BY <1>1, <2>3, <3>1, <3>2, <3>3, StoreFiles
  <2> QED
    BY <1>1, <2>1, <2>2, <2>3, StoreFiles
<1>6. LastIsStored'
  BY <1>1, <1>2, StoreEffect, StoreFiles DEF Inv, LastIsStored
<1>7. OpenWhileActive'
  BY <1>1, <1>2, StoreEffect, StoreFiles DEF Inv, OpenWhileActive
<1>9. ProgressCoversStored'
  <2> SUFFICES ASSUME NEW x \in DOMAIN sessions'
               PROVE  sessions'[x].bytes >= Cardinality(stored'[x])
    BY DEF ProgressCoversStored
  <2>1. CASE x # id
    BY <1>1, <2>1, StoreEffect, StoreFiles DEF Inv, ProgressCoversStored
  <2>2. CASE x = id
    <3>1. IsFiniteSet(stored[id]) /\ Cardinality(stored[id]) \in Nat
      BY <1>1, <1>2, StoredFinite
    <3>2. Cardinality(stored[id] \cup {i}) <= Cardinality(stored[id]) + 1
      BY <3>1, FS_AddElement
    <3>3. Cardinality(stored[id] \cup {i}) \in Nat
      BY <3>1, FS_AddElement
    <3>4. sessions[id].bytes >= Cardinality(stored[id]) /\ sessions[id].bytes \in Nat
      BY <1>1, <1>2, EngineAssumption DEF Inv, ProgressCoversStored, TypeOK, Session
    <3>5. sessions'[id].bytes = sessions[id].bytes + 1 /\ stored'[id] = stored[id] \cup {i}
      BY <1>1, StoreEffect, StoreFiles
    <3> QED
      BY <2>2, <3>1, <3>2, <3>3, <3>4, <3>5
  <2> QED
    BY <2>1, <2>2
<1> QED
  BY <1>1, <1>4, <1>5, <1>6, <1>7, <1>9 DEF Inv

LEMMA FailInv ==
  ASSUME Inv, NEW id, NEW i, NEW data \in Chunks, WriteFails(id, i, data)
  PROVE  Inv'
<1>1. TypeOK /\ TypeOK'
  BY FailTypes DEF Inv
<1>2. id \in DOMAIN sessions
  BY <1>1, ChunkInPlace DEF WriteFails
<1>3. active' = Bind(active, id, Target(id)) /\ UNCHANGED <<job, sessions, stored, skipped>>
  BY DEF WriteFails
<1>4. /\ DOMAIN active' = DOMAIN active \cup {id} /\ active'[id] = Target(id)
      /\ \A x \in DOMAIN active : x # id => active'[x] = active[x]
  BY <1>3 DEF Bind
<1>5. Announced(job, id, Target(id))
  BY <1>2, TargetIsAnnounced
<1>6. Origins'
  <2>1. \A x \in DOMAIN active' : Announced(job', x, active'[x])
    BY <1>3, <1>4, <1>5 DEF Inv, Origins
  <2> QED
    BY <1>3, <2>1 DEF Inv, Origins
<1>7. NoGaps' /\ LastIsStored' /\ OpenWhileActive' /\ ProgressCoversStored'
  BY <1>3, <1>4 DEF Inv, NoGaps, LastIsStored, OpenWhileActive, ProgressCoversStored
<1> QED
  BY <1>1, <1>6, <1>7 DEF Inv

\* A step that only moves calls on, none of them to or from "done", or that
\* touches nothing the invariant beyond TypeOK speaks of.
LEMMA QuietInv ==
  ASSUME Inv, TypeOK', UNCHANGED <<sessions, active, stored, skipped>>,
         \A j \in Jobs : (job'[j].pc = "done" \/ job[j].pc = "done") => job'[j] = job[j]
  PROVE  Inv'
<1>1. Origins'
  <2>1. ASSUME NEW id, NEW n, Announced(job, id, n) PROVE Announced(job', id, n)
    BY <2>1 DEF Announced
  <2>2. /\ \A id \in DOMAIN sessions : Announced(job', id, sessions[id].name)
        /\ \A id \in DOMAIN active : Announced(job', id, active[id])
    BY <2>1 DEF Inv, Origins
  <2> QED
    BY <2>2 DEF Origins
<1>2. NoGaps' /\ LastIsStored' /\ OpenWhileActive' /\ ProgressCoversStored'
  BY DEF Inv, NoGaps, LastIsStored, OpenWhileActive, ProgressCoversStored
<1> QED
  BY <1>1, <1>2 DEF Inv

\* A restart forgets every session; the files on disk are nobody's.
LEMMA RestartInv ==
  ASSUME Inv, Restart
  PROVE  Inv'
<1>1. TypeOK'
  BY RestartTypes DEF Inv
<1>2. DOMAIN sessions' = {} /\ DOMAIN active' = {}
  BY DEF Restart
<1> QED
  BY <1>1, <1>2 DEF Inv, Origins, NoGaps, LastIsStored, OpenWhileActive, ProgressCoversStored

\* Neither the stat of a file nor the hashing of a chunk announces anything.
LEMMA QuietCall ==
  ASSUME TypeOK, NEW j \in Jobs, HashChunk(j) \/ \E n \in Names : Stat(j, n)
  PROVE  /\ UNCHANGED <<sessions, active, disk, stored, skipped>>
         /\ \A k \in Jobs : (job'[k].pc = "done" \/ job[k].pc = "done") => job'[k] = job[k]
<1>1. CASE HashChunk(j)
  BY <1>1 DEF HashChunk, engineVars, TypeOK, Job
<1>2. ASSUME NEW n \in Names, Stat(j, n)
      PROVE  /\ UNCHANGED engineVars /\ job[j].pc # "done" /\ job'[j].pc # "done"
             /\ \A k \in Jobs : k # j => job'[k] = job[k]
  BY <1>2 DEF Stat, TypeOK, IdleJob
<1> QED
  BY <1>1, <1>2 DEF engineVars

LEMMA InvStep == Inv /\ [Next]_vars => Inv'
<1> SUFFICES ASSUME Inv, [Next]_vars PROVE Inv'
  OBVIOUS
<1>1. TypeOK /\ TypeOK'
  BY TypeStep DEF Inv
<1>2. ASSUME NEW j \in Jobs, Prepare(j) PROVE Inv'
  <2>1. CASE Register(j)
    BY <2>1, RegisterInv
  <2>2. CASE HashChunk(j) \/ \E n \in Names : Stat(j, n)
    BY <1>1, <2>2, QuietCall, QuietInv
  <2> QED
    BY <1>2, <2>1, <2>2 DEF Prepare
<1>3. ASSUME NEW id \in DOMAIN sessions, NEW i \in Places, Incoming(id, i) PROVE Inv'
  <2>1. CASE IndexPanics(id, i)
    BY <1>1, <2>1, QuietInv DEF IndexPanics
  <2> QED
    BY <1>3, <2>1, StoreInv, FailInv DEF Incoming
<1>4. ASSUME (\E n \in Names, content \in Contents : Edit(n, content)) \/ Tick \/ UNCHANGED vars
      PROVE  Inv'
  <2>1. UNCHANGED <<job, sessions, active, disk, stored, skipped>>
    BY <1>4 DEF Edit, Tick, vars, engineVars
  <2> QED
    BY <1>1, <2>1, QuietInv
<1> QED
  BY <1>2, <1>3, <1>4, RestartInv DEF Next

LEMMA Invariance == Spec => []Inv
  BY InitInv, InvStep, PTL DEF Spec

-----------------------------------------------------------------------------
\* The files on disk as VerifiedFiles.tla sees them: each step of the engine
\* is one of that module, or leaves its variables alone.

Book == [id \in DOMAIN sessions |-> sessions[id].hashes]

Claims == {<<job[j].id, job[j].name>> : j \in {k \in Jobs : job[k].pc = "done"}}

FilesStep == [VF!VFNext]_<<Book, Claims, stored, disk>>

LEMMA RegisterAnnounces ==
  ASSUME Inv, NEW j \in Jobs, Register(j)
  PROVE  FilesStep
<1> DEFINE new == FileID(j)
<1>1. /\ TypeOK /\ job[j].name \in Names
      /\ sessions' = Bind(sessions, new, NewSession(j))
      /\ stored' = Bind(stored, new, {}) /\ UNCHANGED disk
  BY DEF Inv, TypeOK, Register
<1>2. Claims' = Claims \cup {<<new, job[j].name>>}
  <2>1. /\ job'[j].pc = "done" /\ job'[j].id = new /\ job'[j].name = job[j].name
        /\ job[j].pc # "done" /\ \A k \in Jobs : k # j => job'[k] = job[k]
    BY <1>1, RegisterEffect
  <2> HIDE DEF new
  <2> QED
    BY <2>1 DEF Claims
<1>3. NewSession(j).hashes = job[j].hashes
  BY DEF NewSession
<1> HIDE DEF new
<1>4. /\ DOMAIN Book' = DOMAIN Book \cup {new} /\ new \in DOMAIN Book'
      /\ Book' = VF!Entered(Book, new, Book'[new])
  BY <1>1, <1>3 DEF Book, Bind, VF!Entered
<1>5. stored' = VF!Entered(stored, new, {})
  BY <1>1 DEF Bind, VF!Entered
<1>6. \E id \in DOMAIN Book', n \in Names :
        /\ UNCHANGED disk /\ stored' = VF!Entered(stored, id, {})
        /\ Claims' = Claims \cup {<<id, n>>} /\ Book' = VF!Entered(Book, id, Book'[id])
  BY <1>1, <1>2, <1>4, <1>5
<1> QED
  BY <1>6 DEF FilesStep, VF!VFNext, VF!Announce, Book, Claims

LEMMA IncomingWrites ==
  ASSUME Inv, NEW id, NEW i, NEW data \in Chunks, StoreChunk(id, i, data) \/ WriteFails(id, i, data)
  PROVE  FilesStep
<1>1. /\ TypeOK /\ id \in DOMAIN sessions /\ i \in Places /\ Target(id) \in Names
      /\ i < Len(sessions[id].hashes) /\ sessions[id].hashes[i + 1] = data
      /\ sessions[id].hashes \in Seq(Chunks) /\ UNCHANGED job
  BY ChunkInPlace DEF Inv, StoreChunk, WriteFails, Verified, Session
<1>2. i + 1 \in DOMAIN sessions[id].hashes
  BY <1>1, EngineAssumption DEF Places
<1>3. Book' = Book /\ Claims' = Claims
  <2>1. CASE StoreChunk(id, i, data)
    BY <1>1, <2>1, StoreEffect DEF Book, Claims
  <2>2. CASE WriteFails(id, i, data)
    BY <2>2 DEF WriteFails, Book, Claims
  <2> QED
    BY <2>1, <2>2
<1>4. PICK claim \in Claims : claim[1] = id /\ claim[2] = Target(id)
  <2>1. Announced(job, id, Target(id))
    BY <1>1, TargetIsAnnounced
  <2>2. PICK j \in Jobs : job[j].pc = "done" /\ job[j].id = id /\ job[j].name = Target(id)
    BY <2>1 DEF Announced
  <2>3. <<id, Target(id)>> \in Claims
    BY <2>2 DEF Claims
  <2> QED
    BY <2>3
<1>5. CASE StoreChunk(id, i, data)
  <2>1. VF!Write(claim[1], claim[2], i)
    BY <1>1, <1>2, <1>3, <1>4, <1>5 DEF StoreChunk, VF!Write, VF!Listed, Book, Claims
  <2> QED
    BY <1>1, <2>1 DEF FilesStep, VF!VFNext, Claims
<1>6. CASE WriteFails(id, i, data)
  <2>1. CASE UNCHANGED disk
    BY <1>3, <1>6, <2>1 DEF WriteFails, FilesStep
  <2>2. CASE disk' = [disk EXCEPT ![Target(id)][i] = IF @ = data THEN @ ELSE Torn]
    <3>1. CASE disk[Target(id)][i] = data
      <4>1. disk' = disk
        BY <1>1, <2>2, <3>1 DEF TypeOK
      <4> QED
        BY <1>3, <1>6, <4>1 DEF WriteFails, FilesStep
    <3>2. CASE disk[Target(id)][i] # data
      <4>1. disk' = [disk EXCEPT ![Target(id)][i] = Torn]
        BY <1>1, <2>2, <3>2 DEF TypeOK
      <4>2. VF!Spoil(claim[1], claim[2], i)
        BY <1>1, <1>2, <1>3, <1>4, <1>6, <3>2, <4>1
        DEF WriteFails, VF!Spoil, VF!Listed, Book, Claims
      <4> QED
        BY <1>1, <4>2 DEF FilesStep, VF!VFNext, Claims
    <3> QED
      BY <3>1, <3>2
  <2> QED
    BY <1>6, <2>1, <2>2 DEF WriteFails
<1> QED
  BY <1>5, <1>6

LEMMA NextFiles == Inv /\ [Next]_vars => FilesStep
<1> SUFFICES ASSUME Inv, [Next]_vars PROVE FilesStep
  OBVIOUS
<1>1. ASSUME UNCHANGED <<sessions, stored, disk>>,
             \A j \in Jobs : (job'[j].pc = "done" \/ job[j].pc = "done") => job'[j] = job[j]
      PROVE  FilesStep
  BY <1>1 DEF FilesStep, Book, Claims
<1>2. ASSUME NEW j \in Jobs, HashChunk(j) \/ \E n \in Names : Stat(j, n) PROVE FilesStep
  BY <1>1, <1>2, QuietCall DEF Inv
<1>3. ASSUME NEW id \in DOMAIN sessions, NEW i \in Places, Incoming(id, i) PROVE FilesStep
  BY <1>1, <1>3, IncomingWrites DEF Incoming, IndexPanics
<1>4. CASE Restart
  <2>1. VF!Forget
    <3>1. Claims' = {}
      BY <1>4 DEF Restart, IdleJob, Claims
    <3>2. Book' = [id \in {} |-> Absent]
      BY <1>4 DEF Restart, Book
    <3> QED
      BY <1>4, <3>1, <3>2 DEF Restart, VF!Forget, Book, Claims
  <2> QED
    BY <2>1 DEF FilesStep, VF!VFNext
<1>5. ASSUME (\E n \in Names, content \in Contents : Edit(n, content)) \/ Tick \/ UNCHANGED vars
      PROVE  FilesStep
  BY <1>1, <1>5 DEF Edit, Tick, vars, engineVars
<1> QED
  BY <1>2, <1>3, <1>4, <1>5, RegisterAnnounces DEF Next, Prepare

-----------------------------------------------------------------------------
\* A session in transfer has its file open and a pending one has stored
\* nothing, after any duplicate, failed write or re-registration
\* (engine.go:176-185, 199-206).
THEOREM OpenFiles == Spec => []OpenWhileActive
<1>1. Inv => OpenWhileActive
  BY DEF Inv
<1> QED
  BY <1>1, Invariance, PTL

\* The engine implements the files of VerifiedFiles.tla, whatever calls overlap
\* and wherever the program restarts (engine.go:81-209).
THEOREM ImplementsVerifiedFiles == Spec => ImplementsFiles
<1>1. Init => VF!VFInit
  BY DEF Init, VF!VFInit, IdleJob
<1>2. Inv /\ [Next]_vars => [VF!VFNext]_(VF!vfVars)
  BY NextFiles DEF FilesStep, VF!vfVars, Book, Claims
<1> QED
  BY <1>1, <1>2, Invariance, PTL DEF Spec, ImplementsFiles, VF!VFSpec

VFP == INSTANCE VerifiedFilesProofs WITH
         manifest <- Book, claims <- Claims, verified <- stored, page <- disk

\* What an unshared session has stored is on disk as its manifest says: the
\* theorem about VerifiedFiles, carried over by the refinement
\* (engine.go:166-191).
THEOREM OnDisk == Spec => []StoredIsOnDisk
<1>1. VF!VFInit => VFP!VFInit
  BY DEF VF!VFInit, VFP!VFInit, Book, Claims
<1>2. [VF!VFNext]_(VF!vfVars) => [VFP!VFNext]_(VFP!vfVars)
  BY DEF VF!VFNext, VFP!VFNext, VF!vfVars, VFP!vfVars, Book, Claims,
         VF!Announce, VFP!Announce, VF!Entered, VFP!Entered, VF!Write, VFP!Write,
         VF!Spoil, VFP!Spoil, VF!Listed, VFP!Listed, VF!Forget, VFP!Forget
<1>3. ImplementsFiles => VFP!VFSpec
  BY <1>1, <1>2, PTL DEF ImplementsFiles, VF!VFSpec, VFP!VFSpec
<1>4. Inv /\ VFP!Kept => StoredIsOnDisk
  <2> SUFFICES ASSUME Inv, VFP!Kept, NEW id \in DOMAIN sessions, Exclusive(id), NEW i \in stored[id]
               PROVE  disk[sessions[id].name][i] = sessions[id].hashes[i + 1]
    BY DEF StoredIsOnDisk
  <2>1. sessions[id].name \in Names
    BY DEF Inv, TypeOK, Session
  <2>2. VFP!Sole(id, sessions[id].name)
    <3>1. PICK j \in Jobs : job[j].pc = "done" /\ job[j].id = id /\ job[j].name = sessions[id].name
      BY DEF Inv, Origins, Announced
    <3> QED
      BY <3>1 DEF VFP!Sole, Claims, Exclusive
  <2> QED
    BY <2>1, <2>2 DEF VFP!Kept, Book
<1> QED
  BY <1>3, <1>4, VFP!KeptAlways, ImplementsVerifiedFiles, Invariance, PTL

\* BytesTransferred never lags behind what is stored (engine.go:195).
THEOREM ProgressCovers == Spec => []ProgressCoversStored
<1>1. Inv => ProgressCoversStored
  BY DEF Inv
<1> QED
  BY <1>1, Invariance, PTL

\* A session whose chunks came in order is COMPLETED only when it has all of
\* them (engine.go:194-206).
THEOREM InOrderWhole == Spec => []InOrderIsWhole
<1>1. Inv => InOrderIsWhole
  <2> SUFFICES ASSUME Inv, NEW id \in DOMAIN sessions,
                      sessions[id].state = "COMPLETED", id \notin skipped
               PROVE  stored[id] = AllOf(id)
    BY DEF InOrderIsWhole
  <2>1. stored[id] \subseteq AllOf(id)
    BY DEF Inv, TypeOK
  <2>2. sessions[id].total - 1 \in stored[id]
    BY DEF Inv, LastIsStored
  <2>3. 0..(sessions[id].total - 1) \subseteq stored[id]
    BY <2>2 DEF Inv, NoGaps
  <2> QED
    BY <2>1, <2>3 DEF AllOf
<1> QED
  BY <1>1, Invariance, PTL

-----------------------------------------------------------------------------
\* The engine at its best: every manifest is the file it was made from.

\* h is the first m chunks of content.
Opening(h, content, m) == Len(h) = m /\ \A k \in 1..m : h[k] = content[k]

Faithful ==
  /\ \A n \in Names : file[n] # <<>>
  /\ \A j \in Jobs : job[j].pc = "hashing" =>
       /\ job[j].total = Len(file[job[j].name])
       /\ Opening(job[j].hashes, file[job[j].name], job[j].read)
  /\ \A id \in DOMAIN sessions :
       /\ sessions[id].total = Len(file[sessions[id].name])
       /\ Opening(sessions[id].hashes, file[sessions[id].name], sessions[id].total)

Calm == TypeOK /\ Faithful /\ ~stuck

LEMMA StatFaithful ==
  ASSUME Calm, NEW j \in Jobs, NEW n \in Names, Stat(j, n)
  PROVE  Faithful'
<1>1. /\ TypeOK /\ Faithful /\ UNCHANGED <<file, sessions>>
      /\ \A k \in Jobs : k # j => job'[k] = job[k]
  BY DEF Calm, Stat, fileVars, engineVars, TypeOK
<1>2. file[n] \in Seq(Chunks) /\ Len(file[n]) > 0
  <2>1. file[n] \in Seq(Chunks) /\ file[n] # <<>>
    BY <1>1, EngineAssumption DEF TypeOK, Faithful
  <2> QED
    BY <2>1
<1>3. /\ job'[j].total = Len(file[n]) /\ job'[j].name = n
      /\ job'[j].hashes = <<>> /\ job'[j].read = 0
  BY <1>1, <1>2 DEF Stat, IdleJob, TotalChunks, TypeOK
<1>4. Opening(job'[j].hashes, file[n], job'[j].read)
  BY <1>3 DEF Opening
<1> QED
  BY <1>1, <1>3, <1>4 DEF Faithful

LEMMA HashFaithful ==
  ASSUME Calm, NEW j \in Jobs, HashChunk(j)
  PROVE  Faithful'
<1> DEFINE content == file[job[j].name]
           i == job[j].read + 1
<1>1. /\ TypeOK /\ Faithful /\ UNCHANGED <<file, sessions>>
      /\ job[j].pc = "hashing" /\ job[j].read < job[j].total /\ job[j] \in Job
      /\ \A k \in Jobs : k # j => job'[k] = job[k]
  BY DEF Calm, HashChunk, fileVars, engineVars, TypeOK
<1>2. /\ content \in Seq(Chunks) /\ job[j].hashes \in Seq(Chunks) /\ job[j].read \in Nat
      /\ job[j].total = Len(content) /\ Opening(job[j].hashes, content, job[j].read)
  BY <1>1, EngineAssumption DEF TypeOK, Faithful, Job
<1>3. /\ Len(job[j].hashes) + 1 = i
      /\ i <= Len(content) /\ content[i] \in Chunks
  BY <1>1, <1>2, EngineAssumption DEF Job, Opening
<1>4. /\ job'[j].total = job[j].total /\ job'[j].name = job[j].name
      /\ job'[j].read = i /\ job'[j].hashes = Append(job[j].hashes, content[i])
  <2>1. job' = [job EXCEPT ![j] = [job[j] EXCEPT !.read = i,
                                     !.hashes = Append(job[j].hashes, content[i])]]
    BY <1>1, <1>3 DEF HashChunk, TypeOK
  <2> HIDE DEF i, content
  <2> QED
    BY <1>1, <2>1 DEF TypeOK, Job
<1>5. Opening(job'[j].hashes, content, job'[j].read)
  BY <1>2, <1>3, <1>4 DEF Opening
<1> QED
  BY <1>1, <1>2, <1>4, <1>5 DEF Faithful

LEMMA RegisterFaithful ==
  ASSUME Calm, NEW j \in Jobs, Register(j)
  PROVE  Faithful'
<1> DEFINE new == FileID(j)
<1>1. /\ TypeOK /\ Faithful /\ UNCHANGED file /\ job[j].pc = "hashing"
      /\ job[j].read = job[j].total /\ sessions' = Bind(sessions, new, NewSession(j))
  BY DEF Calm, Register, fileVars
<1>2. /\ NewSession(j).name = job[j].name /\ NewSession(j).total = job[j].total
      /\ NewSession(j).hashes = job[j].hashes
  BY DEF NewSession
<1>3. job'[j].pc = "done" /\ \A k \in Jobs : k # j => job'[k] = job[k]
  BY <1>1, RegisterEffect
<1> HIDE DEF new
<1>4. /\ DOMAIN sessions' = DOMAIN sessions \cup {new} /\ sessions'[new] = NewSession(j)
      /\ \A x \in DOMAIN sessions : x # new => sessions'[x] = sessions[x]
  BY <1>1 DEF Bind
<1> QED
  BY <1>1, <1>2, <1>3, <1>4 DEF Faithful

\* A chunk changes no manifest, and finds a hash for its index.
LEMMA IncomingFaithful ==
  ASSUME Calm, NEW id \in DOMAIN sessions, NEW i \in Places, Incoming(id, i)
  PROVE  Faithful' /\ ~stuck'
<1>1. /\ TypeOK /\ Faithful /\ ~stuck
  BY DEF Calm
<1>2. ~IndexPanics(id, i)
  <2>1. Len(sessions[id].hashes) = sessions[id].total /\ sessions[id].total \in Nat
    BY <1>1, EngineAssumption DEF Faithful, Opening, TypeOK, Session
  <2> QED
    BY <2>1 DEF IndexPanics, InBounds
<1>3. ASSUME NEW data \in Chunks, StoreChunk(id, i, data) PROVE Faithful' /\ ~stuck'
  <2>1. UNCHANGED <<file, job, stuck>>
    BY <1>3 DEF StoreChunk, fileVars
  <2>2. \A x \in DOMAIN sessions' :
          /\ x \in DOMAIN sessions /\ sessions'[x].name = sessions[x].name
          /\ sessions'[x].total = sessions[x].total /\ sessions'[x].hashes = sessions[x].hashes
    BY <1>1, <1>3, StoreEffect
  <2> QED
    BY <1>1, <2>1, <2>2 DEF Faithful
<1>4. ASSUME NEW data \in Chunks, WriteFails(id, i, data) PROVE Faithful' /\ ~stuck'
  BY <1>1, <1>4 DEF WriteFails, fileVars, Faithful
<1> QED
  BY <1>2, <1>3, <1>4 DEF Incoming

LEMMA CalmStep == Calm /\ [Next /\ UNCHANGED file]_vars => Calm'
<1> SUFFICES ASSUME Calm, [Next /\ UNCHANGED file]_vars PROVE Calm'
  OBVIOUS
<1>1. TypeOK /\ Faithful /\ ~stuck /\ TypeOK'
  BY TypeStep DEF Calm
<1>2. CASE UNCHANGED <<file, job, sessions, stuck>>
  <2>1. Faithful'
    BY <1>1, <1>2 DEF Faithful
  <2>2. ~stuck'
    BY <1>1, <1>2, Zenon
  <2> QED
    BY <1>1, <2>1, <2>2, Zenon DEF Calm
<1>3. ASSUME NEW j \in Jobs, Prepare(j) PROVE Calm'
  <2>1. Faithful'
    BY <1>1, <1>3, StatFaithful, HashFaithful, RegisterFaithful DEF Prepare
  <2>2. ~stuck'
    BY <1>1, <1>3, Zenon DEF Prepare, HashChunk, Register, Stat, engineVars
  <2> QED
    BY <1>1, <2>1, <2>2, Zenon DEF Calm
<1>4. ASSUME NEW id \in DOMAIN sessions, NEW i \in Places, Incoming(id, i) PROVE Calm'
  BY <1>1, <1>4, IncomingFaithful, Zenon DEF Calm
<1>5. CASE Restart
  <2>1. Faithful'
    BY <1>1, <1>5 DEF Restart, IdleJob, Faithful
  <2>2. ~stuck'
    BY <1>5, Zenon DEF Restart
  <2> QED
    BY <1>1, <2>1, <2>2, Zenon DEF Calm
<1>6. ASSUME (\E n \in Names, content \in Contents : Edit(n, content)) \/ Tick \/ UNCHANGED vars,
             UNCHANGED file
      PROVE  UNCHANGED <<file, job, sessions, stuck>>
  BY <1>6, Zenon DEF Edit, Tick, vars, fileVars, engineVars
<1>7. UNCHANGED vars => UNCHANGED file
  BY DEF vars, fileVars
<1> QED
  BY <1>2, <1>3, <1>4, <1>5, <1>6, <1>7, Zenon DEF Next

\* When files stay as they are and none is empty, no call panics, and what a
\* completed session received in order is the file, chunk for chunk, on disk
\* (engine.go:81-209).
THEOREM UndisturbedArrives == Undisturbed => []FileArrives
<1>1. Init /\ (\A n \in Names : file[n] # <<>>) => Calm
  <2> SUFFICES ASSUME Init, \A n \in Names : file[n] # <<>> PROVE Calm
    OBVIOUS
  <2>1. DOMAIN sessions = {} /\ \A j \in Jobs : job[j].pc = "idle"
    BY DEF Init, IdleJob
  <2>2. ~stuck
    BY DEF Init
  <2> QED
    BY <2>1, <2>2, InitTypes DEF Calm, Faithful
<1>2. Undisturbed => []Calm
  BY <1>1, CalmStep, PTL DEF Undisturbed
<1>3. Undisturbed => Spec
  <2>1. [Next /\ UNCHANGED file]_vars => [Next]_vars
    OBVIOUS
  <2> QED
    BY <2>1, PTL DEF Undisturbed, Spec
<1>4. Calm /\ StoredIsOnDisk /\ InOrderIsWhole => FileArrives
  <2> SUFFICES ASSUME Calm, StoredIsOnDisk, InOrderIsWhole
               PROVE  FileArrives
    OBVIOUS
  <2> SUFFICES ASSUME NEW id \in DOMAIN sessions, sessions[id].state = "COMPLETED",
                      id \notin skipped, Exclusive(id),
                      NEW i \in 1..Len(file[sessions[id].name])
               PROVE  disk[sessions[id].name][i - 1] = file[sessions[id].name][i]
    BY DEF Calm, FileArrives
  <2>1. sessions[id].total = Len(file[sessions[id].name]) /\ sessions[id].total \in Nat
    BY EngineAssumption DEF Calm, Faithful, TypeOK, Session
  <2>2. sessions[id].hashes[i] = file[sessions[id].name][i]
    BY <2>1 DEF Calm, Faithful, Opening
  <2>3. i - 1 \in stored[id]
    BY <2>1 DEF InOrderIsWhole, AllOf
  <2>4. disk[sessions[id].name][i - 1] = sessions[id].hashes[(i - 1) + 1]
    BY <2>3 DEF StoredIsOnDisk
  <2> QED
    BY <2>2, <2>4
<1> QED
  BY <1>2, <1>3, <1>4, OnDisk, InOrderWhole, PTL
=============================================================================
