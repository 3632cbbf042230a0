-------------------------- MODULE QueueStackProofs --------------------------
(***************************************************************************)
(* Proofs about queue_job as a whole: for any servers and databases, what  *)
(* the runners remember, and that only the one that holds the lock of a    *)
(* database asks for its jobs; for any configuration, that a job's channel *)
(* bounds it by what its name goes through; and that the parts keep in the *)
(* whole what is proved of them.                                           *)
(***************************************************************************)
EXTENDS QueueStack, QueueJobProofs, JobGraphProofs

-----------------------------------------------------------------------------
(* The election of the runner, for any servers and databases               *)

(* Whose session is open holds the lock.                                   *)
OpenHolds ==
    \A r \in Servers, d \in Databases : session[r][d] = "open" => master[d] = r

(* The databases are connected in their order.                             *)
ConnectedInOrder ==
    \A r \in Servers, d \in Databases, e \in Databases :
        e <= d /\ session[r][d] # "none" => session[r][e] # "none"

IsLoading(r, d) == phase[r] = "loading" /\ d = Loading(r)

(* Of a database whose jobs have not been read nothing is remembered; of   *)
(* the others what the row says, unless there is a notification to read.   *)
NothingBefore ==
    \A r \in Servers, d \in Databases :
        session[r][d] = "none" \/ IsLoading(r, d) => known[r][d] = "nothing"

LoadedIsCurrent ==
    \A r \in Servers, d \in Databases :
        session[r][d] = "open" /\ <<r, d>> \notin inbox /\ ~IsLoading(r, d)
            => known[r][d] = Memory(record[d])

(* A runner that is to read jobs has a session with their database.        *)
LoadingConnected ==
    \A r \in Servers :
        phase[r] = "loading" => Loading(r) \in Databases /\ session[r][Loading(r)] # "none"

ElectionInv ==
    /\ ElectionTypeOK /\ OpenHolds /\ ConnectedInOrder
    /\ LoadingConnected /\ NothingBefore /\ LoadedIsCurrent

-----------------------------------------------------------------------------
(* A runner closes its sessions.                                           *)
LEMMA CloseKeeps ==
    ASSUME ElectionInv, NEW r \in Servers, CloseDatabases(r),
           NEW state \in {"off", "sleeping"}, phase' = [phase EXCEPT ![r] = state],
           record' = record, requests' = requests, troubles' \in 0 .. MaxTroubles
    PROVE  ElectionInv'
<1>1. /\ phase \in [Servers -> {"off", "starting", "loading", "looping", "sleeping"}]
      /\ session \in [Servers -> [Databases -> {"none", "open", "cut"}]]
      /\ master \in [Databases -> Servers \cup {Nobody}]
      /\ known \in [Servers -> [Databases -> {"nothing", "pending", "running"}]]
      /\ inbox \subseteq Servers \X Databases
  BY DEF ElectionInv, ElectionTypeOK
<1>2. /\ session' = [session EXCEPT ![r] = [d \in Databases |-> "none"]]
      /\ master' = [d \in Databases |-> IF session[r][d] = "open" THEN Nobody ELSE master[d]]
      /\ inbox' = {m \in inbox : m[1] # r}
      /\ known' = [known EXCEPT ![r] = [d \in Databases |-> "nothing"]]
  BY DEF CloseDatabases, Forgotten
<1>3. \A s \in Servers : /\ s # r => session'[s] = session[s] /\ known'[s] = known[s] /\ phase'[s] = phase[s]
                         /\ s = r => phase'[s] = state /\ \A d \in Databases : session'[s][d] = "none" /\ known'[s][d] = "nothing"
  BY <1>1, <1>2
<1>4. ElectionTypeOK'
  <2>1. session' \in [Servers -> [Databases -> {"none", "open", "cut"}]]
    BY <1>1, <1>2
  <2>2. known' \in [Servers -> [Databases -> {"nothing", "pending", "running"}]]
    BY <1>1, <1>2
  <2>3. master' \in [Databases -> Servers \cup {Nobody}]
    BY <1>1, <1>2
  <2>4. phase' \in [Servers -> {"off", "starting", "loading", "looping", "sleeping"}]
    BY <1>1
  <2>5. inbox' \subseteq Servers \X Databases
    BY <1>1, <1>2
  <2> QED
    BY <2>1, <2>2, <2>3, <2>4, <2>5 DEF ElectionInv, ElectionTypeOK
<1>5. OpenHolds'
  <2> SUFFICES ASSUME NEW s \in Servers, NEW d \in Databases, session'[s][d] = "open" PROVE master'[d] = s
    BY DEF OpenHolds
  <2>1. s # r /\ session[s][d] = "open"
    BY <1>3
  <2>2. master[d] = s
    BY <2>1 DEF ElectionInv, OpenHolds
  <2>3. session[r][d] # "open"
    BY <2>1, <2>2 DEF ElectionInv, OpenHolds
  <2> QED
    BY <1>2, <2>2, <2>3
<1>6. ConnectedInOrder'
  BY <1>3 DEF ElectionInv, ConnectedInOrder
<1>7. \A s \in Servers \ {r} : Loading(s)' = Loading(s)
  <2> SUFFICES ASSUME NEW s \in Servers \ {r} PROVE Loading(s)' = Loading(s)
    OBVIOUS
  <2>1. session'[s] = session[s]
    BY <1>3
  <2>2. Unconnected(s)' = Unconnected(s)
    BY <2>1 DEF Unconnected
  <2> QED
    BY <2>2 DEF Loading
<1>8. NothingBefore'
  <2> SUFFICES ASSUME NEW s \in Servers, NEW d \in Databases,
                      session'[s][d] = "none" \/ (phase'[s] = "loading" /\ d = Loading(s)')
               PROVE  known'[s][d] = "nothing"
    BY DEF NothingBefore, IsLoading
  <2> QED
    BY <1>3, <1>7 DEF ElectionInv, NothingBefore, IsLoading
<1>9. LoadedIsCurrent'
  <2> SUFFICES ASSUME NEW s \in Servers, NEW d \in Databases, session'[s][d] = "open", <<s, d>> \notin inbox',
                      ~(phase'[s] = "loading" /\ d = Loading(s)')
               PROVE  known'[s][d] = Memory(record[d])
    BY DEF LoadedIsCurrent, IsLoading, Memory
  <2>1. s # r
    BY <1>3
  <2>2. <<s, d>> \notin inbox
    BY <1>2, <2>1
  <2> QED
    BY <1>3, <1>7, <2>1, <2>2 DEF ElectionInv, LoadedIsCurrent, IsLoading
<1>10. LoadingConnected'
  <2> SUFFICES ASSUME NEW s \in Servers, phase'[s] = "loading"
               PROVE  Loading(s)' \in Databases /\ session'[s][Loading(s)'] # "none"
    BY DEF LoadingConnected
  <2>1. s # r /\ phase[s] = "loading"
    BY <1>3
  <2> QED
    BY <1>3, <1>7, <2>1 DEF ElectionInv, LoadingConnected
<1> QED
  BY <1>4, <1>5, <1>6, <1>8, <1>9, <1>10 DEF ElectionInv

(* A row is written: whoever listens is told.                              *)
LEMMA StoreKeeps ==
    ASSUME ElectionInv, NEW d \in Databases, NEW state \in {"pending", "enqueued", "done"}, Store(d, state),
           phase' = phase, session' = session, master' = master,
           requests' \subseteq Servers \X Databases, troubles' \in 0 .. MaxTroubles,
           known' \in [Servers -> [Databases -> {"nothing", "pending", "running"}]],
           \A s \in Servers, e \in Databases :
               known'[s][e] = known[s][e] \/ (e = d /\ session[s][e] = "open" /\ phase[s] = "looping")
    PROVE  ElectionInv'
<1>1. /\ record' = [record EXCEPT ![d] = state]
      /\ inbox' = inbox \cup {<<r, d>> : r \in {s \in Servers : session[s][d] = "open"}}
  BY DEF Store
<1>2. record \in [Databases -> {"pending", "enqueued", "done"}] /\ inbox \subseteq Servers \X Databases
  BY DEF ElectionInv, ElectionTypeOK
<1>3. ElectionTypeOK'
  BY <1>1, <1>2 DEF ElectionInv, ElectionTypeOK
<1>4. OpenHolds' /\ ConnectedInOrder'
  BY DEF ElectionInv, OpenHolds, ConnectedInOrder
<1>5. \A s \in Servers : Loading(s)' = Loading(s)
  BY DEF Loading, Unconnected
<1>6. NothingBefore'
  <2> SUFFICES ASSUME NEW s \in Servers, NEW e \in Databases,
                      session[s][e] = "none" \/ (phase[s] = "loading" /\ e = Loading(s))
               PROVE  known'[s][e] = "nothing"
    BY <1>5 DEF NothingBefore, IsLoading
  <2>1. known'[s][e] = known[s][e]
    OBVIOUS
  <2> QED
    BY <2>1 DEF ElectionInv, NothingBefore, IsLoading
<1>7. LoadedIsCurrent'
  <2> SUFFICES ASSUME NEW s \in Servers, NEW e \in Databases, session[s][e] = "open", <<s, e>> \notin inbox',
                      ~(phase[s] = "loading" /\ e = Loading(s))
               PROVE  known'[s][e] = Memory(record'[e])
    BY <1>5 DEF LoadedIsCurrent, IsLoading
  <2>1. e # d
    BY <1>1
  <2>2. known'[s][e] = known[s][e] /\ record'[e] = record[e] /\ <<s, e>> \notin inbox
    BY <1>1, <1>2, <2>1
  <2> QED
    BY <2>2 DEF ElectionInv, LoadedIsCurrent, IsLoading
<1>8. LoadingConnected'
  BY <1>5 DEF ElectionInv, LoadingConnected
<1> QED
  BY <1>3, <1>4, <1>6, <1>7, <1>8 DEF ElectionInv

-----------------------------------------------------------------------------
(* A runner gets the lock of one more database.                            *)
LEMMA ConnectKeeps ==
    ASSUME ElectionInv, NEW r \in Servers, Connect(r)
    PROVE  ElectionInv'
<1>1. PICK d \in Sorted(Unconnected(r)) :
        /\ phase[r] = "starting" /\ master[d] = Nobody
        /\ master' = [master EXCEPT ![d] = r]
        /\ session' = [session EXCEPT ![r][d] = "open"]
        /\ phase' = [phase EXCEPT ![r] = "loading"]
        /\ inbox' = inbox /\ known' = known /\ record' = record /\ requests' = requests /\ troubles' = troubles
  BY DEF Connect
<1>2. /\ phase \in [Servers -> {"off", "starting", "loading", "looping", "sleeping"}]
      /\ session \in [Servers -> [Databases -> {"none", "open", "cut"}]]
      /\ master \in [Databases -> Servers \cup {Nobody}]
      /\ Databases \subseteq Nat
  BY ElectionAssumption DEF ElectionInv, ElectionTypeOK
<1>3. /\ d \in Databases /\ session[r][d] = "none"
      /\ \A e \in Databases : session[r][e] = "none" => d <= e
  BY DEF Sorted, Unconnected
<1>4. \A e \in Databases : session[r][e] # "none" <=> e < d
  <2> SUFFICES ASSUME NEW e \in Databases PROVE session[r][e] # "none" <=> e < d
    OBVIOUS
  <2>1. e \in Nat /\ d \in Nat
    BY <1>2, <1>3
  <2>2. d <= e => session[r][e] = "none"
    BY <1>3 DEF ElectionInv, ConnectedInOrder
  <2> QED
    BY <1>3, <2>1, <2>2
<1>5. /\ \A s \in Servers \ {r} : session'[s] = session[s] /\ phase'[s] = phase[s]
      /\ \A e \in Databases : session'[r][e] = IF e = d THEN "open" ELSE session[r][e]
      /\ phase'[r] = "loading"
  BY <1>1, <1>2, <1>3
<1>6. ElectionTypeOK'
  <2>1. session' \in [Servers -> [Databases -> {"none", "open", "cut"}]]
    BY <1>1, <1>2, <1>3
  <2>2. master' \in [Databases -> Servers \cup {Nobody}] /\ phase' \in [Servers -> {"off", "starting", "loading", "looping", "sleeping"}]
    BY <1>1, <1>2
  <2> QED
    BY <1>1, <2>1, <2>2 DEF ElectionInv, ElectionTypeOK
<1>8. OpenHolds'
  <2> SUFFICES ASSUME NEW s \in Servers, NEW e \in Databases, session'[s][e] = "open" PROVE master'[e] = s
    BY DEF OpenHolds
  <2>1. CASE e # d
    <3>1. session[s][e] = "open"
      BY <1>5, <2>1
    <3> QED
      BY <1>1, <1>2, <2>1, <3>1 DEF ElectionInv, OpenHolds
  <2>2. CASE e = d /\ s = r
    BY <1>1, <1>2, <2>2
  <2>3. CASE e = d /\ s # r
    <3>1. session[s][d] = "open"
      BY <1>5, <2>3
    <3>2. master[d] = s /\ master[d] = Nobody
      BY <1>1, <1>3, <3>1 DEF ElectionInv, OpenHolds
    <3> QED
      BY <3>2, ElectionAssumption
  <2> QED
    BY <2>1, <2>2, <2>3
<1>9. ConnectedInOrder'
  <2> SUFFICES ASSUME NEW s \in Servers, NEW x \in Databases, NEW y \in Databases, y <= x, session'[s][x] # "none"
               PROVE  session'[s][y] # "none"
    BY DEF ConnectedInOrder
  <2>1. CASE s # r
    BY <1>5, <2>1 DEF ElectionInv, ConnectedInOrder
  <2>2. CASE s = r
    <3>1. x <= d /\ x \in Nat /\ y \in Nat /\ d \in Nat
      BY <1>2, <1>3, <1>4, <1>5, <2>2
    <3>2. y < d \/ y = d
      BY <3>1
    <3> QED
      BY <1>4, <1>5, <2>2, <3>2
  <2> QED
    BY <2>1, <2>2
<1>10. Loading(r)' = d
  <2>1. \A e \in Databases : session'[r][e] # "none" => e <= d
    <3> SUFFICES ASSUME NEW e \in Databases, session'[r][e] # "none" PROVE e <= d
      OBVIOUS
    <3>1. e = d \/ e < d
      BY <1>4, <1>5
    <3>2. e \in Nat /\ d \in Nat
      BY <1>2, <1>3
    <3> QED
      BY <3>1, <3>2
  <2>2. session'[r][d] # "none" /\ d \in Databases
    BY <1>3, <1>5
  <2> DEFINE connected == Databases \ {e \in Databases : session'[r][e] = "none"}
  <2>3. d \in connected /\ \A e \in connected : e <= d
    BY <2>1, <2>2
  <2>4. \A x \in connected : (\A e \in connected : e <= x) => x = d
    <3> SUFFICES ASSUME NEW x \in connected, \A e \in connected : e <= x PROVE x = d
      OBVIOUS
    <3>1. d <= x /\ x <= d /\ x \in Nat /\ d \in Nat
      BY <1>2, <2>3
    <3> QED
      BY <3>1
  <2> HIDE DEF connected
  <2>5. (CHOOSE x \in connected : \A e \in connected : e <= x) = d
    BY <2>3, <2>4
  <2> QED
    BY <2>5 DEF Loading, Unconnected, connected
<1>11. \A s \in Servers \ {r} : Loading(s)' = Loading(s)
  <2> SUFFICES ASSUME NEW s \in Servers \ {r} PROVE Loading(s)' = Loading(s)
    OBVIOUS
  <2>1. session'[s] = session[s]
    BY <1>5
  <2>2. Unconnected(s)' = Unconnected(s)
    BY <2>1 DEF Unconnected
  <2> QED
    BY <2>2 DEF Loading
<1>12. NothingBefore'
  <2> SUFFICES ASSUME NEW s \in Servers, NEW e \in Databases,
                      session'[s][e] = "none" \/ (phase'[s] = "loading" /\ e = Loading(s)')
               PROVE  known[s][e] = "nothing"
    BY <1>1 DEF NothingBefore, IsLoading
  <2>1. CASE s # r
    BY <1>5, <1>11, <2>1 DEF ElectionInv, NothingBefore, IsLoading
  <2>2. CASE s = r
    <3>1. session[r][e] = "none"
      BY <1>3, <1>5, <1>10, <2>2
    <3> QED
      BY <2>2, <3>1 DEF ElectionInv, NothingBefore
  <2> QED
    BY <2>1, <2>2
<1>13. LoadedIsCurrent'
  <2> SUFFICES ASSUME NEW s \in Servers, NEW e \in Databases, session'[s][e] = "open", <<s, e>> \notin inbox,
                      ~(phase'[s] = "loading" /\ e = Loading(s)')
               PROVE  known[s][e] = Memory(record[e])
    BY <1>1 DEF LoadedIsCurrent, IsLoading, Memory
  <2>1. CASE s # r
    BY <1>5, <1>11, <2>1 DEF ElectionInv, LoadedIsCurrent, IsLoading
  <2>2. CASE s = r
    <3>1. e # d /\ session[r][e] = "open"
      BY <1>5, <1>10, <2>2
    <3> QED
      BY <1>1, <2>2, <3>1 DEF ElectionInv, LoadedIsCurrent, IsLoading
  <2> QED
    BY <2>1, <2>2
<1>14. LoadingConnected'
  <2> SUFFICES ASSUME NEW s \in Servers, phase'[s] = "loading"
               PROVE  Loading(s)' \in Databases /\ session'[s][Loading(s)'] # "none"
    BY DEF LoadingConnected
  <2>1. CASE s # r
    BY <1>5, <1>11, <2>1 DEF ElectionInv, LoadingConnected
  <2>2. CASE s = r
    BY <1>3, <1>5, <1>10, <2>2
  <2> QED
    BY <2>1, <2>2
<1> QED
  BY <1>6, <1>8, <1>9, <1>12, <1>13, <1>14 DEF ElectionInv

(* The jobs of a database are read, or what a notification tells of.       *)
LEMMA ReadingKeeps ==
    ASSUME ElectionInv, NEW r \in Servers, NEW d \in Databases,
           session[r][d] = "open", known'[r][d] = Memory(record[d]),
           known' \in [Servers -> [Databases -> {"nothing", "pending", "running"}]],
           \A s \in Servers, e \in Databases : s # r \/ e # d => known'[s][e] = known[s][e],
           \/ phase[r] = "looping" /\ phase' = phase
           \/ /\ IsLoading(r, d)
              /\ phase' = [phase EXCEPT ![r] = IF Unconnected(r) = {} THEN "looping" ELSE "starting"],
           inbox' = inbox \ {<<r, d>>} \/ inbox' = inbox,
           session' = session, master' = master, record' = record, requests' = requests, troubles' = troubles
    PROVE  ElectionInv'
<1>1. /\ phase \in [Servers -> {"off", "starting", "loading", "looping", "sleeping"}]
      /\ inbox \subseteq Servers \X Databases
  BY DEF ElectionInv, ElectionTypeOK
<1>2. ElectionTypeOK'
  <2>1. phase' \in [Servers -> {"off", "starting", "loading", "looping", "sleeping"}]
    BY <1>1
  <2>2. inbox' \subseteq Servers \X Databases
    BY <1>1
  <2> QED
    BY <2>1, <2>2 DEF ElectionInv, ElectionTypeOK
<1>3. OpenHolds' /\ ConnectedInOrder'
  BY DEF ElectionInv, OpenHolds, ConnectedInOrder
<1>4. \A s \in Servers : Loading(s)' = Loading(s)
  BY DEF Loading, Unconnected
<1>5. \A s \in Servers : phase'[s] = "loading" => s # r /\ phase[s] = "loading"
  BY <1>1
<1>6. \A s \in Servers : s # r => phase'[s] = phase[s]
  BY <1>1
<1>7. LoadingConnected'
  BY <1>4, <1>5 DEF ElectionInv, LoadingConnected
<1>8. NothingBefore'
  <2> SUFFICES ASSUME NEW s \in Servers, NEW e \in Databases,
                      session[s][e] = "none" \/ (phase'[s] = "loading" /\ e = Loading(s))
               PROVE  known'[s][e] = "nothing"
    BY <1>4 DEF NothingBefore, IsLoading
  <2>1. s # r \/ e # d
    BY <1>5
  <2> QED
    BY <1>5, <2>1 DEF ElectionInv, NothingBefore, IsLoading
<1>9. LoadedIsCurrent'
  <2> SUFFICES ASSUME NEW s \in Servers, NEW e \in Databases, session[s][e] = "open", <<s, e>> \notin inbox',
                      ~(phase'[s] = "loading" /\ e = Loading(s))
               PROVE  known'[s][e] = Memory(record'[e])
    BY <1>4 DEF LoadedIsCurrent, IsLoading
  <2>1. CASE s = r /\ e = d
    BY <2>1
  <2>2. CASE s # r \/ e # d
    <3>1. known'[s][e] = known[s][e] /\ <<s, e>> \notin inbox
      BY <2>2
    <3>2. ~IsLoading(s, e)
      BY <1>6, <2>2 DEF IsLoading
    <3> QED
      BY <3>1, <3>2 DEF ElectionInv, LoadedIsCurrent
  <2> QED
    BY <2>1, <2>2
<1> QED
  BY <1>2, <1>3, <1>7, <1>8, <1>9 DEF ElectionInv

(* Sessions may be cut and locks may expire, runners start and wake up,    *)
(* and requests are served or lost.                                        *)
LEMMA RestKeeps ==
    ASSUME ElectionInv, ElectionTypeOK', inbox' = inbox, known' = known, record' = record,
           \A s \in Servers, e \in Databases :
               session'[s][e] = session[s][e] \/ (session[s][e] = "open" /\ session'[s][e] = "cut"),
           \A s \in Servers : phase'[s] = phase[s] \/ (phase[s] # "loading" /\ phase'[s] = "starting"),
           \A e \in Databases : master'[e] = master[e] \/ \A s \in Servers : session[s][e] # "open"
    PROVE  ElectionInv'
<1>1. OpenHolds' /\ ConnectedInOrder'
  BY DEF ElectionInv, OpenHolds, ConnectedInOrder
<1>2. \A s \in Servers : Unconnected(s)' = Unconnected(s)
  BY DEF Unconnected
<1>3. \A s \in Servers : Loading(s)' = Loading(s)
  BY <1>2 DEF Loading
<1>4. \A s \in Servers : phase'[s] = "loading" <=> phase[s] = "loading"
  OBVIOUS
<1>5. LoadingConnected'
  BY <1>3, <1>4 DEF ElectionInv, LoadingConnected
<1>6. NothingBefore'
  BY <1>3, <1>4 DEF ElectionInv, NothingBefore, IsLoading
<1>7. LoadedIsCurrent'
  <2> SUFFICES ASSUME NEW s \in Servers, NEW e \in Databases, session'[s][e] = "open", <<s, e>> \notin inbox',
                      ~(phase'[s] = "loading" /\ e = Loading(s))
               PROVE  known'[s][e] = Memory(record'[e])
    BY <1>3 DEF LoadedIsCurrent, IsLoading
  <2>1. session[s][e] = "open" /\ <<s, e>> \notin inbox /\ ~IsLoading(s, e)
    BY <1>4 DEF IsLoading
  <2>2. known[s][e] = Memory(record[e])
    BY <2>1 DEF ElectionInv, LoadedIsCurrent
  <2> QED
    BY <2>2
<1> QED
  BY <1>1, <1>5, <1>6, <1>7 DEF ElectionInv

-----------------------------------------------------------------------------
LEMMA ElectionStep ==
    ASSUME ElectionInv, [ElectionNext]_electionVars
    PROVE  /\ ElectionInv'
           /\ \A q \in requests' \ requests : master[q[2]] = q[1]
<1> USE ElectionAssumption DEF Troubled
<1>1. /\ phase \in [Servers -> {"off", "starting", "loading", "looping", "sleeping"}]
      /\ session \in [Servers -> [Databases -> {"none", "open", "cut"}]]
      /\ master \in [Databases -> Servers \cup {Nobody}]
      /\ known \in [Servers -> [Databases -> {"nothing", "pending", "running"}]]
      /\ record \in [Databases -> {"pending", "enqueued", "done"}]
      /\ requests \subseteq Servers \X Databases
      /\ troubles \in 0 .. MaxTroubles
  BY DEF ElectionInv, ElectionTypeOK
<1>2. \A d \in Databases : Memory(record[d]) \in {"nothing", "pending", "running"}
  <2> SUFFICES ASSUME NEW d \in Databases PROVE Memory(record[d]) \in {"nothing", "pending", "running"}
    OBVIOUS
  <2>1. record[d] \in {"pending", "enqueued", "done"}
    BY <1>1
  <2>2. CASE record[d] = "pending"
    BY <2>2 DEF Memory
  <2>3. CASE record[d] = "enqueued"
    BY <2>3 DEF Memory
  <2>4. CASE record[d] = "done"
    BY <2>4 DEF Memory
  <2> QED
    BY <2>1, <2>2, <2>3, <2>4
<1>3. troubles' \in 0 .. MaxTroubles
  <2>1. CASE troubles' = troubles
    BY <1>1, <2>1
  <2>2. CASE Troubled
    BY <1>1, <2>2
  <2>3. ASSUME NEW r \in Servers, RunnerTurns(r) \/ StopServer(r) PROVE troubles' = troubles \/ Troubled
    BY <2>3 DEF RunnerTurns, StartServer, Connect, ElectionLost, LoadJobs, QueryFails, WakeUp, StopServer
  <2>4. ASSUME NEW d \in Databases, NewJob(d) \/ SessionExpires(d) PROVE troubles' = troubles \/ Troubled
    BY <2>4 DEF NewJob, SessionExpires
  <2>5. ASSUME NEW r \in Servers, NEW d \in Databases,
               \/ Serve(r, d) \/ ReadNotification(r, d) \/ AskFor(r, d) \/ RequeueLost(r, d)
               \/ CutSession(r, d) \/ RequestLost(r, d)
        PROVE  troubles' = troubles \/ Troubled
    BY <2>5 DEF Serve, ReadNotification, AskFor, RequeueLost, CutSession, RequestLost
  <2> QED
    BY <2>1, <2>2, <2>3, <2>4, <2>5 DEF ElectionNext, electionVars
<1>4. ASSUME NEW r \in Servers, ElectionLost(r) \/ QueryFails(r) \/ StopServer(r)
      PROVE  ElectionInv' /\ requests' = requests
  BY <1>3, <1>4, CloseKeeps DEF ElectionLost, QueryFails, StopServer
<1>5. ASSUME NEW d \in Databases, NewJob(d) PROVE ElectionInv' /\ requests' = requests
  BY <1>1, <1>3, <1>5, StoreKeeps DEF NewJob
<1>6. ASSUME NEW r \in Servers, NEW d \in Databases, RequeueLost(r, d) PROVE ElectionInv' /\ requests' = requests
  BY <1>1, <1>3, <1>6, StoreKeeps DEF RequeueLost
<1>7. ASSUME NEW r \in Servers, NEW d \in Databases, AskFor(r, d)
      PROVE  ElectionInv' /\ \A q \in requests' \ requests : master[q[2]] = q[1]
  <2>1. /\ phase[r] = "looping" /\ session[r][d] = "open" /\ Store(d, "enqueued")
        /\ known' = [known EXCEPT ![r][d] = "running"]
        /\ requests' = requests \cup {<<r, d>>}
        /\ phase' = phase /\ session' = session /\ master' = master
    BY <1>7 DEF AskFor, WritesRow
  <2>2. known' \in [Servers -> [Databases -> {"nothing", "pending", "running"}]]
    BY <1>1, <2>1
  <2>3. \A s \in Servers, e \in Databases :
          known'[s][e] = known[s][e] \/ (e = d /\ session[s][e] = "open" /\ phase[s] = "looping")
    BY <1>1, <2>1
  <2>4. requests' \subseteq Servers \X Databases
    BY <1>1, <2>1
  <2>5. master[d] = r
    BY <2>1 DEF ElectionInv, OpenHolds
  <2>6. ElectionInv'
    BY <1>3, <2>1, <2>2, <2>3, <2>4, StoreKeeps
  <2> QED
    BY <2>1, <2>5, <2>6
<1>8. ASSUME NEW r \in Servers, NEW d \in Databases, Serve(r, d) PROVE ElectionInv' /\ requests' \subseteq requests
  <2>1. CASE record[d] = "enqueued"
    BY <1>1, <1>3, <1>8, <2>1, StoreKeeps DEF Serve
  <2>2. CASE record[d] # "enqueued"
    <3>1. ElectionTypeOK'
      BY <1>1, <1>8, <2>2 DEF Serve, ElectionInv, ElectionTypeOK
    <3> QED
      BY <1>8, <2>2, <3>1, RestKeeps DEF Serve
  <2> QED
    BY <2>1, <2>2
<1>9. ASSUME NEW r \in Servers, Connect(r) PROVE ElectionInv' /\ requests' = requests
  BY <1>9, ConnectKeeps DEF Connect
<1>10. ASSUME NEW r \in Servers, LoadJobs(r) PROVE ElectionInv' /\ requests' = requests
  <2> DEFINE d == Loading(r)
  <2>1. phase[r] = "loading" /\ session[r][d] = "open"
    BY <1>10 DEF LoadJobs
  <2>2. d \in Databases /\ IsLoading(r, d)
    BY <2>1 DEF ElectionInv, LoadingConnected, IsLoading
  <2>3. known[r][d] = "nothing"
    BY <2>2 DEF ElectionInv, NothingBefore
  <2>4. /\ known' = IF record[d] = "done" THEN known ELSE [known EXCEPT ![r][d] = Memory(record[d])]
        /\ phase' = [phase EXCEPT ![r] = IF Unconnected(r) = {} THEN "looping" ELSE "starting"]
        /\ session' = session /\ master' = master /\ inbox' = inbox /\ record' = record
        /\ requests' = requests /\ troubles' = troubles
    BY <1>10 DEF LoadJobs
  <2> HIDE DEF d
  <2>5. known'[r][d] = Memory(record[d])
    BY <1>1, <2>2, <2>3, <2>4 DEF Memory
  <2>6. known' \in [Servers -> [Databases -> {"nothing", "pending", "running"}]]
    BY <1>1, <1>2, <2>2, <2>4
  <2>7. \A s \in Servers, e \in Databases : s # r \/ e # d => known'[s][e] = known[s][e]
    BY <1>1, <2>4
  <2> QED
    BY <2>1, <2>2, <2>4, <2>5, <2>6, <2>7, ReadingKeeps
<1>11. ASSUME NEW r \in Servers, NEW d \in Databases, ReadNotification(r, d) PROVE ElectionInv' /\ requests' = requests
  <2>1. /\ phase[r] = "looping" /\ session[r][d] = "open" /\ phase' = phase
        /\ known' = [known EXCEPT ![r][d] = Memory(record[d])]
        /\ inbox' = inbox \ {<<r, d>>} /\ session' = session /\ master' = master /\ record' = record
        /\ requests' = requests /\ troubles' = troubles
    BY <1>11 DEF ReadNotification
  <2>2. known' \in [Servers -> [Databases -> {"nothing", "pending", "running"}]]
    BY <1>1, <1>2, <2>1
  <2>3. /\ known'[r][d] = Memory(record[d])
        /\ \A s \in Servers, e \in Databases : s # r \/ e # d => known'[s][e] = known[s][e]
    BY <1>1, <2>1
  <2>4. session[r][d] = "open" /\ phase[r] = "looping" /\ phase' = phase
    BY <2>1
  <2>5. inbox' = inbox \ {<<r, d>>}
    BY <2>1
  <2>6. session' = session /\ master' = master /\ record' = record /\ requests' = requests /\ troubles' = troubles
    BY <2>1
  <2> QED
    BY <2>2, <2>3, <2>4, <2>5, <2>6, ReadingKeeps
<1>12. ASSUME NEW r \in Servers, StartServer(r) \/ WakeUp(r) PROVE ElectionInv' /\ requests' = requests
  <2>1. /\ phase' = [phase EXCEPT ![r] = "starting"] /\ phase[r] # "loading"
        /\ session' = session /\ master' = master /\ inbox' = inbox /\ known' = known
        /\ record' = record /\ requests' = requests /\ troubles' = troubles
    BY <1>12 DEF StartServer, WakeUp
  <2>2. phase' \in [Servers -> {"off", "starting", "loading", "looping", "sleeping"}]
    BY <1>1, <2>1
  <2>3. ElectionTypeOK'
    BY <2>1, <2>2 DEF ElectionInv, ElectionTypeOK
  <2>4. \A s \in Servers : phase'[s] = phase[s] \/ (phase[s] # "loading" /\ phase'[s] = "starting")
    BY <1>1, <2>1
  <2> QED
    BY <2>1, <2>3, <2>4, RestKeeps
<1>13. ASSUME NEW r \in Servers, NEW d \in Databases, CutSession(r, d) PROVE ElectionInv' /\ requests' = requests
  <2>1. /\ session[r][d] = "open" /\ session' = [session EXCEPT ![r][d] = "cut"]
        /\ phase' = phase /\ master' = master /\ inbox' = inbox /\ known' = known
        /\ record' = record /\ requests' = requests
    BY <1>13 DEF CutSession
  <2>2. session' \in [Servers -> [Databases -> {"none", "open", "cut"}]]
    BY <1>1, <2>1
  <2>3. ElectionTypeOK'
    BY <1>3, <2>1, <2>2 DEF ElectionInv, ElectionTypeOK
  <2>4. \A s \in Servers, e \in Databases :
          session'[s][e] = session[s][e] \/ (session[s][e] = "open" /\ session'[s][e] = "cut")
    BY <1>1, <2>1
  <2> QED
    BY <2>1, <2>3, <2>4, RestKeeps
<1>14. ASSUME NEW d \in Databases, SessionExpires(d) PROVE ElectionInv' /\ requests' = requests
  <2>1. /\ master[d] # Nobody /\ session[master[d]][d] # "open" /\ master' = [master EXCEPT ![d] = Nobody]
        /\ phase' = phase /\ session' = session /\ inbox' = inbox /\ known' = known
        /\ record' = record /\ requests' = requests /\ troubles' = troubles
    BY <1>14 DEF SessionExpires
  <2>2. master' \in [Databases -> Servers \cup {Nobody}]
    BY <1>1, <2>1
  <2>3. ElectionTypeOK'
    BY <2>1, <2>2 DEF ElectionInv, ElectionTypeOK
  <2>4. \A s \in Servers : session[s][d] # "open"
    BY <2>1 DEF ElectionInv, OpenHolds
  <2>5. \A e \in Databases : master'[e] = master[e] \/ \A s \in Servers : session[s][e] # "open"
    BY <1>1, <2>1, <2>4
  <2> QED
    BY <2>1, <2>3, <2>5, RestKeeps
<1>15. ASSUME NEW r \in Servers, NEW d \in Databases, RequestLost(r, d) PROVE ElectionInv' /\ requests' \subseteq requests
  <2>1. /\ requests' \subseteq requests /\ phase' = phase /\ session' = session /\ master' = master
        /\ inbox' = inbox /\ known' = known /\ record' = record
    BY <1>15 DEF RequestLost
  <2>2. ElectionTypeOK'
    BY <1>1, <1>3, <2>1 DEF ElectionInv, ElectionTypeOK
  <2> QED
    BY <2>1, <2>2, RestKeeps
<1>16. CASE UNCHANGED electionVars
  <2>1. ElectionTypeOK'
    BY <1>16 DEF electionVars, ElectionInv, ElectionTypeOK
  <2> QED
    BY <1>16, <2>1, RestKeeps DEF electionVars
<1> QED
  BY <1>4, <1>5, <1>6, <1>7, <1>8, <1>9, <1>10, <1>11, <1>12, <1>13, <1>14, <1>15, <1>16
     DEF ElectionNext, RunnerTurns

LEMMA ElectionStarts == ElectionInit => ElectionInv
<1> SUFFICES ASSUME ElectionInit PROVE ElectionInv
  OBVIOUS
<1> USE ElectionAssumption DEF ElectionInit
<1>1. ElectionTypeOK
  BY DEF ElectionTypeOK
<1>2. OpenHolds /\ ConnectedInOrder /\ LoadingConnected /\ NothingBefore /\ LoadedIsCurrent
  BY DEF OpenHolds, ConnectedInOrder, LoadingConnected, NothingBefore, LoadedIsCurrent, IsLoading
<1> QED
  BY <1>1, <1>2 DEF ElectionInv

(* For any servers and databases: what a runner in its loop remembers of a *)
(* job is what its row says, or a notification waits (initialize_databases,*)
(* process_notifications, close_databases).                                *)
THEOREM RunnerRemembers == ElectionSpec => []MemoryIsCurrent
<1>1. ElectionInv /\ [ElectionNext]_electionVars => ElectionInv'
  BY ElectionStep
<1>2. ElectionInv => MemoryIsCurrent
  BY DEF ElectionInv, LoadedIsCurrent, MemoryIsCurrent, IsLoading
<1> QED
  BY <1>1, <1>2, ElectionStarts, PTL DEF ElectionSpec

(* And a job is asked for by the runner that holds its database's lock     *)
(* alone (_query_requeue_dead_jobs, set_job_enqueued, run_jobs).           *)
THEOREM MasterAsks == ElectionSpec => AskedByMaster
<1>1. ElectionInv /\ [ElectionNext]_electionVars => ElectionInv'
  BY ElectionStep
<1>2. ElectionInv /\ [ElectionNext]_electionVars =>
        [\A q \in requests' \ requests : master[q[2]] = q[1]]_electionVars
  BY ElectionStep
<1> QED
  BY <1>1, <1>2, ElectionStarts, PTL DEF ElectionSpec, AskedByMaster

-----------------------------------------------------------------------------
(* The channels, for any configuration and any names of jobs               *)

(* A name is a prefix of another if it agrees with it as far as it goes.   *)
LEMMA PrefixOf ==
    ASSUME NEW s \in Seq(Segments), NEW x
    PROVE  x \in Prefixes(s) <=> /\ x \in Seq(Segments)
                                 /\ Len(x) <= Len(s)
                                 /\ \A k \in 1 .. Len(x) : x[k] = s[k]
<1>1. ASSUME NEW k \in 0 .. Len(s)
      PROVE  /\ SubSeq(s, 1, k) \in Seq(Segments) /\ Len(SubSeq(s, 1, k)) = k
             /\ \A i \in 1 .. k : SubSeq(s, 1, k)[i] = s[i]
  <2>1. \A i \in 1 .. k : s[i] \in Segments
    BY ElementOfSeq
  <2>2. k \in Nat
    OBVIOUS
  <2> QED
    BY <2>1, <2>2, SubSeqProperties
<1>2. ASSUME x \in Seq(Segments), Len(x) <= Len(s), \A k \in 1 .. Len(x) : x[k] = s[k]
      PROVE  x \in Prefixes(s)
  <2>1. Len(x) \in 0 .. Len(s)
    BY <1>2, LenProperties
  <2>2. x = SubSeq(s, 1, Len(x))
    BY <1>1, <1>2, <2>1, SeqEqual
  <2> QED
    BY <2>1, <2>2 DEF Prefixes
<1>3. ASSUME x \in Prefixes(s)
      PROVE  /\ x \in Seq(Segments)
             /\ Len(x) <= Len(s)
             /\ \A k \in 1 .. Len(x) : x[k] = s[k]
  <2>1. PICK k \in 0 .. Len(s) : x = SubSeq(s, 1, k)
    BY <1>3 DEF Prefixes
  <2> QED
    BY <1>1, <2>1
<1> QED
  BY <1>2, <1>3

(* Of two prefixes of a name the shorter one is a prefix of the longer.    *)
LEMMA PrefixesAgree ==
    ASSUME NEW s \in Seq(Segments), NEW x \in Prefixes(s), NEW y \in Prefixes(s), Len(x) <= Len(y)
    PROVE  x \in Prefixes(y) /\ (Len(x) = Len(y) => x = y)
<1>1. /\ x \in Seq(Segments) /\ y \in Seq(Segments) /\ Len(x) \in Nat /\ Len(y) \in Nat
      /\ \A k \in 1 .. Len(x) : x[k] = s[k]
      /\ \A k \in 1 .. Len(y) : y[k] = s[k]
  BY PrefixOf, LenProperties
<1>2. \A k \in 1 .. Len(x) : x[k] = y[k]
  BY <1>1
<1> QED
  BY <1>1, <1>2, PrefixOf, SeqEqual

(* The empty name and the name itself are prefixes, and a prefix of a      *)
(* prefix is one.                                                          *)
LEMMA PrefixesOrdered ==
    ASSUME NEW s \in Seq(Segments)
    PROVE  /\ RootChannel \in Prefixes(s) /\ s \in Prefixes(s)
           /\ Len(RootChannel) = 0 /\ \A x \in Prefixes(s) : Len(x) = 0 => x = RootChannel
           /\ \A x \in Prefixes(s) : Prefixes(x) \subseteq Prefixes(s)
           /\ \A x \in Prefixes(s) : x # s => Len(x) < Len(s)
<1>1. RootChannel \in Seq(Segments) /\ Len(RootChannel) = 0
  BY EmptySeq DEF RootChannel
<1>2. RootChannel \in Prefixes(s) /\ s \in Prefixes(s)
  <2>1. Len(s) \in Nat
    BY LenProperties
  <2>2. 0 <= Len(s) /\ Len(s) <= Len(s) /\ 1 .. 0 = {}
    BY <2>1
  <2>3. \A k \in 1 .. Len(RootChannel) : RootChannel[k] = s[k]
    BY <1>1, <2>2
  <2> QED
    BY <1>1, <2>2, <2>3, PrefixOf
<1>3. \A x \in Prefixes(s) : x \in Seq(Segments) /\ Len(x) \in Nat /\ Len(s) \in Nat /\ Len(x) <= Len(s)
  BY PrefixOf, LenProperties
<1>4. ASSUME NEW x \in Prefixes(s), NEW y \in Prefixes(x)
      PROVE  y \in Prefixes(s)
  <2>1. /\ x \in Seq(Segments) /\ y \in Seq(Segments) /\ Len(y) <= Len(x)
        /\ \A k \in 1 .. Len(x) : x[k] = s[k]
        /\ \A k \in 1 .. Len(y) : y[k] = x[k]
    BY PrefixOf
  <2>2. Len(x) \in Nat /\ Len(y) \in Nat /\ Len(s) \in Nat /\ Len(x) <= Len(s)
    BY <1>3, <2>1, LenProperties
  <2>3. \A k \in 1 .. Len(y) : y[k] = s[k]
    BY <2>1, <2>2
  <2> QED
    BY <2>1, <2>2, <2>3, PrefixOf
<1>5. \A x \in Prefixes(s) : Len(x) = 0 => x = RootChannel
  BY <1>2, <1>1, PrefixesAgree
<1>6. \A x \in Prefixes(s) : x # s => Len(x) < Len(s)
  BY <1>2, <1>3, PrefixesAgree
<1> QED
  BY <1>1, <1>2, <1>4, <1>5, <1>6

(* The channels there are at some time.                                    *)
IsTree(T) == T \subseteq Seq(Segments) /\ RootChannel \in T /\ \A c \in T : Prefixes(c) \subseteq T

(* What NearestParent and ChannelFor find in them.                         *)
ParentIn(T, n) ==
    LET above == T \cap (Prefixes(n) \ {n}) IN CHOOSE p \in above : \A q \in above : Len(q) <= Len(p)

FoundIn(T, n) == IF n \in T THEN n ELSE ParentIn(T, n) \o n

Unrepeated(n) == \A k \in 2 .. Len(n) : n[k] # n[1]

(* The nearest channel above a name that has none, and that it is the only *)
(* one.                                                                    *)
LEMMA ParentFound ==
    ASSUME NEW T, IsTree(T), NEW n \in Seq(Segments), n \notin T
    PROVE  /\ ParentIn(T, n) \in T \cap Prefixes(n)
           /\ \A q \in T \cap Prefixes(n) : Len(q) <= Len(ParentIn(T, n))
           /\ \A p \in T \cap Prefixes(n) : (\A q \in T \cap Prefixes(n) : Len(q) <= Len(p)) => p = ParentIn(T, n)
<1> DEFINE above == T \cap (Prefixes(n) \ {n})
<1>1. above = T \cap Prefixes(n) /\ RootChannel \in above
  BY PrefixesOrdered DEF IsTree
<1>2. \E p \in above : \A q \in above : Len(q) <= Len(p)
  <2> DEFINE lengths == {Len(q) : q \in above}
  <2>1. \A q \in above : Len(q) \in Nat /\ Len(q) <= Len(n)
    BY PrefixOf, LenProperties
  <2>2. lengths \in SUBSET Nat /\ lengths # {} /\ \A l \in lengths : l <= Len(n)
    BY <1>1, <2>1
  <2>3. PICK m \in lengths : \A l \in lengths : l <= m
    <3> HIDE DEF lengths
    <3> QED BY <2>2, GreatestNumber, LenProperties
  <2> QED
    BY <2>3
<1>3. ParentIn(T, n) \in above /\ \A q \in above : Len(q) <= Len(ParentIn(T, n))
  <2>1. ParentIn(T, n) = CHOOSE p \in above : \A q \in above : Len(q) <= Len(p)
    BY DEF ParentIn
  <2> HIDE DEF above
  <2> QED
    BY <1>2, <2>1
<1>4. ASSUME NEW p \in above, \A q \in above : Len(q) <= Len(p)
      PROVE  p = ParentIn(T, n)
  <2>1. Len(p) \in Nat /\ Len(ParentIn(T, n)) \in Nat
    BY <1>3, PrefixOf, LenProperties
  <2>2. Len(p) = Len(ParentIn(T, n))
    BY <1>3, <1>4, <2>1
  <2> QED
    BY <1>3, <2>1, <2>2, PrefixesAgree
<1> QED
  BY <1>1, <1>3, <1>4

(* The channel of such a name lies below its nearest channel, and repeats  *)
(* the name there: what is new of it either belongs to the name itself,    *)
(* which is below the root, or comes back to the first segment.            *)
LEMMA FoundShape ==
    ASSUME NEW T, IsTree(T), NEW n \in Seq(Segments), n \notin T
    PROVE  /\ FoundIn(T, n) \in Seq(Segments)
           /\ ParentIn(T, n) = RootChannel => FoundIn(T, n) = n
           /\ T \cap Prefixes(n) \subseteq Prefixes(FoundIn(T, n))
           /\ \A x \in Prefixes(FoundIn(T, n)) : ParentIn(T, n) # RootChannel =>
                  x \in T \cap Prefixes(n) \/ ~ Unrepeated(x)
<1> DEFINE p == ParentIn(T, n)
<1>1. p \in T \cap Prefixes(n) /\ p \in Seq(Segments) /\ Len(p) \in Nat /\ Len(n) \in Nat /\ Len(p) <= Len(n)
  BY ParentFound, PrefixOf, LenProperties
<1>2. FoundIn(T, n) = p \o n
  BY DEF FoundIn
<1> HIDE DEF p
<1>3. /\ p \o n \in Seq(Segments)
      /\ Len(p \o n) = Len(p) + Len(n)
      /\ \A i \in 1 .. Len(p) + Len(n) : (p \o n)[i] = IF i <= Len(p) THEN p[i] ELSE n[i - Len(p)]
  BY <1>1, ConcatProperties
<1>4. p = RootChannel => p \o n = n
  BY ConcatEmptySeq DEF RootChannel
<1>5. p \in Prefixes(p \o n)
  <2>1. \A i \in 1 .. Len(p) : p[i] = (p \o n)[i]
    BY <1>1, <1>3
  <2>2. Len(p) <= Len(p \o n)
    BY <1>1, <1>3
  <2> DEFINE q == p \o n
  <2> HIDE DEF q
  <2>3. q \in Seq(Segments) /\ Len(p) <= Len(q) /\ \A i \in 1 .. Len(p) : p[i] = q[i]
    BY <1>3, <2>1, <2>2 DEF q
  <2>4. p \in Prefixes(q)
    BY <1>1, <2>3, PrefixOf
  <2> QED
    BY <2>4 DEF q
<1>6. \A x \in T \cap Prefixes(n) : x \in Prefixes(p)
  BY <1>1, ParentFound, PrefixesAgree DEF p
<1>7. ASSUME NEW x \in Prefixes(p \o n), p # RootChannel
      PROVE  x \in T \cap Prefixes(n) \/ ~ Unrepeated(x)
  <2>1. /\ x \in Seq(Segments) /\ Len(x) \in Nat /\ Len(x) <= Len(p) + Len(n)
        /\ \A i \in 1 .. Len(x) : x[i] = (p \o n)[i]
    BY <1>3, PrefixOf, LenProperties
  <2>2. CASE Len(x) <= Len(p)
    <3>1. x \in Prefixes(p)
      BY <1>3, <1>5, <2>2, PrefixesAgree
    <3> QED
      BY <1>1, <3>1, PrefixesOrdered DEF IsTree
  <2>3. CASE Len(x) > Len(p)
    <3>1. Len(p) # 0 /\ Len(p) >= 1
      BY <1>1, <1>7, PrefixesOrdered
    <3>2. n[1] = p[1]
      BY <1>1, <3>1, PrefixOf
    <3>3. x[1] = p[1] /\ x[Len(p) + 1] = n[1]
      BY <1>1, <1>3, <2>1, <2>3, <3>1
    <3> QED
      BY <1>1, <2>1, <2>3, <3>1, <3>2, <3>3 DEF Unrepeated
  <2> QED
    BY <1>1, <2>1, <2>2, <2>3
<1>8. T \cap Prefixes(n) \subseteq Prefixes(p \o n)
  BY <1>3, <1>5, <1>6, PrefixesOrdered
<1> QED
  BY <1>2, <1>3, <1>4, <1>7, <1>8 DEF p

(* A prefix of a name that does not repeat itself does not either.         *)
LEMMA PrefixUnrepeated ==
    ASSUME NEW n \in Seq(Segments), NEW x \in Prefixes(n), Unrepeated(n)
    PROVE  Unrepeated(x)
<1>1. Len(x) \in Nat /\ Len(n) \in Nat /\ Len(x) <= Len(n) /\ \A k \in 1 .. Len(x) : x[k] = n[k]
  BY PrefixOf, LenProperties
<1> QED
  BY <1>1 DEF Unrepeated

(* A name goes through the configured channels its channel goes through.   *)
LEMMA FoundLimits ==
    ASSUME NEW T, IsTree(T), NEW n \in Seq(Segments), NEW L \in SUBSET T, \A c \in L : Unrepeated(c)
    PROVE  Prefixes(FoundIn(T, n)) \cap L = Prefixes(n) \cap L
<1>1. CASE n \in T
  BY <1>1 DEF FoundIn
<1>2. CASE n \notin T
  BY <1>2, FoundShape
<1> QED
  BY <1>1, <1>2

(* A name that does not repeat itself, and has been looked up, is found    *)
(* again where it was, whatever is looked up next.                         *)
LEMMA FoundStays ==
    ASSUME NEW T, IsTree(T), NEW n \in Seq(Segments), NEW m \in Seq(Segments), Unrepeated(n),
           n = m \/ FoundIn(T, n) \in T
    PROVE  FoundIn(T \cup Prefixes(FoundIn(T, m)), n) = FoundIn(T, n)
<1> DEFINE U == T \cup Prefixes(FoundIn(T, m))
           p == ParentIn(T, n)
<1>1. CASE m \in T
  BY <1>1 DEF FoundIn, IsTree
<1>2. CASE n \in T
  BY <1>2 DEF FoundIn
<1>3. CASE m \notin T /\ n \notin T /\ p = RootChannel
  <2>1. FoundIn(T, n) = n /\ n = m
    BY <1>3, FoundShape
  <2>2. n \in Prefixes(n)
    BY PrefixesOrdered
  <2> QED
    BY <2>1, <2>2 DEF FoundIn
<1>4. CASE m \notin T /\ n \notin T /\ p # RootChannel
  <2>1. p \in T \cap Prefixes(n) /\ \A q \in T \cap Prefixes(n) : Len(q) <= Len(p)
    BY <1>4, ParentFound
  <2>2. \A x \in Prefixes(n) : Len(x) \in Nat
    BY PrefixOf, LenProperties
  <2>3. ASSUME NEW x \in U \cap Prefixes(n)
        PROVE  Len(x) <= Len(p)
    <3>1. CASE x \in T
      BY <2>1, <3>1
    <3>2. CASE x \in Prefixes(FoundIn(T, m)) /\ ParentIn(T, m) # RootChannel
      BY <1>4, <2>1, <3>2, FoundShape, PrefixUnrepeated
    <3>3. CASE x \in Prefixes(FoundIn(T, m)) /\ ParentIn(T, m) = RootChannel
      <4>1. x \in Prefixes(m)
        BY <1>4, <3>3, FoundShape
      <4> SUFFICES ASSUME Len(p) <= Len(x) PROVE FALSE
        BY <2>1, <2>2
      <4>2. p \in Prefixes(m)
        BY <2>1, <4>1, PrefixesAgree, PrefixesOrdered
      <4>3. Len(p) <= 0 /\ Len(p) \in Nat
        BY <1>4, <2>1, <2>2, <3>3, <4>2, ParentFound, PrefixesOrdered
      <4> QED
        BY <1>4, <2>1, <4>3, PrefixesOrdered
    <3> QED
      BY <3>1, <3>2, <3>3
  <2>4. n \notin U
    BY <1>4, <2>1, <2>2, <2>3, PrefixesOrdered
  <2>5. IsTree(U)
    <3>1. FoundIn(T, m) \in Seq(Segments)
      BY <1>4, FoundShape
    <3> QED
      BY <3>1, PrefixOf, PrefixesOrdered DEF IsTree
  <2>6. p = ParentIn(U, n)
    BY <2>1, <2>3, <2>4, <2>5, ParentFound
  <2> QED
    BY <1>4, <2>4, <2>6 DEF FoundIn
<1> QED
  BY <1>1, <1>2, <1>3, <1>4

(* A name that does not repeat itself is found where it was.               *)
FoundIsCurrent == \A n \in DOMAIN found : Unrepeated(n) => found[n] = ChannelFor(n)

(* The runner looks up no name before it runs.                             *)
TreeInv ==
    /\ TreeTypeOK /\ IsTree(tree)
    /\ stage # "running" => DOMAIN found = {}
    /\ LimitsOfItsName /\ FoundIsCurrent

(* The names of jobs and of entries are sequences.                         *)
LEMMA NamesAreSequences ==
    ASSUME NEW n \in Names
    PROVE  n \in Seq(Segments)
<1>1. PICK l \in 0 .. MaxDepth : n \in [1 .. l -> Segments]
  BY DEF Names
<1>2. l \in Nat
  BY <1>1, TreeBounds
<1> QED
  BY <1>1, <1>2, SeqDef

(* A tree grows by a channel and those above it.                           *)
LEMMA TreeGrows ==
    ASSUME NEW T, IsTree(T), NEW c \in Seq(Segments)
    PROVE  IsTree(T \cup Prefixes(c)) /\ c \in Prefixes(c)
  BY PrefixOf, PrefixesOrdered DEF IsTree

(* ChannelFor, of the channels there are.                                  *)
LEMMA ChannelForFound ==
    ASSUME NEW n
    PROVE  ChannelFor(n) = FoundIn(tree, n) /\ ChannelFor(n)' = FoundIn(tree', n)
  BY DEF ChannelFor, NearestParent, FoundIn, ParentIn

(* It is a channel of names and stays above itself.                        *)
LEMMA ChannelForTyped ==
    ASSUME IsTree(tree), NEW n \in Seq(Segments)
    PROVE  ChannelFor(n) \in Seq(Segments)
<1>1. CASE n \in tree
  BY <1>1 DEF ChannelFor
<1>2. CASE n \notin tree
  BY <1>2, FoundShape, ChannelForFound
<1> QED
  BY <1>1, <1>2

(* An entry of the configuration is read.                                  *)
LEMMA ConfigureKeeps ==
    ASSUME TreeInv, NEW n \in Names, NEW limit \in Limits, ConfigureChannel(n, limit)
    PROVE  TreeInv'
<1>1. n \in Seq(Segments)
  BY NamesAreSequences
<1>2. IsTree(tree') /\ n \in tree'
  BY <1>1, TreeGrows DEF TreeInv, ConfigureChannel
<1>3. DOMAIN found = {} /\ found' = found
  BY DEF TreeInv, ConfigureChannel
<1>4. TreeTypeOK'
  <2>1. \A c \in tree' : Prefixes(c) \subseteq tree'
    BY <1>2 DEF IsTree
  <2>2. limits' = Updated(limits, n, limit) /\ tree' = tree \cup Prefixes(n)
    BY DEF ConfigureChannel
  <2>3. DOMAIN limits' \subseteq tree' /\ \A c \in DOMAIN limits' : limits'[c] \in Limits
    BY <1>2, <2>2 DEF TreeInv, TreeTypeOK, Updated
  <2>4. stage' \in {"configuring", "running", "refused"} /\ entries' \in 0 .. MaxEntries
    BY TreeBounds DEF TreeInv, TreeTypeOK, ConfigureChannel
  <2> QED
    BY <1>3, <2>1, <2>3, <2>4 DEF TreeTypeOK
<1>5. LimitsOfItsName' /\ FoundIsCurrent'
  BY <1>3 DEF LimitsOfItsName, FoundIsCurrent
<1> QED
  BY <1>2, <1>3, <1>4, <1>5 DEF TreeInv

(* The runner meets a job.                                                 *)
LEMMA NotifyJobKeeps ==
    ASSUME TreeInv, NEW m \in Names, NotifyJob(m)
    PROVE  TreeInv'
<1>1. m \in Seq(Segments) /\ ChannelFor(m) \in Seq(Segments) /\ DOMAIN found \subseteq Names
  BY NamesAreSequences, ChannelForTyped DEF TreeInv, TreeTypeOK
<1>2. /\ stage = "running" /\ tree' = tree \cup Prefixes(ChannelFor(m))
      /\ found' = Updated(found, m, ChannelFor(m))
      /\ limits' = limits /\ stage' = stage /\ entries' = entries
  BY DEF NotifyJob, Entered
<1>3. /\ DOMAIN found' = DOMAIN found \cup {m}
      /\ \A n \in DOMAIN found' : found'[n] = IF n = m THEN ChannelFor(m) ELSE found[n]
  BY <1>2 DEF Updated
<1>4. IsTree(tree') /\ ChannelFor(m) \in tree'
  BY <1>1, <1>2, TreeGrows DEF TreeInv
<1>5. TreeTypeOK'
  <2>1. \A c \in tree' : Prefixes(c) \subseteq tree'
    BY <1>4 DEF IsTree
  <2>2. DOMAIN found' \subseteq Names /\ \A n \in DOMAIN found' : found'[n] \in tree'
    BY <1>1, <1>2, <1>3, <1>4 DEF TreeInv, TreeTypeOK
  <2>3. DOMAIN limits' \subseteq tree' /\ \A c \in DOMAIN limits' : limits'[c] \in Limits
    BY <1>2 DEF TreeInv, TreeTypeOK
  <2> QED
    BY <1>2, <2>1, <2>2, <2>3 DEF TreeInv, TreeTypeOK
<1>6. LimitsOfItsName'
  <2> SUFFICES ASSUME NoneRepeated(DOMAIN limits), NEW n \in DOMAIN found'
               PROVE  Prefixes(found'[n]) \cap DOMAIN limits = Prefixes(n) \cap DOMAIN limits
    BY <1>2 DEF LimitsOfItsName
  <2>1. CASE n = m
    <3>1. DOMAIN limits \subseteq tree /\ \A c \in DOMAIN limits : Unrepeated(c)
      BY DEF TreeInv, TreeTypeOK, NoneRepeated, Unrepeated
    <3>2. Prefixes(FoundIn(tree, m)) \cap DOMAIN limits = Prefixes(m) \cap DOMAIN limits
      BY <1>1, <3>1, FoundLimits DEF TreeInv
    <3> QED
      BY <1>3, <2>1, <3>2, ChannelForFound
  <2>2. CASE n # m
    BY <1>3, <2>2 DEF TreeInv, LimitsOfItsName
  <2> QED
    BY <2>1, <2>2
<1>7. FoundIsCurrent'
  <2> SUFFICES ASSUME NEW n \in DOMAIN found', Unrepeated(n)
               PROVE  found'[n] = ChannelFor(n)'
    BY DEF FoundIsCurrent
  <2>1. n \in Seq(Segments)
    BY <1>1, <1>3, NamesAreSequences
  <2>2. found'[n] = ChannelFor(n) /\ (n = m \/ ChannelFor(n) \in tree)
    BY <1>3 DEF TreeInv, TreeTypeOK, FoundIsCurrent
  <2>3. FoundIn(tree \cup Prefixes(FoundIn(tree, m)), n) = FoundIn(tree, n)
    BY <1>1, <2>1, <2>2, FoundStays, ChannelForFound DEF TreeInv
  <2> QED
    BY <1>2, <2>2, <2>3, ChannelForFound
<1> QED
  BY <1>2, <1>4, <1>5, <1>6, <1>7 DEF TreeInv

(* What the finding of channels rests on.                                  *)
THEOREM TreeHolds == TreeSpec => []TreeInv
<1>1. TreeInit => TreeInv
  <2> SUFFICES ASSUME TreeInit PROVE TreeInv
    OBVIOUS
  <2>1. RootChannel \in Seq(Segments) /\ Len(RootChannel) = 0
    BY EmptySeq DEF RootChannel
  <2>2. Prefixes(RootChannel) \subseteq {RootChannel}
    <3> SUFFICES ASSUME NEW x \in Prefixes(RootChannel) PROVE x = RootChannel
      OBVIOUS
    <3>1. Len(x) \in Nat /\ Len(x) <= 0
      BY <2>1, PrefixOf, LenProperties
    <3> QED
      BY <2>1, <3>1, PrefixesOrdered
  <2>3. IsTree(tree)
    BY <2>1, <2>2 DEF TreeInit, IsTree
  <2>4. TreeTypeOK /\ DOMAIN found = {}
    <3>1. \A c \in tree : Prefixes(c) \subseteq tree
      BY <2>3 DEF IsTree
    <3>2. [capacity |-> 1, sequential |-> FALSE] \in Limits
      BY DEF Limits
    <3>3. DOMAIN limits = {RootChannel} /\ \A c \in DOMAIN limits : limits[c] \in Limits
      BY <3>2 DEF TreeInit
    <3>4. DOMAIN found = {} /\ tree = {RootChannel} /\ stage = "configuring" /\ entries \in 0 .. MaxEntries
      BY TreeBounds DEF TreeInit
    <3> QED
      BY <3>1, <3>3, <3>4 DEF TreeTypeOK
  <2> QED
    BY <2>3, <2>4 DEF TreeInv, LimitsOfItsName, FoundIsCurrent
<1>2. TreeInv /\ [TreeNext]_treeVars => TreeInv'
  <2> SUFFICES ASSUME TreeInv, [TreeNext]_treeVars PROVE TreeInv'
    OBVIOUS
  <2>1. ASSUME tree' = tree, limits' = limits, entries' = entries, found' = found,
               stage' \in {"configuring", "running", "refused"}, stage' # "running" => stage # "running"
        PROVE  TreeInv'
    <3>1. TreeTypeOK' /\ IsTree(tree')
      BY <2>1 DEF TreeInv, TreeTypeOK, IsTree
    <3>2. LimitsOfItsName'
      BY <2>1 DEF TreeInv, LimitsOfItsName
    <3>3. \A n : ChannelFor(n)' = ChannelFor(n)
      BY <2>1, ChannelForFound
    <3>4. FoundIsCurrent'
      BY <2>1, <3>3 DEF TreeInv, FoundIsCurrent
    <3> QED
      BY <2>1, <3>1, <3>2, <3>4 DEF TreeInv
  <2>2. CASE UNCHANGED treeVars \/ StartRunner
    BY <2>1, <2>2 DEF treeVars, StartRunner, TreeInv, TreeTypeOK
  <2> QED
    BY <2>2, ConfigureKeeps, NotifyJobKeeps DEF TreeNext
<1> QED
  BY <1>1, <1>2, PTL DEF TreeSpec

(* A job is bounded by the configured channels its name goes through, by   *)
(* all of them and by no other (channels.py:948-1024).                     *)
THEOREM NamesLimited == TreeSpec => []LimitsOfItsName
<1>1. TreeInv => LimitsOfItsName
  BY DEF TreeInv
<1> QED
  BY <1>1, TreeHolds, PTL

(* A name leads to the same channel for as long as the runner lives        *)
(* (channels.py:948-1024, 1026-1045).                                      *)
THEOREM NamesStay == TreeSpec => ChannelStays
<1>1. TreeInv /\ [TreeNext]_treeVars =>
        [NoneRepeated(DOMAIN limits \cup DOMAIN found') => \A n \in DOMAIN found : found'[n] = found[n]]_treeVars
  <2> SUFFICES ASSUME TreeInv, TreeNext, NoneRepeated(DOMAIN limits \cup DOMAIN found'), NEW n \in DOMAIN found
               PROVE  found'[n] = found[n]
    OBVIOUS
  <2>1. CASE found' = found
    BY <2>1
  <2>2. ASSUME NEW m \in Names, NotifyJob(m)
        PROVE  found'[n] = found[n]
    <3>1. /\ DOMAIN found' = DOMAIN found \cup {m}
          /\ found'[n] = IF n = m THEN ChannelFor(m) ELSE found[n]
      BY <2>2 DEF NotifyJob, Updated
    <3>2. found[n] = ChannelFor(n)
      BY <3>1 DEF TreeInv, FoundIsCurrent, NoneRepeated, Unrepeated
    <3> QED
      BY <3>1, <3>2
  <2> QED
    BY <2>1, <2>2 DEF TreeNext, ConfigureChannel, StartRunner
<1> QED
  BY <1>1, TreeHolds, PTL DEF TreeSpec, ChannelStays

-----------------------------------------------------------------------------
(* queue_job as a whole                                                    *)

(* A behaviour of the whole is one of each part, so that what is proved of *)
(* a part holds of the whole.                                              *)
LEMMA StackComposes == StackSpec => Spec /\ GraphSpec /\ TreeSpec /\ ElectionSpec
<1>1. StackInit => Init /\ GraphInit /\ TreeInit /\ ElectionInit
  BY DEF StackInit
<1>2. [StackNext]_stackVars =>
        [Next]_vars /\ [GraphNext]_jobGraphVars /\ [TreeNext]_treeVars /\ [ElectionNext]_electionVars
  BY DEF StackNext, stackVars
<1> QED
  BY <1>1, <1>2, PTL DEF StackSpec, Spec, GraphSpec, TreeSpec, ElectionSpec

(* The state of every part is of its type, for any jobs, programs,         *)
(* configurations and runners.                                             *)
THEOREM StackTyped == StackSpec => []StackTypeOK
<1>1. GraphSpec => []GraphTypeOK
  BY GraphTyped
<1>2. TreeSpec => []TreeInv
  BY TreeHolds
<1>3. ElectionSpec => []ElectionInv
  <2>1. ElectionInv /\ [ElectionNext]_electionVars => ElectionInv'
    BY ElectionStep
  <2> QED
    BY <2>1, ElectionStarts, PTL DEF ElectionSpec
<1>4. TypeOK /\ GraphTypeOK /\ TreeInv /\ ElectionInv => StackTypeOK
  BY DEF TreeInv, ElectionInv, StackTypeOK
<1> QED
  BY <1>1, <1>2, <1>3, <1>4, Typed, StackComposes, PTL

(* What the run of queue_job as a whole checks on a small instance, for    *)
(* any: channels, graphs, the configured tree and the runner's election    *)
(* keep their promises (channels.py:421-1076, delay.py:16-606,             *)
(* runner.py:153-642).                                                     *)
THEOREM StackKeeps ==
    StackSpec =>
        /\ [](CapacityKept /\ ExecutionIsKnown /\ ReleaseOwed)
        /\ [](OrderKept /\ DirectRunKeepsOrder /\ LimitsOfItsName /\ MemoryIsCurrent)
        /\ SequenceKept /\ ChannelStays /\ AskedByMaster
<1>1. Spec => []CapacityKept /\ []ExecutionIsKnown /\ []ReleaseOwed /\ SequenceKept
  BY CapacityHolds, ExecutionKnown, SomebodyReleases, SequenceIsKept, PTL
<1>2. GraphSpec => []OrderKept /\ []DirectRunKeepsOrder
  BY OrderIsKept, DirectRunInOrder, PTL
<1>3. TreeSpec => []LimitsOfItsName /\ ChannelStays
  BY NamesLimited, NamesStay, PTL
<1>4. ElectionSpec => []MemoryIsCurrent /\ AskedByMaster
  BY RunnerRemembers, MasterAsks, PTL
<1> QED
  BY <1>1, <1>2, <1>3, <1>4, StackComposes, PTL
=============================================================================
