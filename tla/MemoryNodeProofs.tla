-------------------------- MODULE MemoryNodeProofs --------------------------
(***************************************************************************)
(* Proofs about the memory node, for every number of compute nodes,        *)
(* threads, pods and tids: the types, that tids are recycled clean, that   *)
(* every request is served from the table of the tenant that sent it, and  *)
(* that only an erase still to come keeps a save out of the table.         *)
(***************************************************************************)
EXTENDS MemoryNode, SequenceTheorems, TLAPS

(***************************************************************************)
(* The inductive invariant.                                                *)
(***************************************************************************)
PodOperation == Operation \ {"register"}

\* The list of free tids has no tid twice and none that was never handed out.
TidsOK ==
    /\ TidsClean
    /\ \A i, j \in DOMAIN tidSlots : tidSlots[i] = tidSlots[j] => i = j
    /\ \A i \in DOMAIN tidSlots : tidSlots[i] < largestTid
    /\ \A c \in Conn : tid[c] # None => tid[c] < largestTid

\* A context is filed under the tid of its tenant's main connection.
ContextsOK == \A i \in Tid : contextsByTid[i] # None => tid[contextsByTid[i]] = i

\* Until the tenant exits, the session key leads to its context.
SessionsOK ==
    \A t \in Tenant : sessionKey[t] # None =>
        /\ t \notin exited => tid[t] # None
        /\ tid[t] # None => sessionKey[t] = tid[t] /\ contextsByTid[tid[t]] = t

\* A connected worker is mapped to its tenant's session, and requests come
\* from connections of tenants that have not exited.
WorkersOK ==
    /\ \A c \in Thread : tid[c] # None => sessionKey[TenantOf[c]] # None
    /\ \A c \in Conn : tid[c] # None /\ workerToContextTid[tid[c]] # None =>
           c \in Thread /\ workerToContextTid[tid[c]] = sessionKey[TenantOf[c]]
    /\ \A c \in Conn : request[c] # NoRequest =>
           c \in Thread /\ tid[c] # None /\ TenantOf[c] \notin exited
    /\ \A c \in Thread : request[c][1] \in PodOperation => workerToContextTid[tid[c]] # None

\* A request about a pod is sent with the pod's mutex, which orders the
\* requests about it; the worker is where its request takes it.
RequestsOK ==
    \A c \in Thread :
        /\ request[c][1] \in PodOperation =>
               request[c][2] \in Key /\ lockedBy[TenantOf[c]][request[c][2]] = c
        /\ request[c][1] = "savePod" => place[TenantOf[c]][request[c][2]] = "local"
        /\ serving[c] = "work" => request[c][1] \in PodOperation
        /\ serving[c] = "payload" => request[c][1] = "savePod"
        /\ serving[c] = "send" => request[c][1] \in {"getPod", "getPodCache"}
        /\ serving[c] = "erase" => searchIt[c] \in Key
        /\ serving[c] # "recv" => context[c] = TenantOf[c]

\* A local pod in the table is about to be erased, or being saved.
SavesOK ==
    \A t \in Tenant, k \in Key :
        \/ place[t][k] # "local"
        \/ tenantPods[t][k] = None
        \/ \E c \in Thread : TenantOf[c] = t /\ serving[c] = "erase" /\ searchIt[c] = k
        \/ \E c \in Thread : TenantOf[c] = t /\ serving[c] = "payload" /\ request[c][2] = k

NodeInv == TypeOK /\ TidsOK /\ ContextsOK /\ SessionsOK /\ WorkersOK /\ RequestsOK /\ SavesOK

\* What the assumptions say of the constants.
LEMMA ConstantFacts ==
    /\ Conn = Tenant \cup Thread /\ Tenant \cap Thread = {}
    /\ TenantOf \in [Conn -> Tenant] /\ \A t \in Tenant : TenantOf[t] = t
    /\ None \notin Data /\ None \notin Conn /\ None \notin Tid
    /\ Value \subseteq Data /\ Lost \in Data
    /\ Tid \subseteq Nat
  BY MemoryNodeAssumption DEF Conn, Tid, Data

\* The first entry of a connection without a request is no operation.
LEMMA OperationFacts ==
    /\ NoRequest[1] \notin Operation /\ PodOperation \subseteq Operation
    /\ PodOperation = {"savePod", "getPod", "getPodCache", "freePod"}
    /\ \A o \in Operation : \A k : <<o, k>> # NoRequest
  BY DEF NoRequest, Operation, PodOperation

\* NodeInv holds at the start.
LEMMA InitInv == Init => NodeInv
<1> SUFFICES ASSUME Init
             PROVE  NodeInv
  OBVIOUS
<1> USE ConstantFacts, OperationFacts
<1>1. TypeOK
  <2>1. /\ page \in [Tenant -> [Key -> Data]]
        /\ place \in [Tenant -> [Key -> {"local", "remote", "cache"}]]
        /\ lockedBy \in [Tenant -> [Key -> Thread \cup {None}]]
        /\ tenantPods \in [Tenant -> [Key -> Data \cup {None}]]
    BY DEF Init
  <2>2. tidSlots \in Seq(Tid) /\ largestTid \in Nat
    BY DEF Init
  <2>3. saved \in [Conn -> BOOLEAN]
    BY Zenon DEF Init
  <2>4. /\ sessionKey \in [Tenant -> Tid \cup {None}]
        /\ exited \in SUBSET Tenant
        /\ tid \in [Conn -> Tid \cup {None}]
        /\ contextsByTid \in [Tid -> Tenant \cup {None}]
        /\ workerToContextTid \in [Tid -> Tid \cup {None}]
        /\ context \in [Conn -> Tenant \cup {None}]
        /\ searchIt \in [Conn -> Key \cup {None}]
    BY DEF Init
  <2>5. request \in [Conn -> {NoRequest} \cup (Operation \X (Key \cup {None}))]
    BY DEF Init
  <2>6. serving \in [Conn -> {"recv", "work", "payload", "send", "erase", "short"}]
    BY DEF Init
  <2>. QED
    BY <2>1, <2>2, <2>3, <2>4, <2>5, <2>6 DEF TypeOK
<1>2. TidsOK
  <2>1. DOMAIN tidSlots = {}
    BY DEF Init
  <2>. QED
    BY <2>1 DEF Init, TidsOK, TidsClean
<1>3. ContextsOK /\ SessionsOK
  BY DEF Init, ContextsOK, SessionsOK
<1>4. WorkersOK /\ RequestsOK
  BY DEF Init, WorkersOK, RequestsOK
<1>5. SavesOK
  BY DEF Init, SavesOK
<1>. QED
  BY <1>1, <1>2, <1>3, <1>4, <1>5 DEF NodeInv

(***************************************************************************)
(* Tids.                                                                   *)
(***************************************************************************)

\* mainLoop hands out a tid no connection has, from the list or a new one.
LEMMA AssignTid ==
    ASSUME TypeOK, TidsOK, NEW c \in Conn, tid[c] = None, assignTid(c), UNCHANGED contextVars
    PROVE  /\ \E i \in Tid : /\ \A d \in Conn : tid[d] # i
                             /\ tid' = [tid EXCEPT ![c] = i]
           /\ tidSlots' \in Seq(Tid) /\ largestTid' \in Nat
           /\ TidsOK'
<1> USE ConstantFacts
<1>0. tidSlots \in Seq(Tid) /\ largestTid \in Nat /\ tid \in [Conn -> Tid \cup {None}]
  BY DEF TypeOK
<1>1. CASE tidSlots # <<>> /\ tid' = [tid EXCEPT ![c] = Head(tidSlots)]
           /\ tidSlots' = Tail(tidSlots) /\ UNCHANGED largestTid
  <2> DEFINE n == Len(tidSlots)
             i == Head(tidSlots)
  <2>1. n \in Nat \ {0} /\ DOMAIN tidSlots = 1 .. n /\ i = tidSlots[1]
    BY <1>0, <1>1
  <2>2. /\ tidSlots' \in Seq(Tid) /\ DOMAIN tidSlots' = 1 .. (n - 1)
        /\ \A j \in 1 .. (n - 1) : tidSlots'[j] = tidSlots[j + 1]
    BY <1>0, <1>1, <2>1
  <2>3. i \in Tid
    BY <1>0, <2>1
  <2> HIDE DEF n, i
  <2>4. \A d \in Conn : tid[d] # i
    BY <2>1 DEF TidsOK, TidsClean
  <2>5. \A d \in Conn : tid'[d] = IF d = c THEN i ELSE tid[d]
    BY <1>0, <1>1 DEF i
  <2>6. \A j \in 1 .. (n - 1) : j + 1 \in DOMAIN tidSlots /\ j + 1 # 1
    BY <2>1
  <2>7. \A j \in 1 .. (n - 1) : tidSlots[j + 1] # i
    BY <2>1, <2>6 DEF TidsOK
  <2>8. TidsClean'
    <3>1. \A d, e \in Conn : tid'[d] # None /\ tid'[d] = tid'[e] => d = e
      BY <2>4, <2>5 DEF TidsOK, TidsClean
    <3>2. \A j \in DOMAIN tidSlots' : \A d \in Conn : tid'[d] # tidSlots'[j]
      BY <2>2, <2>5, <2>6, <2>7 DEF TidsOK, TidsClean
    <3>3. ASSUME NEW j \in Tid, \A d \in Conn : tid'[d] # j
          PROVE  \A d \in Conn : tid[d] # j
      BY <2>5, <3>3
    <3>. QED
      BY <3>1, <3>2, <3>3 DEF TidsOK, TidsClean, contextVars
  <2>9. \A j, k \in DOMAIN tidSlots' : tidSlots'[j] = tidSlots'[k] => j = k
    <3> SUFFICES ASSUME NEW j \in 1 .. (n - 1), NEW k \in 1 .. (n - 1),
                        tidSlots[j + 1] = tidSlots[k + 1]
                 PROVE  j = k
      BY <2>2
    <3>1. j + 1 = k + 1
      BY <2>6 DEF TidsOK
    <3>. QED
      BY <3>1, <2>1
  <2>10. \A j \in DOMAIN tidSlots' : tidSlots'[j] < largestTid'
    BY <1>1, <2>2, <2>6 DEF TidsOK
  <2>11. \A d \in Conn : tid'[d] # None => tid'[d] < largestTid'
    BY <1>1, <2>1, <2>5 DEF TidsOK
  <2>12. TidsOK'
    BY <2>8, <2>9, <2>10, <2>11 DEF TidsOK
  <2>. QED
    BY <1>0, <1>1, <2>2, <2>3, <2>4, <2>12 DEF i
<1>2. CASE tidSlots = <<>> /\ largestTid \in Tid /\ tid' = [tid EXCEPT ![c] = largestTid]
           /\ largestTid' = largestTid + 1 /\ UNCHANGED tidSlots
  <2>1. \A d \in Conn : tid[d] # largestTid
    BY <1>0, <1>2 DEF TidsOK
  <2>2. \A d \in Conn : tid'[d] = IF d = c THEN largestTid ELSE tid[d]
    BY <1>0, <1>2
  <2>3. DOMAIN tidSlots' = {}
    BY <1>2
  <2>4. TidsClean'
    <3>1. \A d, e \in Conn : tid'[d] # None /\ tid'[d] = tid'[e] => d = e
      BY <2>1, <2>2 DEF TidsOK, TidsClean
    <3>2. ASSUME NEW j \in Tid, \A d \in Conn : tid'[d] # j
          PROVE  \A d \in Conn : tid[d] # j
      BY <2>2, <3>2
    <3>. QED
      BY <2>3, <3>1, <3>2 DEF TidsOK, TidsClean, contextVars
  <2>5. /\ largestTid \in Tid /\ largestTid' = largestTid + 1
        /\ tid' = [tid EXCEPT ![c] = largestTid] /\ tidSlots' \in Seq(Tid)
    BY <1>0, <1>2
  <2>6. \A d \in Conn : tid'[d] # None => tid'[d] < largestTid'
    <3> SUFFICES ASSUME NEW d \in Conn, tid'[d] # None
                 PROVE  tid'[d] < largestTid'
      OBVIOUS
    <3>1. CASE d = c
      BY <1>0, <2>2, <2>5, <3>1
    <3>2. CASE d # c
      <4>0. tid'[d] = tid[d] /\ tid[d] # None
        BY <2>2, <3>2
      <4>1. tid[d] \in Nat /\ tid[d] < largestTid
        BY <1>0, <4>0 DEF TidsOK
      <4>. QED
        BY <1>0, <2>5, <4>0, <4>1
    <3>. QED
      BY <3>1, <3>2
  <2>7. TidsOK'
    BY <2>3, <2>4, <2>6 DEF TidsOK
  <2>8. \E i \in Tid : (\A d \in Conn : tid[d] # i) /\ tid' = [tid EXCEPT ![c] = i]
    BY <2>1, <2>5
  <2>9. largestTid' \in Nat
    BY <1>0, <2>5
  <2>. QED
    BY <2>5, <2>7, <2>8, <2>9
<1>. QED
  BY <1>1, <1>2 DEF assignTid

\* A worker that ends puts its tid back, with nothing left under it.
LEMMA FreeTid ==
    ASSUME TypeOK, TidsOK, NEW c \in Conn, freeHook(c)
    PROVE  tidSlots' \in Seq(Tid) /\ TidsOK'
<1> USE ConstantFacts
<1> DEFINE i == tid[c]
           n == Len(tidSlots)
<1>0. tidSlots \in Seq(Tid) /\ tid \in [Conn -> Tid \cup {None}]
  BY DEF TypeOK
<1>1. /\ i # None
      /\ contextsByTid' = [contextsByTid EXCEPT ![i] = None]
      /\ workerToContextTid' = [workerToContextTid EXCEPT ![i] = None]
      /\ tidSlots' = <<i>> \o tidSlots
      /\ tid' = [tid EXCEPT ![c] = None]
      /\ UNCHANGED largestTid
  BY DEF freeHook
<1>2. i \in Tid
  BY <1>0, <1>1
<1>3. n \in Nat /\ DOMAIN tidSlots = 1 .. n
  BY <1>0
<1>4. /\ tidSlots' \in Seq(Tid) /\ DOMAIN tidSlots' = 1 .. (n + 1)
      /\ \A j \in 1 .. (n + 1) : tidSlots'[j] = IF j = 1 THEN i ELSE tidSlots[j - 1]
  <2>1. /\ <<i>> \in Seq(Tid) /\ Len(<<i>>) = 1 /\ <<i>>[1] = i
    BY <1>2
  <2> HIDE DEF i, n
  <2>2. /\ <<i>> \o tidSlots \in Seq(Tid)
        /\ Len(<<i>> \o tidSlots) = 1 + Len(tidSlots)
        /\ \A j \in 1 .. (1 + Len(tidSlots)) :
              (<<i>> \o tidSlots)[j] = IF j <= 1 THEN <<i>>[j] ELSE tidSlots[j - 1]
    BY <1>0, <2>1, ConcatProperties
  <2>3. DOMAIN (<<i>> \o tidSlots) = 1 .. (n + 1)
    BY <1>3, <2>2 DEF n
  <2>. QED
    BY <1>1, <1>3, <2>1, <2>2, <2>3 DEF n
<1> HIDE DEF i, n
<1>5. \A d \in Conn : tid'[d] = IF d = c THEN None ELSE tid[d]
  BY <1>0, <1>1
<1>6. \A d \in Conn : tid'[d] # i
  BY <1>1, <1>5 DEF TidsOK, TidsClean, i
<1>7. \A j \in 2 .. (n + 1) : j - 1 \in DOMAIN tidSlots
  BY <1>3
<1>8. \A j \in DOMAIN tidSlots : tidSlots[j] # i
  BY DEF TidsOK, TidsClean, i
<1>9. TidsClean'
  <2>1. \A d, e \in Conn : tid'[d] # None /\ tid'[d] = tid'[e] => d = e
    BY <1>5 DEF TidsOK, TidsClean
  <2>2. ASSUME NEW j \in DOMAIN tidSlots', NEW d \in Conn
        PROVE  tid'[d] # tidSlots'[j]
    <3>1. CASE j = 1
      BY <1>4, <1>6, <3>1
    <3>2. CASE j # 1
      <4>1. j \in 2 .. (n + 1)
        BY <1>3, <1>4, <3>2
      <4>2. tidSlots'[j] = tidSlots[j - 1] /\ tidSlots'[j] \in Tid
        BY <1>0, <1>3, <1>4, <1>7, <4>1
      <4>. QED
        BY <1>5, <1>7, <4>1, <4>2 DEF TidsOK, TidsClean
    <3>. QED
      BY <3>1, <3>2
  <2>3. ASSUME NEW j \in Tid, \A d \in Conn : tid'[d] # j
        PROVE  contextsByTid'[j] = None /\ workerToContextTid'[j] = None
    <3>1. CASE j = i
      BY <1>1, <3>1 DEF TypeOK
    <3>2. CASE j # i
      <4>1. \A d \in Conn : tid[d] # j
        BY <1>5, <2>3, <3>2 DEF i
      <4>. QED
        BY <1>1, <3>2, <4>1 DEF TypeOK, TidsOK, TidsClean
    <3>. QED
      BY <3>1, <3>2
  <2>. QED
    BY <2>1, <2>2, <2>3 DEF TidsClean
<1>10. ASSUME NEW j \in DOMAIN tidSlots', NEW k \in DOMAIN tidSlots', tidSlots'[j] = tidSlots'[k]
       PROVE  j = k
  <2>1. CASE j = 1 \/ k = 1
    BY <1>3, <1>4, <1>7, <1>8, <1>10, <2>1
  <2>2. CASE j # 1 /\ k # 1
    <3>1. j \in 2 .. (n + 1) /\ k \in 2 .. (n + 1)
      BY <1>3, <1>4, <2>2
    <3>2. tidSlots[j - 1] = tidSlots[k - 1]
      BY <1>3, <1>4, <1>10, <3>1
    <3>3. j - 1 = k - 1
      BY <1>7, <3>1, <3>2 DEF TidsOK
    <3>. QED
      BY <1>3, <3>1, <3>3
  <2>. QED
    BY <2>1, <2>2
<1>11. \A j \in DOMAIN tidSlots' : tidSlots'[j] < largestTid'
  BY <1>1, <1>3, <1>4, <1>7 DEF TidsOK, i
<1>12. \A d \in Conn : tid'[d] # None => tid'[d] < largestTid'
  BY <1>1, <1>5 DEF TidsOK
<1>13. TidsOK'
  BY <1>9, <1>10, <1>11, <1>12 DEF TidsOK
<1>. QED
  BY <1>4, <1>13

(***************************************************************************)
(* Contexts, sessions and the mapping of workers to contexts.              *)
(***************************************************************************)
ConnectionsOK == TidsOK /\ ContextsOK /\ SessionsOK /\ WorkersOK

\* A step that answers at most one request and touches no table of tids.
LEMMA AnswerConnections ==
    ASSUME TypeOK, ConnectionsOK, UNCHANGED <<tidVars, contextVars, sessionKey, exited>>,
           NEW c \in Conn, UNCHANGED request \/ request' = [request EXCEPT ![c] = NoRequest]
    PROVE  ConnectionsOK'
<1> USE ConstantFacts, OperationFacts DEF tidVars, contextVars
<1>1. TidsOK'
  BY DEF ConnectionsOK, TidsOK, TidsClean
<1>2. ContextsOK' /\ SessionsOK'
  BY DEF ConnectionsOK, ContextsOK, SessionsOK
<1>3. \A d \in Conn : request'[d] = request[d] \/ request'[d] = NoRequest
  BY DEF TypeOK
<1>4. WorkersOK'
  BY <1>3 DEF ConnectionsOK, WorkersOK
<1>. QED
  BY <1>1, <1>2, <1>4 DEF ConnectionsOK

\* The steps of a worker that is at a request about a pod.
PodStep(c, k) ==
    \/ savePodReject(c, k) \/ savePodHandler(c, k) \/ savePodPayload(c, k)
    \/ getPodHandler(c, k) \/ sendPodPayload(c, k) \/ freePodHandler(c, k)

\* The handlers of a pod's requests leave connections and contexts alone.
LEMMA PodFrame ==
    ASSUME NEW c \in Thread, NEW k \in Key, PodStep(c, k)
    PROVE  /\ UNCHANGED <<tidVars, contextVars, sessionKey, exited>>
           /\ UNCHANGED request \/ request' = [request EXCEPT ![c] = NoRequest]
  BY DEF PodStep, savePodReject, savePodHandler, savePodPayload, getPodHandler,
         sendPodPayload, freePodHandler, Answer, clientVars

\* A connection that is opened finds nothing under its tid.
LEMMA OpenConnections ==
    ASSUME TypeOK, ConnectionsOK, NEW c \in Conn, tid[c] = None, assignTid(c),
           TenantOf[c] \notin exited,
           c \in Thread => sessionKey[TenantOf[c]] # None,
           UNCHANGED <<contextVars, sessionKey, exited>>,
           \/ UNCHANGED request
           \/ c \in Thread /\ request' = [request EXCEPT ![c] = <<"register", None>>]
    PROVE  ConnectionsOK'
<1> USE ConstantFacts, OperationFacts DEF contextVars
<1>1. PICK i \in Tid : (\A d \in Conn : tid[d] # i) /\ tid' = [tid EXCEPT ![c] = i]
  BY AssignTid DEF ConnectionsOK
<1>2. TidsOK'
  BY AssignTid DEF ConnectionsOK
<1>3. contextsByTid[i] = None /\ workerToContextTid[i] = None
  BY <1>1 DEF ConnectionsOK, TidsOK, TidsClean
<1>4. \A d \in Conn : tid'[d] = IF d = c THEN i ELSE tid[d]
  BY <1>1 DEF TypeOK
<1>5. ContextsOK'
  <2> SUFFICES ASSUME NEW j \in Tid, contextsByTid[j] # None
               PROVE  tid'[contextsByTid[j]] = j
    BY DEF ContextsOK
  <2>1. contextsByTid[j] \in Conn /\ tid[contextsByTid[j]] = j
    BY DEF TypeOK, ConnectionsOK, ContextsOK
  <2>. QED
    BY <1>4, <2>1
<1>6. SessionsOK'
  <2> SUFFICES ASSUME NEW t \in Tenant, sessionKey[t] # None
               PROVE  /\ t \notin exited => tid'[t] # None
                      /\ tid'[t] # None => sessionKey[t] = tid'[t] /\ contextsByTid[tid'[t]] = t
    BY DEF SessionsOK
  <2>1. t # c
    BY DEF ConnectionsOK, SessionsOK
  <2>. QED
    BY <1>4, <2>1 DEF ConnectionsOK, SessionsOK
<1>7. WorkersOK'
  <2>1. \A d \in Conn : \/ request'[d] = request[d]
                        \/ d = c /\ c \in Thread /\ request'[d] = <<"register", None>>
    BY DEF TypeOK
  <2>2. \A d \in Thread : tid'[d] # None => sessionKey[TenantOf[d]] # None
    BY <1>4 DEF ConnectionsOK, WorkersOK
  <2>3. \A d \in Conn : tid'[d] # None /\ workerToContextTid[tid'[d]] # None =>
           d \in Thread /\ workerToContextTid[tid'[d]] = sessionKey[TenantOf[d]]
    BY <1>3, <1>4 DEF ConnectionsOK, WorkersOK
  <2>4. \A d \in Conn : request'[d] # NoRequest =>
           d \in Thread /\ tid'[d] # None /\ TenantOf[d] \notin exited
    BY <1>4, <2>1 DEF ConnectionsOK, WorkersOK
  <2>5. ASSUME NEW d \in Thread, request'[d][1] \in PodOperation
        PROVE  workerToContextTid[tid'[d]] # None
    <3>1. request'[d] # <<"register", None>>
      BY <2>5
    <3>2. request'[d] = request[d] /\ request[d] # NoRequest
      BY <2>1, <2>5, <3>1
    <3>3. d # c
      BY <3>2 DEF ConnectionsOK, WorkersOK
    <3>. QED
      BY <1>4, <2>5, <3>2, <3>3 DEF ConnectionsOK, WorkersOK
  <2>. QED
    BY <2>2, <2>3, <2>4, <2>5 DEF WorkersOK
<1>. QED
  BY <1>2, <1>5, <1>6, <1>7 DEF ConnectionsOK

\* The main connection's tid becomes the session key, with the context under it.
LEMMA SessionConnections ==
    ASSUME TypeOK, ConnectionsOK, NEW t \in Tenant, contextInitCheck(t)
    PROVE  ConnectionsOK'
<1> USE ConstantFacts, OperationFacts DEF tidVars, contextVars
<1>0. /\ tid[t] # None /\ t \notin exited /\ sessionKey[t] = None
      /\ contextsByTid' = IF contextsByTid[tid[t]] = None
                          THEN [contextsByTid EXCEPT ![tid[t]] = t]
                          ELSE contextsByTid
      /\ sessionKey' = [sessionKey EXCEPT ![t] = tid[t]]
      /\ UNCHANGED <<exited, request, tidVars, workerToContextTid>>
  BY DEF contextInitCheck
<1>1. tid[t] \in Tid
  BY <1>0 DEF TypeOK
<1>2. contextsByTid[tid[t]] # None => contextsByTid[tid[t]] = t
  <2>1. contextsByTid[tid[t]] # None => /\ contextsByTid[tid[t]] \in Conn
                                        /\ tid[contextsByTid[tid[t]]] = tid[t]
    BY <1>1 DEF TypeOK, ConnectionsOK, ContextsOK
  <2>. QED
    BY <1>0, <2>1 DEF ConnectionsOK, TidsOK, TidsClean
<1>3. \A i \in Tid : contextsByTid'[i] = IF i = tid[t] THEN t ELSE contextsByTid[i]
  BY <1>0, <1>1, <1>2 DEF TypeOK
<1>4. \A u \in Tenant : sessionKey'[u] = IF u = t THEN tid[t] ELSE sessionKey[u]
  BY <1>0 DEF TypeOK
<1>5. TidsOK'
  <2>1. ASSUME NEW i \in Tid, \A c \in Conn : tid[c] # i
        PROVE  contextsByTid'[i] = None /\ workerToContextTid[i] = None
    <3>1. i # tid[t]
      BY <2>1
    <3>. QED
      BY <1>3, <2>1, <3>1 DEF ConnectionsOK, TidsOK, TidsClean
  <2>. QED
    BY <1>0, <2>1 DEF ConnectionsOK, TidsOK, TidsClean
<1>6. ContextsOK'
  BY <1>0, <1>3 DEF ConnectionsOK, ContextsOK
<1>7. SessionsOK'
  <2> SUFFICES ASSUME NEW u \in Tenant, sessionKey'[u] # None
               PROVE  /\ u \notin exited => tid[u] # None
                      /\ tid[u] # None => sessionKey'[u] = tid[u] /\ contextsByTid'[tid[u]] = u
    BY <1>0 DEF SessionsOK
  <2>1. CASE u = t
    BY <1>0, <1>1, <1>3, <1>4, <2>1
  <2>2. CASE u # t
    <3>1. tid[u] # None => tid[u] \in Tid /\ tid[u] # tid[t]
      BY <2>2 DEF TypeOK, ConnectionsOK, TidsOK, TidsClean
    <3>. QED
      BY <1>3, <1>4, <2>2, <3>1 DEF ConnectionsOK, SessionsOK
  <2>. QED
    BY <2>1, <2>2
<1>8. WorkersOK'
  <2>1. \A c \in Thread : tid[c] # None => TenantOf[c] # t
    BY <1>0 DEF ConnectionsOK, WorkersOK
  <2>2. \A c \in Thread : tid[c] # None => sessionKey'[TenantOf[c]] = sessionKey[TenantOf[c]]
    BY <1>4, <2>1
  <2>3. \A c \in Thread : tid[c] # None => sessionKey'[TenantOf[c]] # None
    BY <2>2 DEF ConnectionsOK, WorkersOK
  <2>4. \A c \in Conn : tid[c] # None /\ workerToContextTid[tid[c]] # None =>
           c \in Thread /\ workerToContextTid[tid[c]] = sessionKey'[TenantOf[c]]
    BY <2>2 DEF ConnectionsOK, WorkersOK
  <2>. QED
    BY <1>0, <2>3, <2>4 DEF ConnectionsOK, WorkersOK
<1>. QED
  BY <1>5, <1>6, <1>7, <1>8 DEF ConnectionsOK

\* A thread's connection is mapped to its tenant's session.
LEMMA RegisterConnections ==
    ASSUME TypeOK, ConnectionsOK, NEW c \in Thread, contextRegisterHandler(c)
    PROVE  ConnectionsOK'
<1> USE ConstantFacts, OperationFacts DEF tidVars, contextVars
<1>0. /\ request[c][1] = "register"
      /\ workerToContextTid' =
             IF workerToContextTid[tid[c]] = None
             THEN [workerToContextTid EXCEPT ![tid[c]] = sessionKey[TenantOf[c]]]
             ELSE workerToContextTid
      /\ request' = [request EXCEPT ![c] = NoRequest]
      /\ UNCHANGED <<sessionKey, exited, tidVars, contextsByTid>>
  BY DEF contextRegisterHandler, clientVars
<1>1. request[c] # NoRequest
  BY <1>0 DEF Operation
<1>2. tid[c] \in Tid /\ tid[c] # None
  BY <1>1 DEF TypeOK, ConnectionsOK, WorkersOK
<1>3. sessionKey[TenantOf[c]] # None
  BY <1>2 DEF ConnectionsOK, WorkersOK
<1>4. \A i \in Tid : \/ workerToContextTid'[i] = workerToContextTid[i]
                     \/ /\ i = tid[c] /\ workerToContextTid'[i] = sessionKey[TenantOf[c]]
  BY <1>0, <1>2 DEF TypeOK
<1>5. \A d \in Conn : tid[d] # None => tid[d] \in Tid /\ (tid[d] = tid[c] => d = c)
  BY DEF TypeOK, ConnectionsOK, TidsOK, TidsClean
<1>6. \A d \in Conn : request'[d] = request[d] \/ request'[d] = NoRequest
  BY <1>0 DEF TypeOK
<1>7. TidsOK'
  <2>1. ASSUME NEW i \in Tid, \A d \in Conn : tid[d] # i
        PROVE  contextsByTid[i] = None /\ workerToContextTid'[i] = None
    <3>1. i # tid[c]
      BY <2>1
    <3>. QED
      BY <1>4, <2>1, <3>1 DEF ConnectionsOK, TidsOK, TidsClean
  <2>. QED
    BY <1>0, <2>1 DEF ConnectionsOK, TidsOK, TidsClean
<1>8. ContextsOK' /\ SessionsOK'
  BY <1>0 DEF ConnectionsOK, ContextsOK, SessionsOK
<1>9. WorkersOK'
  <2>1. \A d \in Conn : tid[d] # None /\ workerToContextTid'[tid[d]] # None =>
           d \in Thread /\ workerToContextTid'[tid[d]] = sessionKey[TenantOf[d]]
    BY <1>4, <1>5 DEF ConnectionsOK, WorkersOK
  <2>2. ASSUME NEW d \in Thread, request'[d][1] \in PodOperation
        PROVE  workerToContextTid'[tid[d]] # None
    <3>1. request'[d] = request[d] /\ request[d] # NoRequest
      BY <1>6, <2>2
    <3>2. tid[d] \in Tid /\ workerToContextTid[tid[d]] # None
      BY <1>5, <2>2, <3>1 DEF ConnectionsOK, WorkersOK
    <3>. QED
      BY <1>3, <1>4, <3>2
  <2>. QED
    BY <1>0, <1>6, <2>1, <2>2 DEF ConnectionsOK, WorkersOK
<1>. QED
  BY <1>7, <1>8, <1>9 DEF ConnectionsOK

\* The end of a worker takes away its own entries only.
LEMMA FreeConnections ==
    ASSUME TypeOK, ConnectionsOK, NEW c \in Conn, freeHook(c)
    PROVE  ConnectionsOK'
<1> USE ConstantFacts, OperationFacts DEF tidVars, contextVars
<1> DEFINE i == tid[c]
<1>0. /\ TenantOf[c] \in exited /\ i # None
      /\ contextsByTid' = [contextsByTid EXCEPT ![i] = None]
      /\ workerToContextTid' = [workerToContextTid EXCEPT ![i] = None]
      /\ tid' = [tid EXCEPT ![c] = None]
      /\ UNCHANGED <<sessionKey, exited, request>>
  BY DEF freeHook, clientVars
<1>1. i \in Tid
  BY <1>0 DEF TypeOK
<1>2. /\ \A d \in Conn : tid'[d] = IF d = c THEN None ELSE tid[d]
      /\ \A j \in Tid : contextsByTid'[j] = IF j = i THEN None ELSE contextsByTid[j]
      /\ \A j \in Tid : workerToContextTid'[j] = IF j = i THEN None ELSE workerToContextTid[j]
  BY <1>0 DEF TypeOK
<1>3. \A d \in Conn : tid[d] # None => tid[d] \in Tid /\ (tid[d] = i => d = c)
  BY DEF TypeOK, ConnectionsOK, TidsOK, TidsClean
<1> HIDE DEF i
<1>4. TidsOK'
  BY FreeTid DEF ConnectionsOK
<1>5. ContextsOK'
  <2> SUFFICES ASSUME NEW j \in Tid, contextsByTid'[j] # None
               PROVE  tid'[contextsByTid'[j]] = j
    BY DEF ContextsOK
  <2>1. j # i /\ contextsByTid'[j] = contextsByTid[j] /\ contextsByTid[j] # None
    BY <1>2
  <2>2. contextsByTid[j] \in Conn /\ tid[contextsByTid[j]] = j
    BY <2>1 DEF TypeOK, ConnectionsOK, ContextsOK
  <2>. QED
    BY <1>2, <2>1, <2>2 DEF i
<1>6. SessionsOK'
  <2> SUFFICES ASSUME NEW u \in Tenant, sessionKey[u] # None
               PROVE  /\ u \notin exited => tid'[u] # None
                      /\ tid'[u] # None => sessionKey[u] = tid'[u] /\ contextsByTid'[tid'[u]] = u
    BY <1>0 DEF SessionsOK
  <2>1. CASE u = c
    BY <1>0, <1>2, <2>1
  <2>2. CASE u # c
    <3>1. /\ u \notin exited => tid[u] # None
          /\ tid[u] # None => sessionKey[u] = tid[u] /\ contextsByTid[tid[u]] = u
      BY DEF ConnectionsOK, SessionsOK
    <3>2. u \in Conn /\ tid'[u] = tid[u]
      BY <1>2, <2>2
    <3>3. tid[u] # None => tid[u] \in Tid /\ tid[u] # i
      BY <1>3, <2>2, <3>2
    <3>4. tid[u] # None => contextsByTid'[tid[u]] = contextsByTid[tid[u]]
      BY <1>2, <3>3
    <3>. QED
      BY <3>1, <3>2, <3>4
  <2>. QED
    BY <2>1, <2>2
<1>7. WorkersOK'
  <2>1. \A d \in Conn : tid'[d] # None => d # c /\ tid'[d] = tid[d]
                            /\ workerToContextTid'[tid[d]] = workerToContextTid[tid[d]]
    BY <1>2, <1>3
  <2>2. request[c] = NoRequest
    BY <1>0 DEF ConnectionsOK, WorkersOK
  <2>3. ASSUME NEW d \in Thread, request[d][1] \in PodOperation
        PROVE  d # c /\ tid'[d] = tid[d] /\ tid[d] # None
    BY <1>2, <2>2, <2>3 DEF ConnectionsOK, WorkersOK
  <2>4. \A d \in Thread : request[d][1] \in PodOperation => workerToContextTid'[tid'[d]] # None
    BY <2>1, <2>3 DEF ConnectionsOK, WorkersOK
  <2>5. \A d \in Conn : request[d] # NoRequest =>
           d \in Thread /\ tid'[d] # None /\ TenantOf[d] \notin exited
    BY <1>2, <2>2 DEF ConnectionsOK, WorkersOK
  <2>6. \A d \in Conn : tid'[d] # None /\ workerToContextTid'[tid'[d]] # None =>
           d \in Thread /\ workerToContextTid'[tid'[d]] = sessionKey[TenantOf[d]]
    BY <2>1 DEF ConnectionsOK, WorkersOK
  <2>. QED
    BY <1>0, <2>1, <2>4, <2>5, <2>6 DEF ConnectionsOK, WorkersOK
<1>. QED
  BY <1>4, <1>5, <1>6, <1>7 DEF ConnectionsOK

\* So every step keeps tids, contexts and workers in order.
LEMMA ConnectionsStep ==
    ASSUME TypeOK, ConnectionsOK, Next
    PROVE  ConnectionsOK'
<1> USE ConstantFacts, OperationFacts
<1>1. ASSUME NEW t \in Tenant, OpenMain(t)
      PROVE  ConnectionsOK'
  <2>1. UNCHANGED <<contextVars, sessionKey, exited, request>> /\ TenantOf[t] = t
    BY <1>1 DEF OpenMain, clientVars
  <2>. QED
    BY <1>1, <2>1, OpenConnections DEF OpenMain
<1>2. ASSUME NEW c \in Thread, OpenThread(c)
      PROVE  ConnectionsOK'
  <2>1. UNCHANGED <<contextVars, sessionKey, exited>>
    BY <1>2 DEF OpenThread, clientVars
  <2>. QED
    BY <1>2, <2>1, OpenConnections DEF OpenThread
<1>3. ASSUME NEW t \in Tenant, Exit(t)
      PROVE  ConnectionsOK'
  <2>1. /\ exited' = exited \cup {t} /\ UNCHANGED <<sessionKey, request, tidVars, contextVars>>
        /\ \A c \in Conn : TenantOf[c] = t => request[c] = NoRequest
    BY <1>3 DEF Exit
  <2>2. TidsOK'
    BY <2>1 DEF tidVars, contextVars, ConnectionsOK, TidsOK, TidsClean
  <2>3. ContextsOK' /\ SessionsOK'
    BY <2>1 DEF tidVars, contextVars, ConnectionsOK, ContextsOK, SessionsOK
  <2>4. WorkersOK'
    BY <2>1 DEF tidVars, contextVars, ConnectionsOK, WorkersOK
  <2>. QED
    BY <2>2, <2>3, <2>4 DEF ConnectionsOK
<1>4. ASSUME NEW t \in Tenant, NEW k \in Key, NEW v \in Value, WritePage(t, k, v)
      PROVE  ConnectionsOK'
  BY <1>4, AnswerConnections DEF WritePage
<1>5. ASSUME NEW t \in Tenant, NEW k \in Key, remoteCacheToRemote(t, k)
      PROVE  ConnectionsOK'
  BY <1>5, AnswerConnections DEF remoteCacheToRemote
<1>6. ASSUME NEW c \in Thread, NEW k \in Key, NEW o \in Operation \ {"register"}, Send(c, k, o)
      PROVE  ConnectionsOK'
  <2>1. /\ tid[c] # None /\ TenantOf[c] \notin exited /\ workerToContextTid[tid[c]] # None
        /\ request' = [request EXCEPT ![c] = <<o, k>>]
        /\ UNCHANGED <<sessionKey, exited, tidVars, contextVars>>
    BY <1>6 DEF Send
  <2>2. \A d \in Conn : d # c => request'[d] = request[d]
    BY <2>1 DEF TypeOK
  <2>3. TidsOK'
    BY <2>1 DEF tidVars, contextVars, ConnectionsOK, TidsOK, TidsClean
  <2>4. ContextsOK' /\ SessionsOK'
    BY <2>1 DEF tidVars, contextVars, ConnectionsOK, ContextsOK, SessionsOK
  <2>5. WorkersOK'
    BY <2>1, <2>2 DEF tidVars, contextVars, ConnectionsOK, WorkersOK
  <2>. QED
    BY <2>3, <2>4, <2>5 DEF ConnectionsOK
<1>7. ASSUME NEW c \in Thread, NEW k \in Key, PodStep(c, k)
      PROVE  ConnectionsOK'
  BY <1>7, PodFrame, AnswerConnections
<1>8. ASSUME NEW c \in Thread, contextTid(c) \/ ErasePod(c)
      PROVE  ConnectionsOK'
  <2>1. UNCHANGED <<tidVars, contextVars, sessionKey, exited>> /\ UNCHANGED request
    BY <1>8 DEF contextTid, ErasePod, clientVars
  <2>. QED
    BY <2>1, AnswerConnections
<1>. QED
  BY <1>1, <1>2, <1>3, <1>4, <1>5, <1>6, <1>7, <1>8, SessionConnections, RegisterConnections,
     FreeConnections DEF Next, TenantStep, ThreadStep, WorkerStep, PodStep

(***************************************************************************)
(* Types.                                                                  *)
(***************************************************************************)
ClientTypeOK ==
    /\ place \in [Tenant -> [Key -> {"local", "remote", "cache"}]]
    /\ page \in [Tenant -> [Key -> Data]]
    /\ lockedBy \in [Tenant -> [Key -> Thread \cup {None}]]
    /\ sessionKey \in [Tenant -> Tid \cup {None}]
    /\ exited \in SUBSET Tenant
    /\ request \in [Conn -> {NoRequest} \cup (Operation \X (Key \cup {None}))]

NodeTypeOK ==
    /\ tid \in [Conn -> Tid \cup {None}]
    /\ tidSlots \in Seq(Tid) /\ largestTid \in Nat
    /\ contextsByTid \in [Tid -> Tenant \cup {None}]
    /\ workerToContextTid \in [Tid -> Tid \cup {None}]
    /\ tenantPods \in [Tenant -> [Key -> Data \cup {None}]]

WorkerTypeOK ==
    /\ serving \in [Conn -> {"recv", "work", "payload", "send", "erase", "short"}]
    /\ context \in [Conn -> Tenant \cup {None}]
    /\ saved \in [Conn -> BOOLEAN]
    /\ searchIt \in [Conn -> Key \cup {None}]

\* The type invariant is that of the clients, the tables and the workers.
LEMMA TypeParts == TypeOK <=> ClientTypeOK /\ NodeTypeOK /\ WorkerTypeOK
  BY DEF TypeOK, ClientTypeOK, NodeTypeOK, WorkerTypeOK

\* The answer to a request, for the types.
LEMMA AnswerTypes ==
    ASSUME ClientTypeOK, NEW c \in Thread, request[c][2] \in Key, NEW d \in Data,
           NEW pl \in {"local", "remote", "cache"}, Answer(c, pl, d)
    PROVE  ClientTypeOK'
  BY ConstantFacts DEF ClientTypeOK, Answer

\* A worker that is done with a request keeps the types.
LEMMA ReturnTypes ==
    ASSUME WorkerTypeOK, NEW c \in Thread, Return(c)
    PROVE  WorkerTypeOK'
<1>1. saved' \in [Conn -> BOOLEAN]
  BY ConstantFacts, Zenon DEF Return, WorkerTypeOK
<1>. QED
  BY <1>1, ConstantFacts DEF Return, WorkerTypeOK

\* Every step keeps the types.
LEMMA TypeStep ==
    ASSUME TypeOK, ConnectionsOK, RequestsOK, Next
    PROVE  TypeOK'
<1> USE ConstantFacts, OperationFacts
<1>0. ClientTypeOK /\ NodeTypeOK /\ WorkerTypeOK
  BY TypeParts
<1> SUFFICES ClientTypeOK' /\ NodeTypeOK' /\ WorkerTypeOK'
  BY TypeParts DEF TypeOK, ClientTypeOK, NodeTypeOK, WorkerTypeOK
<1>1. ASSUME NEW t \in Tenant, OpenMain(t)
      PROVE  ClientTypeOK' /\ NodeTypeOK' /\ WorkerTypeOK'
  <2>1. /\ tid' \in [Conn -> Tid \cup {None}]
        /\ tidSlots' \in Seq(Tid) /\ largestTid' \in Nat
    <3>1. /\ \E i \in Tid : tid' = [tid EXCEPT ![t] = i]
          /\ tidSlots' \in Seq(Tid) /\ largestTid' \in Nat
      BY <1>1, AssignTid DEF OpenMain, ConnectionsOK
    <3>. QED
      BY <1>0, <3>1 DEF NodeTypeOK
  <2>. QED
    BY <1>0, <1>1, <2>1 DEF OpenMain, clientVars, contextVars, workerVars, ClientTypeOK,
                            NodeTypeOK, WorkerTypeOK
<1>2. ASSUME NEW t \in Tenant, contextInitCheck(t)
      PROVE  ClientTypeOK' /\ NodeTypeOK' /\ WorkerTypeOK'
  <2>1. tid[t] \in Tid
    BY <1>2 DEF contextInitCheck, TypeOK
  <2>. QED
    BY <1>0, <1>2, <2>1 DEF contextInitCheck, tidVars, workerVars, ClientTypeOK, NodeTypeOK,
                            WorkerTypeOK
<1>3. ASSUME NEW c \in Thread, OpenThread(c)
      PROVE  ClientTypeOK' /\ NodeTypeOK' /\ WorkerTypeOK'
  <2>1. /\ tid' \in [Conn -> Tid \cup {None}]
        /\ tidSlots' \in Seq(Tid) /\ largestTid' \in Nat
    <3>1. /\ \E i \in Tid : tid' = [tid EXCEPT ![c] = i]
          /\ tidSlots' \in Seq(Tid) /\ largestTid' \in Nat
      BY <1>3, AssignTid DEF OpenThread, ConnectionsOK
    <3>. QED
      BY <1>0, <3>1 DEF NodeTypeOK
  <2>2. request' \in [Conn -> {NoRequest} \cup (Operation \X (Key \cup {None}))]
    BY <1>0, <1>3 DEF OpenThread, ClientTypeOK, Operation
  <2>. QED
    BY <1>0, <1>3, <2>1, <2>2 DEF OpenThread, clientVars, contextVars, workerVars,
                                  ClientTypeOK, NodeTypeOK, WorkerTypeOK
<1>4. ASSUME NEW c \in Thread, contextRegisterHandler(c)
      PROVE  ClientTypeOK' /\ NodeTypeOK' /\ WorkerTypeOK'
  <2>1. request[c] # NoRequest
    BY <1>4 DEF contextRegisterHandler, Operation
  <2>2. tid[c] \in Tid
    BY <1>0, <2>1 DEF NodeTypeOK, ConnectionsOK, WorkersOK
  <2>3. ClientTypeOK' /\ WorkerTypeOK'
    BY <1>0, <1>4 DEF contextRegisterHandler, clientVars, workerVars, ClientTypeOK, WorkerTypeOK
  <2>4. NodeTypeOK'
    BY <1>0, <1>4, <2>2 DEF contextRegisterHandler, tidVars, ClientTypeOK, NodeTypeOK
  <2>. QED
    BY <2>3, <2>4
<1>5. ASSUME NEW t \in Tenant, Exit(t)
      PROVE  ClientTypeOK' /\ NodeTypeOK' /\ WorkerTypeOK'
  BY <1>0, <1>5 DEF Exit, tidVars, contextVars, workerVars, ClientTypeOK, NodeTypeOK,
                    WorkerTypeOK
<1>6. ASSUME NEW c \in Conn, freeHook(c)
      PROVE  ClientTypeOK' /\ NodeTypeOK' /\ WorkerTypeOK'
  <2>1. tidSlots' \in Seq(Tid)
    BY <1>6, FreeTid DEF ConnectionsOK
  <2>2. tid[c] \in Tid
    BY <1>0, <1>6 DEF freeHook, NodeTypeOK
  <2>3. tenantPods' \in [Tenant -> [Key -> Data \cup {None}]]
    <3>1. [k \in Key |-> None] \in [Key -> Data \cup {None}]
      OBVIOUS
    <3>2. contextsByTid[tid[c]] \in Tenant \cup {None}
      BY <1>0, <2>2 DEF NodeTypeOK
    <3>. QED
      BY <1>0, <1>6, <3>1, <3>2 DEF freeHook, NodeTypeOK
  <2>4. NodeTypeOK'
    BY <1>0, <1>6, <2>1, <2>2, <2>3 DEF freeHook, NodeTypeOK
  <2>. QED
    BY <1>0, <1>6, <2>4 DEF freeHook, clientVars, workerVars, ClientTypeOK, WorkerTypeOK
<1>7. ASSUME NEW c \in Thread, NEW k \in Key, NEW o \in Operation \ {"register"}, Send(c, k, o)
      PROVE  ClientTypeOK' /\ NodeTypeOK' /\ WorkerTypeOK'
  <2>1. ClientTypeOK'
    BY <1>0, <1>7 DEF Send, ClientTypeOK
  <2>. QED
    BY <1>0, <1>7, <2>1 DEF Send, tidVars, contextVars, workerVars, NodeTypeOK, WorkerTypeOK
<1>8. ASSUME NEW c \in Thread, contextTid(c)
      PROVE  ClientTypeOK' /\ NodeTypeOK' /\ WorkerTypeOK'
  <2>1. request[c] # NoRequest /\ request[c][1] \in PodOperation
    BY <1>8 DEF contextTid, PodOperation
  <2>2. tid[c] \in Tid /\ workerToContextTid[tid[c]] # None
    BY <1>0, <2>1 DEF NodeTypeOK, ConnectionsOK, WorkersOK
  <2>3. contextsByTid[workerToContextTid[tid[c]]] \in Tenant \cup {None}
    BY <1>0, <2>2 DEF NodeTypeOK
  <2>. QED
    BY <1>0, <1>8, <2>3 DEF contextTid, clientVars, tidVars, contextVars, ClientTypeOK,
                            NodeTypeOK, WorkerTypeOK
<1>9. ASSUME NEW c \in Thread, ErasePod(c)
      PROVE  ClientTypeOK' /\ NodeTypeOK' /\ WorkerTypeOK'
  <2>1. Return(c) /\ UNCHANGED <<clientVars, request, tidVars, contextVars>>
        /\ tenantPods' = [tenantPods EXCEPT ![context[c]][searchIt[c]] = None]
    BY <1>9 DEF ErasePod
  <2>2. context[c] \in Tenant /\ searchIt[c] \in Key
    BY <1>9 DEF ErasePod, RequestsOK
  <2>3. WorkerTypeOK'
    BY <1>0, <2>1, ReturnTypes
  <2>. QED
    BY <1>0, <2>1, <2>2, <2>3 DEF clientVars, tidVars, contextVars, ClientTypeOK, NodeTypeOK
<1>10. ASSUME NEW c \in Thread, NEW k \in Key, PodStep(c, k)
       PROVE  ClientTypeOK' /\ NodeTypeOK' /\ WorkerTypeOK'
  <2> DEFINE t == TenantOf[c]
  <2>0. t \in Tenant /\ page[t][k] \in Data
    BY <1>0 DEF ClientTypeOK
  <2>1. request[c][2] = k /\ context[c] = t
    BY <1>10 DEF PodStep, savePodReject, savePodHandler, savePodPayload, getPodHandler,
                 sendPodPayload, freePodHandler, Working, RequestsOK
  <2>2. UNCHANGED <<tidVars, contextVars>>
    BY <1>10, PodFrame
  <2>3. tenantPods[t][k] \in Data \cup {None}
    BY <1>0, <2>0 DEF NodeTypeOK
  <2>4. tenantPods' \in [Tenant -> [Key -> Data \cup {None}]]
    <3>1. \/ UNCHANGED tenantPods
          \/ \E d \in Data \cup {None} : tenantPods' = [tenantPods EXCEPT ![t][k] = d]
      BY <1>10, <2>0, <2>1
         DEF PodStep, savePodReject, savePodHandler, savePodPayload, getPodHandler,
             sendPodPayload, freePodHandler
    <3>2. tenantPods \in [Tenant -> [Key -> Data \cup {None}]]
      BY <1>0 DEF NodeTypeOK
    <3>3. CASE UNCHANGED tenantPods
      BY <3>2, <3>3
    <3>4. ASSUME NEW d \in Data \cup {None}, tenantPods' = [tenantPods EXCEPT ![t][k] = d]
          PROVE  tenantPods' \in [Tenant -> [Key -> Data \cup {None}]]
      <4>1. [tenantPods[t] EXCEPT ![k] = d] \in [Key -> Data \cup {None}]
        BY <2>0, <3>2
      <4>2. tenantPods' = [tenantPods EXCEPT ![t] = [tenantPods[t] EXCEPT ![k] = d]]
        BY <3>4
      <4>. QED
        BY <2>0, <3>2, <4>1, <4>2
    <3>. QED
      BY <3>1, <3>3, <3>4
  <2>5. NodeTypeOK'
    BY <1>0, <2>2, <2>4 DEF NodeTypeOK, tidVars, contextVars
  <2>6. ASSUME \E pl \in {"local", "remote", "cache"}, d \in Data : Answer(c, pl, d)
        PROVE  ClientTypeOK'
    BY <1>0, <2>1, <2>6, AnswerTypes
  <2>7. ASSUME UNCHANGED <<clientVars, request>>
        PROVE  ClientTypeOK'
    BY <1>0, <2>7 DEF ClientTypeOK, clientVars
  <2>8. ClientTypeOK' /\ WorkerTypeOK'
    <3>1. CASE savePodReject(c, k)
      BY <1>0, <2>0, <2>6, <3>1, ReturnTypes DEF savePodReject
    <3>2. CASE savePodHandler(c, k)
      <4>1. (tenantPods[context[c]][k] = None) \in BOOLEAN
        OBVIOUS
      <4>2. saved' \in [Conn -> BOOLEAN]
        BY <1>0, <3>2, <4>1, Zenon DEF savePodHandler, WorkerTypeOK
      <4>3. WorkerTypeOK'
        BY <1>0, <3>2, <4>2 DEF savePodHandler, WorkerTypeOK
      <4>. QED
        BY <2>7, <3>2, <4>3 DEF savePodHandler
    <3>3. CASE savePodPayload(c, k)
      BY <1>0, <2>0, <2>6, <3>3, ReturnTypes DEF savePodPayload
    <3>4. CASE getPodHandler(c, k)
      <4>1. WorkerTypeOK'
        BY <1>0, <3>4 DEF getPodHandler, WorkerTypeOK
      <4>2. page' \in [Tenant -> [Key -> Data]]
        <5>1. page \in [Tenant -> [Key -> Data]]
          BY <1>0 DEF ClientTypeOK
        <5>2. [page[t] EXCEPT ![k] = Lost] \in [Key -> Data]
          BY <2>0, <5>1
        <5>3. UNCHANGED page \/ page' = [page EXCEPT ![t] = [page[t] EXCEPT ![k] = Lost]]
          BY <3>4 DEF getPodHandler
        <5>. QED
          BY <2>0, <5>1, <5>2, <5>3
      <4>. QED
        BY <1>0, <3>4, <4>1, <4>2 DEF getPodHandler, ClientTypeOK
    <3>5. CASE sendPodPayload(c, k)
      <4> DEFINE d == IF tenantPods[t][k] = None THEN Lost ELSE tenantPods[t][k]
      <4>0. d \in Data
        BY <2>3
      <4>1. CASE /\ Answer(c, "local", d)
                 /\ serving' = [serving EXCEPT ![c] = "erase"]
                 /\ searchIt' = [searchIt EXCEPT ![c] = k]
                 /\ UNCHANGED <<context, saved>>
        BY <1>0, <2>6, <4>0, <4>1 DEF WorkerTypeOK
      <4>2. CASE Answer(c, "cache", d) /\ Return(c)
        BY <1>0, <2>6, <4>0, <4>2, ReturnTypes
      <4>. QED
        BY <2>1, <3>5, <4>1, <4>2 DEF sendPodPayload
    <3>6. CASE freePodHandler(c, k)
      BY <1>0, <2>0, <2>6, <3>6, ReturnTypes DEF freePodHandler
    <3>. QED
      BY <1>10, <3>1, <3>2, <3>3, <3>4, <3>5, <3>6 DEF PodStep
  <2>. QED
    BY <2>5, <2>8
<1>11. ASSUME NEW t \in Tenant, NEW k \in Key, NEW v \in Value, WritePage(t, k, v)
       PROVE  ClientTypeOK' /\ NodeTypeOK' /\ WorkerTypeOK'
  <2>1. ClientTypeOK'
    BY <1>0, <1>11 DEF WritePage, ClientTypeOK
  <2>. QED
    BY <1>0, <1>11, <2>1 DEF WritePage, tidVars, contextVars, workerVars, NodeTypeOK,
                             WorkerTypeOK
<1>12. ASSUME NEW t \in Tenant, NEW k \in Key, remoteCacheToRemote(t, k)
       PROVE  ClientTypeOK' /\ NodeTypeOK' /\ WorkerTypeOK'
  <2>1. ClientTypeOK'
    BY <1>0, <1>12 DEF remoteCacheToRemote, ClientTypeOK
  <2>. QED
    BY <1>0, <1>12, <2>1 DEF remoteCacheToRemote, tidVars, contextVars, workerVars,
                             NodeTypeOK, WorkerTypeOK
<1>. QED
  BY <1>1, <1>2, <1>3, <1>4, <1>5, <1>6, <1>7, <1>8, <1>9, <1>10, <1>11, <1>12
     DEF Next, TenantStep, ThreadStep, WorkerStep, PodStep

(***************************************************************************)
(* Requests about pods.                                                    *)
(***************************************************************************)

\* A worker at a request about pod k has the request's mutex and context.
LEMMA PodStepFacts ==
    ASSUME TypeOK, RequestsOK, NEW c \in Thread, NEW k \in Key, PodStep(c, k)
    PROVE  /\ request[c][1] \in PodOperation /\ request[c][2] = k
           /\ context[c] = TenantOf[c] /\ TenantOf[c] \in Tenant
           /\ lockedBy[TenantOf[c]][k] = c
           /\ serving[c] \in {"work", "payload", "send"}
           /\ \A d \in Thread : d # c => /\ serving'[d] = serving[d]
                                         /\ context'[d] = context[d]
                                         /\ searchIt'[d] = searchIt[d]
                                         /\ request'[d] = request[d]
<1> USE ConstantFacts, OperationFacts
<1>1. request[c][2] = k /\ serving[c] \in {"work", "payload", "send"}
  BY DEF PodStep, savePodReject, savePodHandler, savePodPayload, getPodHandler,
         sendPodPayload, freePodHandler, Working
<1>2. request[c][1] \in PodOperation
  BY <1>1 DEF RequestsOK
<1>3. \A d \in Thread : d # c => /\ serving'[d] = serving[d]
                                /\ context'[d] = context[d]
                                /\ searchIt'[d] = searchIt[d]
                                /\ request'[d] = request[d]
  BY DEF TypeOK, PodStep, savePodReject, savePodHandler, savePodPayload, getPodHandler,
         sendPodPayload, freePodHandler, Answer, Return
<1>. QED
  BY <1>1, <1>2, <1>3 DEF RequestsOK

\* An answered request leaves the others their mutexes and places.
LEMMA AnswerRequests ==
    ASSUME TypeOK, RequestsOK, NEW c \in Thread, NEW k \in Key, PodStep(c, k),
           NEW pl, NEW v, Answer(c, pl, v), serving'[c] \in {"recv", "erase"},
           serving'[c] = "erase" => searchIt'[c] = k /\ context'[c] = context[c]
    PROVE  RequestsOK'
<1> USE ConstantFacts, OperationFacts
<1> DEFINE t == TenantOf[c]
<1>1. /\ request[c][1] \in PodOperation /\ request[c][2] = k
      /\ context[c] = t /\ t \in Tenant /\ lockedBy[t][k] = c
      /\ \A d \in Thread : d # c => /\ serving'[d] = serving[d]
                                    /\ context'[d] = context[d]
                                    /\ searchIt'[d] = searchIt[d]
                                    /\ request'[d] = request[d]
  BY PodStepFacts
<1>2. /\ place' = [place EXCEPT ![t][k] = pl] /\ lockedBy' = [lockedBy EXCEPT ![t][k] = None]
      /\ request'[c] = NoRequest
  BY <1>1 DEF Answer, TypeOK
<1> HIDE DEF t
<1>3. \A u \in Tenant, j \in Key : <<u, j>> # <<t, k>> =>
          lockedBy'[u][j] = lockedBy[u][j] /\ place'[u][j] = place[u][j]
  BY <1>1, <1>2 DEF TypeOK
<1>4. ASSUME NEW d \in Thread, d # c, request[d][1] \in PodOperation
      PROVE  <<TenantOf[d], request[d][2]>> # <<t, k>>
  BY <1>1, <1>4 DEF RequestsOK
<1>5. ASSUME NEW d \in Thread, d # c
      PROVE  /\ request'[d][1] \in PodOperation =>
                   request'[d][2] \in Key /\ lockedBy'[TenantOf[d]][request'[d][2]] = d
             /\ request'[d][1] = "savePod" => place'[TenantOf[d]][request'[d][2]] = "local"
  BY <1>1, <1>3, <1>4, <1>5 DEF RequestsOK
<1>6. "savePod" \in PodOperation
  OBVIOUS
<1>7. \A d \in Thread :
        /\ serving'[d] = "work" => request'[d][1] \in PodOperation
        /\ serving'[d] = "payload" => request'[d][1] = "savePod"
        /\ serving'[d] = "send" => request'[d][1] \in {"getPod", "getPodCache"}
        /\ serving'[d] = "erase" => searchIt'[d] \in Key
        /\ serving'[d] # "recv" => context'[d] = TenantOf[d]
  BY <1>1 DEF RequestsOK, t
<1>8. request'[c][1] \notin PodOperation /\ request'[c][1] # "savePod"
  BY <1>2, <1>6
<1>. QED
  BY <1>5, <1>7, <1>8 DEF RequestsOK

\* Every step keeps RequestsOK.
LEMMA RequestsStep ==
    ASSUME TypeOK, ConnectionsOK, RequestsOK, Next
    PROVE  RequestsOK'
<1> USE ConstantFacts, OperationFacts
<1>1. ASSUME UNCHANGED <<place, lockedBy, request, serving, context, searchIt>>
      PROVE  RequestsOK'
  BY <1>1 DEF RequestsOK
<1>2. ASSUME NEW t \in Tenant, OpenMain(t) \/ contextInitCheck(t) \/ Exit(t)
      PROVE  RequestsOK'
  BY <1>1, <1>2 DEF OpenMain, contextInitCheck, Exit, clientVars, workerVars
<1>3. ASSUME NEW c \in Conn, freeHook(c)
      PROVE  RequestsOK'
  BY <1>1, <1>3 DEF freeHook, clientVars, workerVars
<1>4. ASSUME NEW t \in Tenant, NEW k \in Key, NEW v \in Value, WritePage(t, k, v)
      PROVE  RequestsOK'
  BY <1>1, <1>4 DEF WritePage, workerVars
<1>5. ASSUME NEW t \in Tenant, NEW k \in Key, remoteCacheToRemote(t, k)
      PROVE  RequestsOK'
  <2>1. /\ lockedBy[t][k] = None /\ place' = [place EXCEPT ![t][k] = "remote"]
        /\ UNCHANGED <<lockedBy, request, serving, context, searchIt>>
    BY <1>5 DEF remoteCacheToRemote, workerVars
  <2>2. ASSUME NEW c \in Thread, request[c][1] = "savePod"
        PROVE  place'[TenantOf[c]][request[c][2]] = "local"
    <3>1. request[c][2] \in Key /\ <<TenantOf[c], request[c][2]>> # <<t, k>>
      BY <2>1, <2>2 DEF RequestsOK
    <3>. QED
      BY <2>1, <2>2, <3>1 DEF RequestsOK, TypeOK
  <2>. QED
    BY <2>1, <2>2 DEF RequestsOK
<1>6. ASSUME NEW c \in Thread, OpenThread(c)
      PROVE  RequestsOK'
  <2>1. /\ request' = [request EXCEPT ![c] = <<"register", None>>]
        /\ UNCHANGED <<place, lockedBy, serving, context, searchIt>>
    BY <1>6 DEF OpenThread, clientVars, workerVars
  <2>2. request[c] = NoRequest
    BY <1>6 DEF OpenThread, ConnectionsOK, WorkersOK
  <2>3. \A d \in Thread : request'[d] = IF d = c THEN <<"register", None>> ELSE request[d]
    BY <2>1 DEF TypeOK
  <2>. QED
    BY <2>1, <2>2, <2>3 DEF RequestsOK, NoRequest
<1>7. ASSUME NEW c \in Thread, contextRegisterHandler(c)
      PROVE  RequestsOK'
  <2>1. /\ serving[c] = "recv" /\ request' = [request EXCEPT ![c] = NoRequest]
        /\ UNCHANGED <<place, lockedBy, serving, context, searchIt>>
    BY <1>7 DEF contextRegisterHandler, clientVars, workerVars
  <2>2. \A d \in Thread : request'[d] = IF d = c THEN NoRequest ELSE request[d]
    BY <2>1 DEF TypeOK
  <2>. QED
    BY <2>1, <2>2 DEF RequestsOK, NoRequest
<1>8. ASSUME NEW c \in Thread, NEW k \in Key, NEW o \in Operation \ {"register"}, Send(c, k, o)
      PROVE  RequestsOK'
  <2> DEFINE t == TenantOf[c]
  <2>1. /\ request[c] = NoRequest /\ lockedBy[t][k] = None /\ place[t][k] \in Before(o)
        /\ lockedBy' = [lockedBy EXCEPT ![t][k] = c]
        /\ request' = [request EXCEPT ![c] = <<o, k>>]
        /\ UNCHANGED <<place, serving, context, searchIt>>
    BY <1>8 DEF Send, workerVars
  <2>2. \A d \in Thread : request'[d] = IF d = c THEN <<o, k>> ELSE request[d]
    BY <2>1 DEF TypeOK
  <2>3. t \in Tenant
    OBVIOUS
  <2> HIDE DEF t
  <2>4. lockedBy'[t][k] = c /\ \A u \in Tenant, j \in Key :
            <<u, j>> # <<t, k>> => lockedBy'[u][j] = lockedBy[u][j]
    BY <2>1, <2>3 DEF TypeOK
  <2>5. ASSUME NEW d \in Thread, request[d][1] \in PodOperation
        PROVE  request[d][2] \in Key /\ <<TenantOf[d], request[d][2]>> # <<t, k>>
    BY <2>1, <2>5 DEF RequestsOK
  <2>6. o = "savePod" => place[t][k] = "local"
    BY <2>1 DEF Before
  <2>7. serving[c] \in {"recv", "erase", "short"}
    <3>1. request[c][1] \notin PodOperation
      BY <2>1
    <3>2. serving[c] \in {"recv", "work", "payload", "send", "erase", "short"}
      BY DEF TypeOK
    <3>. QED
      BY <3>1, <3>2 DEF RequestsOK
  <2>8. \A d \in Thread : request'[d][1] \in PodOperation =>
            request'[d][2] \in Key /\ lockedBy'[TenantOf[d]][request'[d][2]] = d
    BY <2>2, <2>4, <2>5 DEF RequestsOK, t
  <2>9. \A d \in Thread : request'[d][1] = "savePod" =>
            place[TenantOf[d]][request'[d][2]] = "local"
    BY <2>2, <2>6 DEF RequestsOK, t
  <2>10. \A d \in Thread :
        /\ serving[d] = "work" => request'[d][1] \in PodOperation
        /\ serving[d] = "payload" => request'[d][1] = "savePod"
        /\ serving[d] = "send" => request'[d][1] \in {"getPod", "getPodCache"}
    BY <2>2, <2>7 DEF RequestsOK
  <2>. QED
    BY <2>1, <2>8, <2>9, <2>10 DEF RequestsOK
<1>9. ASSUME NEW c \in Thread, contextTid(c)
      PROVE  RequestsOK'
  <2> DEFINE t == TenantOf[c]
  <2>1. /\ request[c][1] \in PodOperation
        /\ context' = [context EXCEPT ![c] = contextsByTid[workerToContextTid[tid[c]]]]
        /\ serving' = [serving EXCEPT ![c] = "work"]
        /\ UNCHANGED <<place, lockedBy, request, searchIt>>
    BY <1>9 DEF contextTid, clientVars, PodOperation
  <2>2. tid[c] # None /\ t \notin exited /\ request[c] # NoRequest
    BY <2>1 DEF ConnectionsOK, WorkersOK
  <2>3. workerToContextTid[tid[c]] # None /\ sessionKey[t] # None
        /\ workerToContextTid[tid[c]] = sessionKey[t]
    BY <2>1, <2>2 DEF ConnectionsOK, WorkersOK
  <2>4. contextsByTid[sessionKey[t]] = t
    BY <2>2, <2>3 DEF ConnectionsOK, SessionsOK
  <2>5. \A d \in Thread : /\ serving'[d] = IF d = c THEN "work" ELSE serving[d]
                          /\ context'[d] = IF d = c THEN t ELSE context[d]
    BY <2>1, <2>3, <2>4 DEF TypeOK
  <2>. QED
    BY <2>1, <2>5 DEF RequestsOK
<1>10. ASSUME NEW c \in Thread, ErasePod(c)
       PROVE  RequestsOK'
  <2>1. /\ serving' = [serving EXCEPT ![c] = "recv"]
        /\ context' = [context EXCEPT ![c] = None]
        /\ searchIt' = [searchIt EXCEPT ![c] = None]
        /\ UNCHANGED <<place, lockedBy, request>>
    BY <1>10 DEF ErasePod, Return, clientVars
  <2>2. serving'[c] = "recv" /\ \A d \in Thread : d # c => serving'[d] = serving[d]
            /\ context'[d] = context[d] /\ searchIt'[d] = searchIt[d]
    BY <2>1 DEF TypeOK
  <2>. QED
    BY <2>1, <2>2 DEF RequestsOK
<1>11. ASSUME NEW c \in Thread, NEW k \in Key, PodStep(c, k)
       PROVE  RequestsOK'
  <2>0. Return(c) => serving'[c] = "recv"
    BY DEF Return, TypeOK
  <2>1. ASSUME \E pl, v : Answer(c, pl, v), Return(c)
        PROVE  RequestsOK'
    BY <1>11, <2>0, <2>1, AnswerRequests
  <2>2. CASE savePodReject(c, k) \/ savePodPayload(c, k) \/ freePodHandler(c, k)
    BY <2>1, <2>2 DEF savePodReject, savePodPayload, freePodHandler
  <2>3. ASSUME NEW l \in {"payload", "send", "short"}, serving' = [serving EXCEPT ![c] = l],
               UNCHANGED <<place, lockedBy, request, context, searchIt>>,
               l = "payload" => request[c][1] = "savePod",
               l = "send" => request[c][1] \in {"getPod", "getPodCache"}
        PROVE  RequestsOK'
    <3>1. \A d \in Thread : serving'[d] = IF d = c THEN l ELSE serving[d]
      BY <2>3 DEF TypeOK
    <3>2. context[c] = TenantOf[c]
      BY <1>11, PodStepFacts
    <3>. QED
      BY <2>3, <3>1, <3>2 DEF RequestsOK
  <2>4. CASE savePodHandler(c, k)
    BY <2>3, <2>4 DEF savePodHandler, Working, clientVars
  <2>5. CASE getPodHandler(c, k)
    <3>1. request[c][1] \in {"getPod", "getPodCache"}
      BY <2>5 DEF getPodHandler, Working
    <3>2. /\ \E l \in {"send", "short"} : serving' = [serving EXCEPT ![c] = l]
          /\ UNCHANGED <<place, lockedBy, request, context, searchIt>>
      BY <2>5 DEF getPodHandler
    <3>. QED
      BY <2>3, <3>1, <3>2
  <2>6. CASE sendPodPayload(c, k)
    <3>1. \/ /\ \E pl, v : Answer(c, pl, v)
             /\ serving' = [serving EXCEPT ![c] = "erase"]
             /\ searchIt' = [searchIt EXCEPT ![c] = k]
             /\ UNCHANGED context
          \/ (\E pl, v : Answer(c, pl, v)) /\ Return(c)
      BY <2>6 DEF sendPodPayload
    <3>2. ASSUME \E pl, v : Answer(c, pl, v), serving' = [serving EXCEPT ![c] = "erase"],
                 searchIt' = [searchIt EXCEPT ![c] = k], UNCHANGED context
          PROVE  RequestsOK'
      <4>1. serving'[c] = "erase" /\ searchIt'[c] = k
        BY <3>2 DEF TypeOK
      <4>. QED
        BY <1>11, <3>2, <4>1, AnswerRequests
    <3>. QED
      BY <2>1, <3>1, <3>2
  <2>. QED
    BY <1>11, <2>2, <2>4, <2>5, <2>6 DEF PodStep
<1>. QED
  BY <1>2, <1>3, <1>4, <1>5, <1>6, <1>7, <1>8, <1>9, <1>10, <1>11
     DEF Next, TenantStep, ThreadStep, WorkerStep, PodStep

(***************************************************************************)
(* Saves.                                                                  *)
(***************************************************************************)

\* A worker at a request about pod k of its tenant changes nothing for others.
LEMMA OtherPods ==
    ASSUME TypeOK, RequestsOK, SavesOK, NEW c \in Thread, NEW k \in Key, PodStep(c, k),
           NEW t \in Tenant, NEW j \in Key, <<t, j>> # <<TenantOf[c], k>>
    PROVE  \/ place'[t][j] # "local"
           \/ tenantPods'[t][j] = None
           \/ \E d \in Thread : TenantOf[d] = t /\ serving'[d] = "erase" /\ searchIt'[d] = j
           \/ \E d \in Thread : TenantOf[d] = t /\ serving'[d] = "payload" /\ request'[d][2] = j
<1> USE ConstantFacts, OperationFacts
<1>1. /\ request[c][2] = k /\ context[c] = TenantOf[c] /\ TenantOf[c] \in Tenant
      /\ serving[c] \in {"work", "payload", "send"}
      /\ \A d \in Thread : d # c => /\ serving'[d] = serving[d]
                                    /\ searchIt'[d] = searchIt[d]
                                    /\ request'[d] = request[d]
  BY PodStepFacts
<1>2. place'[t][j] = place[t][j]
  <2>1. UNCHANGED place \/ \E pl : place' = [place EXCEPT ![TenantOf[c]][k] = pl]
    BY <1>1 DEF PodStep, savePodReject, savePodHandler, savePodPayload, getPodHandler,
                sendPodPayload, freePodHandler, Answer, clientVars
  <2>. QED
    BY <1>1, <2>1 DEF TypeOK
<1>3. tenantPods'[t][j] = tenantPods[t][j]
  <2>1. UNCHANGED tenantPods \/ \E d : tenantPods' = [tenantPods EXCEPT ![TenantOf[c]][k] = d]
    BY <1>1 DEF PodStep, savePodReject, savePodHandler, savePodPayload, getPodHandler,
                sendPodPayload, freePodHandler
  <2>. QED
    BY <1>1, <2>1 DEF TypeOK
<1>. QED
  BY <1>1, <1>2, <1>3 DEF SavesOK

\* Every step keeps SavesOK.
LEMMA SavesStep ==
    ASSUME TypeOK, ConnectionsOK, RequestsOK, SavesOK, Next
    PROVE  SavesOK'
<1> USE ConstantFacts, OperationFacts
<1>1. ASSUME UNCHANGED <<place, tenantPods, request, serving, searchIt>>
      PROVE  SavesOK'
  BY <1>1 DEF SavesOK
<1>2. ASSUME NEW t \in Tenant, OpenMain(t) \/ contextInitCheck(t) \/ Exit(t)
      PROVE  SavesOK'
  BY <1>1, <1>2 DEF OpenMain, contextInitCheck, Exit, clientVars, workerVars
<1>3. ASSUME NEW c \in Conn, freeHook(c)
      PROVE  SavesOK'
  <2>1. \A t \in Tenant, k \in Key : tenantPods'[t][k] \in {None, tenantPods[t][k]}
    BY <1>3 DEF freeHook, TypeOK
  <2>2. UNCHANGED <<place, request, serving, searchIt>>
    BY <1>3 DEF freeHook, clientVars, workerVars
  <2>. QED
    BY <2>1, <2>2 DEF SavesOK
<1>4. ASSUME NEW t \in Tenant, NEW k \in Key, NEW v \in Value, WritePage(t, k, v)
      PROVE  SavesOK'
  BY <1>1, <1>4 DEF WritePage, workerVars
<1>5. ASSUME NEW t \in Tenant, NEW k \in Key, remoteCacheToRemote(t, k)
      PROVE  SavesOK'
  <2>1. \A u \in Tenant, j \in Key : place'[u][j] = place[u][j] \/ place'[u][j] = "remote"
    BY <1>5 DEF remoteCacheToRemote, TypeOK
  <2>2. UNCHANGED <<tenantPods, request, serving, searchIt>>
    BY <1>5 DEF remoteCacheToRemote, workerVars
  <2>. QED
    BY <2>1, <2>2 DEF SavesOK
<1>6. ASSUME NEW c \in Thread, serving[c] # "payload", UNCHANGED <<place, tenantPods, searchIt>>,
             \A d \in Thread : d # c => serving'[d] = serving[d] /\ request'[d] = request[d],
             serving[c] = "erase" => serving'[c] = "erase"
      PROVE  SavesOK'
  BY <1>6 DEF SavesOK
<1>7. ASSUME NEW c \in Thread, OpenThread(c)
      PROVE  SavesOK'
  <2>1. request[c] = NoRequest /\ UNCHANGED <<place, tenantPods, searchIt, serving>>
    BY <1>7 DEF OpenThread, clientVars, workerVars, ConnectionsOK, WorkersOK
  <2>2. serving[c] # "payload"
    BY <2>1 DEF RequestsOK
  <2>3. \A d \in Thread : d # c => request'[d] = request[d]
    BY <1>7 DEF OpenThread, TypeOK
  <2>. QED
    BY <1>6, <2>1, <2>2, <2>3
<1>8. ASSUME NEW c \in Thread, contextRegisterHandler(c)
      PROVE  SavesOK'
  <2>1. serving[c] = "recv" /\ UNCHANGED <<place, tenantPods, searchIt, serving>>
    BY <1>8 DEF contextRegisterHandler, clientVars, workerVars
  <2>2. \A d \in Thread : d # c => request'[d] = request[d]
    BY <1>8 DEF contextRegisterHandler, TypeOK
  <2>. QED
    BY <1>6, <2>1, <2>2
<1>9. ASSUME NEW c \in Thread, NEW k \in Key, NEW o \in Operation \ {"register"}, Send(c, k, o)
      PROVE  SavesOK'
  <2>1. request[c] = NoRequest /\ UNCHANGED <<place, tenantPods, searchIt, serving>>
    BY <1>9 DEF Send, workerVars
  <2>2. serving[c] # "payload"
    BY <2>1 DEF RequestsOK
  <2>3. \A d \in Thread : d # c => request'[d] = request[d]
    BY <1>9 DEF Send, TypeOK
  <2>. QED
    BY <1>6, <2>1, <2>2, <2>3
<1>10. ASSUME NEW c \in Thread, contextTid(c)
       PROVE  SavesOK'
  <2>1. serving[c] = "recv" /\ UNCHANGED <<place, tenantPods, searchIt, request>>
    BY <1>10 DEF contextTid, clientVars
  <2>2. \A d \in Thread : d # c => serving'[d] = serving[d]
    BY <1>10 DEF contextTid, TypeOK
  <2>. QED
    BY <1>6, <2>1, <2>2
<1>11. ASSUME NEW c \in Thread, ErasePod(c)
       PROVE  SavesOK'
  <2>1. /\ serving[c] = "erase"
        /\ tenantPods' = [tenantPods EXCEPT ![context[c]][searchIt[c]] = None]
        /\ UNCHANGED <<place, request>>
    BY <1>11 DEF ErasePod, clientVars
  <2>2. context[c] = TenantOf[c] /\ context[c] \in Tenant /\ searchIt[c] \in Key
    BY <2>1 DEF RequestsOK
  <2>3. \A d \in Thread : d # c => serving'[d] = serving[d] /\ searchIt'[d] = searchIt[d]
    BY <1>11 DEF ErasePod, Return, TypeOK
  <2>4. \A t \in Tenant, k \in Key :
            tenantPods'[t][k] = IF t = TenantOf[c] /\ k = searchIt[c] THEN None
                                ELSE tenantPods[t][k]
    BY <2>1, <2>2 DEF TypeOK
  <2>. QED
    BY <2>1, <2>2, <2>3, <2>4 DEF SavesOK
<1>12. ASSUME NEW c \in Thread, NEW k \in Key, PodStep(c, k)
       PROVE  SavesOK'
  <2> DEFINE t == TenantOf[c]
  <2>1. /\ request[c][2] = k /\ context[c] = t /\ t \in Tenant
        /\ request[c][1] \in PodOperation /\ lockedBy[t][k] = c
        /\ serving[c] \in {"work", "payload", "send"}
        /\ \A d \in Thread : d # c => /\ serving'[d] = serving[d]
                                      /\ searchIt'[d] = searchIt[d]
                                      /\ request'[d] = request[d]
    BY <1>12, PodStepFacts
  <2> DEFINE Good == \/ place'[t][k] # "local"
                     \/ tenantPods'[t][k] = None
                     \/ \E d \in Thread : TenantOf[d] = t /\ serving'[d] = "erase" /\ searchIt'[d] = k
                     \/ \E d \in Thread : TenantOf[d] = t /\ serving'[d] = "payload" /\ request'[d][2] = k
  <2>2. SUFFICES Good
    <3> HIDE DEF Good
    <3> SUFFICES ASSUME NEW u \in Tenant, NEW j \in Key
                 PROVE  \/ place'[u][j] # "local"
                        \/ tenantPods'[u][j] = None
                        \/ \E d \in Thread : TenantOf[d] = u /\ serving'[d] = "erase" /\ searchIt'[d] = j
                        \/ \E d \in Thread : TenantOf[d] = u /\ serving'[d] = "payload" /\ request'[d][2] = j
      BY DEF SavesOK
    <3>1. CASE u = t /\ j = k
      BY <2>2, <3>1 DEF Good
    <3>2. CASE ~(u = t /\ j = k)
      <4>1. <<u, j>> # <<TenantOf[c], k>>
        BY <3>2
      <4>. QED
        BY <1>12, <4>1, OtherPods
    <3>. QED
      BY <3>1, <3>2
  <2>3. \A d \in Thread : TenantOf[d] = t /\ serving[d] = "payload" /\ request[d][2] = k => d = c
    BY <2>1 DEF RequestsOK
  <2>4. CASE savePodReject(c, k)
    <3>1. serving[c] = "work" /\ request[c][1] = "savePod" /\ UNCHANGED tenantPods
      BY <2>4 DEF savePodReject, Working
    <3>2. place[t][k] = "local"
      BY <2>1, <3>1 DEF RequestsOK
    <3>. QED
      BY <2>1, <2>3, <3>1, <3>2 DEF SavesOK
  <2>5. CASE savePodHandler(c, k)
    <3>1. serving'[c] = "payload" /\ request'[c] = request[c]
      BY <2>5 DEF savePodHandler, TypeOK
    <3>. QED
      BY <2>1, <3>1
  <2>6. CASE savePodPayload(c, k)
    <3>1. place' = [place EXCEPT ![t][k] = "remote"]
      BY <2>1, <2>6 DEF savePodPayload, Answer
    <3>. QED
      BY <2>1, <3>1 DEF TypeOK
  <2>7. CASE getPodHandler(c, k)
    <3>1. CASE tenantPods[context[c]][k] = None
      BY <2>1, <2>7, <3>1 DEF getPodHandler
    <3>2. CASE tenantPods[context[c]][k] # None
      <4>1. UNCHANGED <<place, tenantPods>>
        BY <2>7, <3>2 DEF getPodHandler, clientVars
      <4>2. serving[c] = "work"
        BY <2>7 DEF getPodHandler, Working
      <4>. QED
        BY <2>1, <2>3, <4>1, <4>2 DEF SavesOK
    <3>. QED
      BY <3>1, <3>2
  <2>8. CASE sendPodPayload(c, k)
    <3>1. CASE request[c][1] = "getPod"
      <4>1. serving'[c] = "erase" /\ searchIt'[c] = k
        BY <2>8, <3>1 DEF sendPodPayload, TypeOK
      <4>. QED
        BY <4>1
    <3>2. CASE request[c][1] = "getPodCache"
      <4>1. place' = [place EXCEPT ![t][k] = "cache"]
        BY <2>1, <2>8, <3>2 DEF sendPodPayload, Answer
      <4>. QED
        BY <2>1, <4>1 DEF TypeOK
    <3>. QED
      BY <2>8, <3>1, <3>2 DEF sendPodPayload
  <2>9. CASE freePodHandler(c, k)
    <3>1. tenantPods' = [tenantPods EXCEPT ![t][k] = None]
      BY <2>1, <2>9 DEF freePodHandler
    <3>. QED
      BY <2>1, <3>1 DEF TypeOK
  <2>. QED
    BY <1>12, <2>4, <2>5, <2>6, <2>7, <2>8, <2>9 DEF PodStep
<1>. QED
  BY <1>2, <1>3, <1>4, <1>5, <1>7, <1>8, <1>9, <1>10, <1>11, <1>12
     DEF Next, TenantStep, ThreadStep, WorkerStep, PodStep

(***************************************************************************)
(* The theorems.                                                           *)
(***************************************************************************)

\* The invariant holds in every state of every execution.
THEOREM NodeInvariance == Spec => []NodeInv
<1>1. Init => NodeInv
  BY InitInv
<1>2. NodeInv /\ [Next]_vars => NodeInv'
  <2> SUFFICES ASSUME NodeInv, [Next]_vars
               PROVE  NodeInv'
    OBVIOUS
  <2>0. TypeOK /\ ConnectionsOK /\ RequestsOK /\ SavesOK
    BY DEF NodeInv, ConnectionsOK
  <2>1. CASE Next
    BY <2>0, <2>1, TypeStep, ConnectionsStep, RequestsStep, SavesStep DEF NodeInv, ConnectionsOK
  <2>2. CASE UNCHANGED vars
    <3> USE <2>2 DEF vars, clientVars, tidVars, contextVars, workerVars
    <3>1. TypeOK'
      BY <2>0 DEF TypeOK
    <3>2. TidsOK' /\ ContextsOK' /\ SessionsOK'
      BY <2>0 DEF ConnectionsOK, TidsOK, TidsClean, ContextsOK, SessionsOK
    <3>3. WorkersOK' /\ RequestsOK' /\ SavesOK'
      BY <2>0 DEF ConnectionsOK, WorkersOK, RequestsOK, SavesOK
    <3>. QED
      BY <3>1, <3>2, <3>3 DEF NodeInv
  <2>. QED
    BY <2>1, <2>2
<1>. QED
  BY <1>1, <1>2, PTL DEF Spec

\* Every variable of the memory node and its clients keeps its type.
THEOREM TypeCorrect == Spec => []TypeOK
<1>1. NodeInv => TypeOK
  BY DEF NodeInv
<1>. QED
  BY <1>1, NodeInvariance, PTL

\* Tids are handed out to one connection at a time, and come back from freeHook
\* with no context and no mapping under them, however connections come and go.
THEOREM TidsRecycled == Spec => []TidsClean
<1>1. NodeInv => TidsClean
  BY DEF NodeInv, TidsOK
<1>. QED
  BY <1>1, NodeInvariance, PTL

\* No request is served from another tenant's table, although tids are recycled
\* between tenants.
THEOREM TenantsIsolated == Spec => []TenantIsolation
<1>1. NodeInv => TenantIsolation
  BY DEF NodeInv, RequestsOK, TenantIsolation
<1>. QED
  BY <1>1, NodeInvariance, PTL

\* Without a pending erase of the same pod, a save finds its key absent and is
\* stored.
THEOREM SavesBlockedByErase == Spec => []OnlyPendingEraseBlocksSave
<1>1. NodeInv => OnlyPendingEraseBlocksSave
  <2> SUFFICES ASSUME NodeInv, NEW t \in Tenant, NEW k \in Key,
                      place[t][k] = "local", lockedBy[t][k] = None, tenantPods[t][k] # None
               PROVE  \E c \in Thread : TenantOf[c] = t /\ serving[c] = "erase" /\ searchIt[c] = k
    BY DEF OnlyPendingEraseBlocksSave
  <2>1. ASSUME NEW c \in Thread, TenantOf[c] = t, serving[c] = "payload", request[c][2] = k
        PROVE  FALSE
    <3>1. request[c][1] \in PodOperation
      BY <2>1, OperationFacts DEF NodeInv, RequestsOK
    <3>. QED
      BY <2>1, <3>1, ConstantFacts DEF NodeInv, RequestsOK
  <2>. QED
    BY <2>1 DEF NodeInv, SavesOK
<1>. QED
  BY <1>1, NodeInvariance, PTL
=============================================================================
