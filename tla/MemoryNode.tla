----------------------------- MODULE MemoryNode -----------------------------
(***************************************************************************)
(* The memory node and the connections of the compute nodes that use it.   *)
(*                                                                         *)
(* A compute node (a tenant) has a main connection, whose worker owns its  *)
(* context on the memory node, and one connection per thread, registered   *)
(* under the main connection's tid.  Tids are recycled.  A connection      *)
(* carries one request at a time, served by a worker thread of its own;    *)
(* workers meet in the context tables (under contextMutex) and in the      *)
(* tenant's table of pods (under tenantPodsMutex).                         *)
(*                                                                         *)
(* On the compute node the mutex of a pod orders the requests about it:    *)
(* the next one is sent when the previous one is answered, possibly by     *)
(* another thread.  Connections stay up until the tenant is done with all  *)
(* of its requests (src/README.md:46-48).                                  *)
(***************************************************************************)
EXTENDS Naturals, Sequences

CONSTANTS Tenant,    \* compute nodes; a tenant also names its main connection
          Thread,    \* their threads; a thread also names its connection
          TenantOf,  \* the tenant of each connection
          Key,       \* pod indices
          Value,     \* page contents
          Lost,      \* bytes that are not what was saved
          None,
          MaxTid     \* bound: tids handed out; as many as there are connections

Conn == Tenant \cup Thread
Data == Value \cup {Lost}
Tid == 0 .. (MaxTid - 1)

ASSUME MemoryNodeAssumption ==
    /\ Tenant \cap Thread = {}
    /\ TenantOf \in [Conn -> Tenant] /\ \A t \in Tenant : TenantOf[t] = t
    /\ Lost \notin Value /\ None \notin Data \cup Conn \cup Tid
    /\ MaxTid \in Nat

VARIABLES
    \* the compute nodes
    place,      \* where each pod of each tenant is: "local", "remote" or "cache"
    page,       \* its content, as the application knows it
    lockedBy,   \* the thread that holds its mutex
    sessionKey, \* remoteSessionKey of each tenant
    exited,     \* the tenants that have closed their connections
    \* the connections
    request,    \* the unanswered request on each: <<operation, pod>>
    \* the memory node
    tid,        \* the tid of each connection's worker
    tidSlots, largestTid,
    contextsByTid, workerToContextTid,
    tenantPods, \* per context (named by its tenant): pod index -> payload
    serving,    \* where each worker is; "short": its answer was less than is read
    context,    \* the context it works on
    saved,      \* whether its new tenantPod went into the table
    searchIt    \* the pod getPodHandler found and is going to erase

clientVars == <<place, page, lockedBy, sessionKey, exited>>
tidVars == <<tid, tidSlots, largestTid>>
contextVars == <<contextsByTid, workerToContextTid>>
workerVars == <<serving, context, saved, searchIt>>
vars == <<clientVars, request, tidVars, contextVars, tenantPods, workerVars>>

Operation == {"register", "savePod", "getPod", "getPodCache", "freePod"}
NoRequest == <<"none", None>>

TypeOK ==
    /\ place \in [Tenant -> [Key -> {"local", "remote", "cache"}]]
    /\ page \in [Tenant -> [Key -> Data]]
    /\ lockedBy \in [Tenant -> [Key -> Thread \cup {None}]]
    /\ sessionKey \in [Tenant -> Tid \cup {None}]
    /\ exited \in SUBSET Tenant
    /\ request \in [Conn -> {NoRequest} \cup (Operation \X (Key \cup {None}))]
    /\ tid \in [Conn -> Tid \cup {None}]
    /\ tidSlots \in Seq(Tid) /\ largestTid \in Nat
    /\ contextsByTid \in [Tid -> Tenant \cup {None}]
    /\ workerToContextTid \in [Tid -> Tid \cup {None}]
    /\ tenantPods \in [Tenant -> [Key -> Data \cup {None}]]
    /\ serving \in [Conn -> {"recv", "work", "payload", "send", "erase", "short"}]
    /\ context \in [Conn -> Tenant \cup {None}]
    /\ saved \in [Conn -> BOOLEAN]
    /\ searchIt \in [Conn -> Key \cup {None}]

Init ==
    /\ place = [t \in Tenant |-> [k \in Key |-> "local"]]
    /\ page \in [Tenant -> [Key -> Value]]
    /\ lockedBy = [t \in Tenant |-> [k \in Key |-> None]]
    /\ sessionKey = [t \in Tenant |-> None]
    /\ exited = {}
    /\ request = [c \in Conn |-> NoRequest]
    /\ tid = [c \in Conn |-> None]
    /\ tidSlots = <<>> /\ largestTid = 0
    /\ contextsByTid = [i \in Tid |-> None]
    /\ workerToContextTid = [i \in Tid |-> None]
    /\ tenantPods = [t \in Tenant |-> [k \in Key |-> None]]
    /\ serving = [c \in Conn |-> "recv"]
    /\ context = [c \in Conn |-> None]
    /\ saved = [c \in Conn |-> FALSE]
    /\ searchIt = [c \in Conn |-> None]
-----------------------------------------------------------------------------
(***************************************************************************)
(* Connections.                                                            *)
(***************************************************************************)

\* Mutant: a recycled tid stays in the list.
assignTidKeepsSlot(c) ==
    \/ /\ tidSlots # <<>>
       /\ tid' = [tid EXCEPT ![c] = Head(tidSlots)]
       /\ UNCHANGED <<tidSlots, largestTid>>
    \/ /\ tidSlots = <<>> /\ largestTid \in Tid
       /\ tid' = [tid EXCEPT ![c] = largestTid]
       /\ largestTid' = largestTid + 1
       /\ UNCHANGED tidSlots

\* Mutant: a new tid is counted up before it is handed out.
assignTidTooLarge(c) ==
    /\ largestTid \in Tid
    /\ tid' = [tid EXCEPT ![c] = largestTid + 1]
    /\ largestTid' = largestTid + 1
    /\ UNCHANGED tidSlots

\* mainLoop accepts c: its worker gets the tid returned last, or a new one.
assignTid(c) ==
    \/ /\ tidSlots # <<>>
       /\ tid' = [tid EXCEPT ![c] = Head(tidSlots)]
       /\ tidSlots' = Tail(tidSlots)
       /\ UNCHANGED largestTid
    \/ /\ tidSlots = <<>> /\ largestTid \in Tid
       /\ tid' = [tid EXCEPT ![c] = largestTid]
       /\ largestTid' = largestTid + 1
       /\ UNCHANGED tidSlots

\* The constructor of RemoteConnectionBundle opens the main connection.
OpenMain(t) ==
    /\ tid[t] = None /\ t \notin exited
    /\ assignTid(t)
    /\ UNCHANGED <<clientVars, request, contextVars, tenantPods, workerVars>>

\* contextInitCheck, before the first save: under the bundle's global mutex the
\* main connection asks for a context, and its tid becomes the session key.
contextInitCheck(t) ==
    /\ tid[t] # None /\ t \notin exited /\ sessionKey[t] = None
    /\ contextsByTid' = IF contextsByTid[tid[t]] = None
                        THEN [contextsByTid EXCEPT ![tid[t]] = t]
                        ELSE contextsByTid
    /\ sessionKey' = [sessionKey EXCEPT ![t] = tid[t]]
    /\ UNCHANGED <<place, page, lockedBy, exited, request, tidVars,
                   workerToContextTid, tenantPods, workerVars>>

\* getAUniqueConnectionForTheThread: connect, and send registerContext.
OpenThread(c) ==
    /\ tid[c] = None /\ TenantOf[c] \notin exited
    /\ sessionKey[TenantOf[c]] # None
    /\ assignTid(c)
    /\ request' = [request EXCEPT ![c] = <<"register", None>>]
    /\ UNCHANGED <<clientVars, contextVars, tenantPods, workerVars>>

\* map::insert keeps a mapping that is already there.
contextRegisterHandler(c) ==
    /\ serving[c] = "recv" /\ request[c][1] = "register"
    /\ workerToContextTid' =
           IF workerToContextTid[tid[c]] = None
           THEN [workerToContextTid EXCEPT ![tid[c]] = sessionKey[TenantOf[c]]]
           ELSE workerToContextTid
    /\ request' = [request EXCEPT ![c] = NoRequest]
    /\ UNCHANGED <<clientVars, tidVars, contextsByTid, tenantPods, workerVars>>

\* The tenant exits with no request unanswered; every connection reaches its end.
Exit(t) ==
    /\ tid[t] # None /\ t \notin exited
    /\ \A c \in Conn : TenantOf[c] = t => request[c] = NoRequest
    /\ exited' = exited \cup {t}
    /\ UNCHANGED <<place, page, lockedBy, sessionKey, request, tidVars,
                   contextVars, tenantPods, workerVars>>

\* workerLoop ends: the context of this tid, its mapping and the tid are freed.
freeHook(c) ==
    LET i == tid[c] IN
    /\ TenantOf[c] \in exited /\ i # None /\ serving[c] = "recv"
    /\ contextsByTid' = [contextsByTid EXCEPT ![i] = None]
    /\ tenantPods' = IF contextsByTid[i] = None THEN tenantPods
                     ELSE [tenantPods EXCEPT ![contextsByTid[i]] =
                               [k \in Key |-> None]]
    /\ workerToContextTid' = [workerToContextTid EXCEPT ![i] = None]
    /\ tidSlots' = <<i>> \o tidSlots
    /\ tid' = [tid EXCEPT ![c] = None]
    /\ UNCHANGED <<clientVars, request, largestTid, workerVars>>
-----------------------------------------------------------------------------
(***************************************************************************)
(* Requests about pods.                                                    *)
(***************************************************************************)

\* Where a pod is when a request about it is sent.
Before(o) == CASE o = "savePod" -> {"local"}
               [] o \in {"getPod", "getPodCache"} -> {"remote"}
               [] o = "freePod" -> {"cache", "remote"}

\* Thread c locks pod k of its tenant and sends a request about it.
Send(c, k, o) ==
    LET t == TenantOf[c] IN
    /\ tid[c] # None /\ t \notin exited
    /\ request[c] = NoRequest /\ workerToContextTid[tid[c]] # None
    /\ lockedBy[t][k] = None /\ place[t][k] \in Before(o)
    /\ lockedBy' = [lockedBy EXCEPT ![t][k] = c]
    /\ request' = [request EXCEPT ![c] = <<o, k>>]
    /\ UNCHANGED <<place, page, sessionKey, exited, tidVars, contextVars,
                   tenantPods, workerVars>>

\* The answer to c's request reaches the compute node: pod k is at place pl
\* with content d, and its mutex is released.
Answer(c, pl, d) ==
    LET t == TenantOf[c] k == request[c][2] IN
    /\ place' = [place EXCEPT ![t][k] = pl]
    /\ page' = [page EXCEPT ![t][k] = d]
    /\ lockedBy' = [lockedBy EXCEPT ![t][k] = None]
    /\ request' = [request EXCEPT ![c] = NoRequest]
    /\ UNCHANGED <<sessionKey, exited>>

\* Mutant: the context is looked up under the worker's own tid.
contextTidOwn(c) ==
    /\ serving[c] = "recv" /\ request[c][1] \in Operation \ {"register"}
    /\ context' = [context EXCEPT ![c] = contextsByTid[tid[c]]]
    /\ serving' = [serving EXCEPT ![c] = "work"]
    /\ UNCHANGED <<clientVars, request, tidVars, contextVars, tenantPods, saved,
                   searchIt>>

\* The worker's context: contextTid, then contextsByTid.  The first look-up reads
\* an entry that only this worker writes, so the two are one step.
contextTid(c) ==
    /\ serving[c] = "recv" /\ request[c][1] \in Operation \ {"register"}
    /\ context' = [context EXCEPT ![c] = contextsByTid[workerToContextTid[tid[c]]]]
    /\ serving' = [serving EXCEPT ![c] = "work"]
    /\ UNCHANGED <<clientVars, request, tidVars, contextVars, tenantPods, saved,
                   searchIt>>

\* The handler returns, and its local variables are gone.
Return(c) == /\ serving' = [serving EXCEPT ![c] = "recv"]
             /\ context' = [context EXCEPT ![c] = None]
             /\ saved' = [saved EXCEPT ![c] = FALSE]
             /\ searchIt' = [searchIt EXCEPT ![c] = None]

\* The request c's worker is working on is about pod k.
Working(c, o, k) == serving[c] = "work" /\ request[c] = <<o, k>>

\* Memory is short: savePodErr, and the pod stays where it is.
savePodReject(c, k) ==
    /\ Working(c, "savePod", k)
    /\ Answer(c, "local", page[TenantOf[c]][k])
    /\ Return(c)
    /\ UNCHANGED <<tidVars, contextVars, tenantPods>>

\* A new tenantPod is put into the table, unless the key is taken.
savePodHandler(c, k) ==
    /\ Working(c, "savePod", k)
    /\ saved' = [saved EXCEPT ![c] = tenantPods[context[c]][k] = None]
    /\ tenantPods' = IF tenantPods[context[c]][k] = None
                     THEN [tenantPods EXCEPT ![context[c]][k] = Lost]
                     ELSE tenantPods
    /\ serving' = [serving EXCEPT ![c] = "payload"]
    /\ UNCHANGED <<clientVars, request, tidVars, contextVars, context, searchIt>>

\* The payload is received into the new tenantPod, in the table or not, and
\* savePodDONE is sent.
savePodPayload(c, k) ==
    LET t == TenantOf[c] IN
    /\ serving[c] = "payload" /\ request[c] = <<"savePod", k>>
    /\ tenantPods' = IF saved[c]
                     THEN [tenantPods EXCEPT ![context[c]][k] = page[t][k]]
                     ELSE tenantPods
    /\ Answer(c, "remote", page[t][k])
    /\ Return(c)
    /\ UNCHANGED <<tidVars, contextVars>>

\* getPodHandler and getPodCacheHandler look the pod up.  Of a missing pod they send
\* a message of two bytes and return.  The compute node reads it into the page and
\* then waits, with the pod's mutex, for the rest of a page that nobody sends.
getPodHandler(c, k) ==
    /\ \E o \in {"getPod", "getPodCache"} : Working(c, o, k)
    /\ \/ /\ tenantPods[context[c]][k] # None
          /\ serving' = [serving EXCEPT ![c] = "send"]
          /\ UNCHANGED page
       \/ /\ tenantPods[context[c]][k] = None
          /\ serving' = [serving EXCEPT ![c] = "short"]
          /\ page' = [page EXCEPT ![TenantOf[c]][k] = Lost]
    /\ UNCHANGED <<place, lockedBy, sessionKey, exited, request, tidVars, contextVars,
                   tenantPods, context, saved, searchIt>>

\* sendPodPayload, outside the mutex: the pod may have been deleted meanwhile.
sendPodPayload(c, k) ==
    LET d == tenantPods[context[c]][k] IN
    /\ serving[c] = "send" /\ request[c][2] = k
    /\ \/ /\ request[c][1] = "getPod"
          /\ Answer(c, "local", IF d = None THEN Lost ELSE d)
          /\ serving' = [serving EXCEPT ![c] = "erase"]
          /\ searchIt' = [searchIt EXCEPT ![c] = k]
          /\ UNCHANGED <<context, saved>>
       \/ /\ request[c][1] = "getPodCache"
          /\ Answer(c, "cache", IF d = None THEN Lost ELSE d)
          /\ Return(c)
    /\ UNCHANGED <<tidVars, contextVars, tenantPods>>

\* The rest of getPodHandler: the mutex is taken again to delete the pod.  What
\* erasing through an iterator does to an entry that is gone is undefined in the
\* code; here the key is absent afterwards, be the entry gone or saved anew.
ErasePod(c) ==
    /\ serving[c] = "erase"
    /\ tenantPods' = [tenantPods EXCEPT ![context[c]][searchIt[c]] = None]
    /\ Return(c)
    /\ UNCHANGED <<clientVars, request, tidVars, contextVars>>

\* Mutant: the pod stays in the table.
freePodHandlerKeeps(c, k) ==
    /\ Working(c, "freePod", k)
    /\ Answer(c, "local", page[TenantOf[c]][k])
    /\ Return(c)
    /\ UNCHANGED <<tidVars, contextVars, tenantPods>>

freePodHandler(c, k) ==
    /\ Working(c, "freePod", k)
    /\ tenantPods' = [tenantPods EXCEPT ![context[c]][k] = None]
    /\ Answer(c, "local", page[TenantOf[c]][k])
    /\ Return(c)
    /\ UNCHANGED <<tidVars, contextVars>>

\* On the compute node, under the pod's mutex: the application writes a local
\* page; remoteCacheToRemote drops a cached copy.
WritePage(t, k, v) ==
    /\ t \notin exited /\ lockedBy[t][k] = None /\ place[t][k] = "local"
    /\ page' = [page EXCEPT ![t][k] = v]
    /\ UNCHANGED <<place, lockedBy, sessionKey, exited, request, tidVars,
                   contextVars, tenantPods, workerVars>>

remoteCacheToRemote(t, k) ==
    /\ t \notin exited /\ lockedBy[t][k] = None /\ place[t][k] = "cache"
    /\ place' = [place EXCEPT ![t][k] = "remote"]
    /\ UNCHANGED <<page, lockedBy, sessionKey, exited, request, tidVars,
                   contextVars, tenantPods, workerVars>>
-----------------------------------------------------------------------------
TenantStep(t) ==
    \/ OpenMain(t) \/ contextInitCheck(t) \/ Exit(t)
    \/ \E k \in Key : \/ remoteCacheToRemote(t, k)
                      \/ \E v \in Value : WritePage(t, k, v)

ThreadStep(c) ==
    \/ OpenThread(c)
    \/ \E k \in Key, o \in Operation \ {"register"} : Send(c, k, o)

WorkerStep(c) ==
    \/ contextRegisterHandler(c) \/ contextTid(c) \/ ErasePod(c)
    \/ \E k \in Key : \/ savePodReject(c, k) \/ savePodHandler(c, k)
                      \/ savePodPayload(c, k) \/ getPodHandler(c, k)
                      \/ sendPodPayload(c, k) \/ freePodHandler(c, k)

Next == \/ \E t \in Tenant : TenantStep(t)
        \/ \E c \in Thread : ThreadStep(c) \/ WorkerStep(c)
        \/ \E c \in Conn : freeHook(c)

Spec == Init /\ [][Next]_vars
-----------------------------------------------------------------------------
(***************************************************************************)
(* Properties.                                                             *)
(***************************************************************************)

\* A tid belongs to one connection or is free, and a free one has no context and
\* no mapping left: whoever gets it next starts clean (assignTid, freeHook).
TidsClean ==
    /\ \A c, d \in Conn : tid[c] # None /\ tid[c] = tid[d] => c = d
    /\ \A i \in DOMAIN tidSlots : \A c \in Conn : tid[c] # tidSlots[i]
    /\ \A i \in Tid : (\A c \in Conn : tid[c] # i) =>
           contextsByTid[i] = None /\ workerToContextTid[i] = None

\* Every request is served from the table of the tenant that sent it, although
\* tids are recycled between tenants, in any order of their workers' exits
\* (contextTid, contextsByTid, freeHook).
TenantIsolation ==
    \A c \in Thread : serving[c] # "recv" => context[c] = TenantOf[c]

\* Only a fetch whose erase is still to come can keep a save of the same pod out
\* of the table: otherwise a local pod's key is absent, and insert, which does
\* not overwrite, stores it (savePodHandler, getPodHandler, freePodHandler).
OnlyPendingEraseBlocksSave ==
    \A t \in Tenant, k \in Key :
        \/ place[t][k] # "local" \/ lockedBy[t][k] # None
        \/ tenantPods[t][k] = None
        \/ \E c \in Thread : TenantOf[c] = t /\ serving[c] = "erase" /\ searchIt[c] = k

\* The memory node "serves page storage and retrieval" (src/README.md:21): a pod
\* that was saved comes back, fetched or prefetched, with the content it had.
ServesWhatWasSaved ==
    [][\A t \in Tenant, k \in Key :
           place[t][k] = "remote" => page'[t][k] = page[t][k]]_vars
=============================================================================
