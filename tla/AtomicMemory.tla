---------------------------- MODULE AtomicMemory ----------------------------
(***************************************************************************)
(* What remon promises the application about the pages of a huge           *)
(* allocation: a page it owns is ordinary memory.  Its content changes     *)
(* when a thread that asked for it writes it, or gives it up, and at no    *)
(* other time, whatever the compute node does with its frame; a page the   *)
(* application has just been given holds anything.                         *)
(* (src/README.md:3: pages move "transparently".)                          *)
(***************************************************************************)
CONSTANTS Pod,        \* the pages
          App,        \* the threads of the application
          Value,      \* what they write
          Data,       \* the contents a page can have
          Undefined,  \* the content of a page the application does not own
          Idle        \* no request

VARIABLES live,       \* the pages the application owns
          content,    \* what a read of each page returns
          request     \* what each thread is doing: <<operation, page>>

vars == <<live, content, request>>

Operation == {"read", "promote", "malloc", "cleanup"} \cup Value

Init == /\ live = {}
        /\ content = [p \in Pod |-> Undefined]
        /\ request = [t \in App |-> Idle]

Finished(t) == request' = [request EXCEPT ![t] = Idle]

\* Thread t starts an operation on a page the application owns, or asks for one.
Request(t, o, p) == /\ request[t][1] = "none"
                    /\ (o = "malloc") <=> (p \notin live)
                    /\ request' = [request EXCEPT ![t] = <<o, p>>]
                    /\ UNCHANGED <<live, content>>

\* A write takes effect; d is what t asked to write, p where.
Write(t, p, d) == /\ request[t] = <<d, p>> /\ p \in live
                  /\ content' = [content EXCEPT ![p] = d]
                  /\ Finished(t)
                  /\ UNCHANGED live

\* malloc returns the page; its content is arbitrary.
Malloc(t, p) == /\ request[t] = <<"malloc", p>> /\ p \notin live
                /\ live' = live \cup {p}
                /\ \E d \in Data : content' = [content EXCEPT ![p] = d]
                /\ Finished(t)

\* remon_cleanup_evicted gives up the content of a page.
Discard(t, p) == /\ request[t] = <<"cleanup", p>> /\ p \in live
                 /\ \E d \in Data : content' = [content EXCEPT ![p] = d]
                 /\ UNCHANGED <<live, request>>

\* Other operations end and change nothing.
Return(t) == /\ request[t][1] \notin Value \cup {"malloc"}
             /\ Finished(t)
             /\ UNCHANGED <<live, content>>

Free(p) == /\ p \in live
           /\ live' = live \ {p}
           /\ content' = [content EXCEPT ![p] = Undefined]
           /\ UNCHANGED request

Next == \/ \E t \in App :
              \/ Return(t)
              \/ \E p \in Pod : \/ \E o \in Operation : Request(t, o, p)
                                \/ \E d \in Value : Write(t, p, d)
                                \/ Malloc(t, p) \/ Discard(t, p)
        \/ \E p \in Pod : Free(p)

Spec == Init /\ [][Next]_vars
=============================================================================
