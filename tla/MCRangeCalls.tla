---------------------------- MODULE MCRangeCalls ----------------------------
(***************************************************************************)
(* Faults next to every call, with and without the mutex.                  *)
(***************************************************************************)
EXTENDS RangeCalls

CONSTANTS FirstApp, FirstAsync

With(calls, threads, pods, clashes) ==
    [calls |-> calls, threads |-> threads, pods |-> pods, clashes |-> clashes]

MCWorkload ==
    {\* every call on one page, and on two without evictions
     With(Call, {FirstApp, FirstAsync} \cup Evictor, 1, 0),
     With(Call, {FirstApp, FirstAsync}, 2, 0),
     \* a range of two pages promoted next to faults and evictions
     With({"fault", "evict", "promoteRange"}, {FirstApp, FirstAsync} \cup Evictor, 2, 0),
     \* two detached threads next to faults
     With({"fault", "promoteRange", "forceSwap"}, {FirstApp} \cup Async, 1, 0),
     \* what goes on after a clash, at the page and at another one
     With({"fault", "evict", "promoteRange"}, {FirstApp, FirstAsync} \cup Evictor, 1, 1),
     With({"fault", "forceSwap"}, {FirstApp, FirstAsync}, 2, 1),
     \* the calls that take the mutex, with two threads that fault
     With({"fault", "evict", "promote", "demoteRange"},
          App \cup {FirstAsync} \cup Evictor, 2, 0)}
=============================================================================
