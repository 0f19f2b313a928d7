------------------------------- MODULE PagePool -------------------------------
(***************************************************************************)
(* What PageAllocator promises its client: a few areas of pages, from      *)
(* which runs of neighbouring pages are taken and given back.  A request   *)
(* is refused only when no area has a free run of that length.             *)
(***************************************************************************)
EXTENDS Integers

CONSTANTS AllocCounts,  \* the numbers of pages a client asks for
          nullptr       \* a request that was refused

VARIABLES areas,  \* the sets of neighbouring pages init found
          held,   \* first page of a run a client holds -> its length
          reply   \* the last call and what it returned

vars == <<areas, held, reply>>

Run(p, n) == p..(p + n - 1)
Taken == UNION {Run(g, held[g]) : g \in DOMAIN held}

\* The first pages of the runs of n pages that nobody holds.
FreeRuns(n) ==
    LET taken == Taken
    IN  UNION {{p \in area : Run(p, n) \subseteq area \ taken} : area \in areas}

Nobody == [p \in 1..0 |-> 0]

Init == areas = {} /\ held = Nobody /\ reply.result = nullptr

\* init or clear: all that was known is forgotten.
Forget ==
    /\ areas' = {}
    /\ held' = Nobody
    /\ reply'.op # "allocate"

\* The end of init: some pages, none of them in two areas.
Provide ==
    /\ areas = {}
    /\ {} \notin areas'
    /\ \A a, b \in areas' : a # b => a \cap b = {}
    /\ reply'.op = "init" /\ reply'.result = TRUE
    /\ UNCHANGED held

Take(n) ==
    /\ n > 0
    /\ \E p \in FreeRuns(n) :
          /\ held' = [g \in DOMAIN held \cup {p} |->
                         IF g = p THEN n ELSE held[g]]
          /\ reply' = [op |-> "allocate", count |-> n, result |-> p]
    /\ UNCHANGED areas

Refuse(n) ==
    /\ n > 0 => FreeRuns(n) = {}
    /\ reply' = [op |-> "allocate", count |-> n, result |-> nullptr]
    /\ UNCHANGED <<areas, held>>

GiveBack(g) ==
    /\ held' = [h \in DOMAIN held \ {g} |-> held[h]]
    /\ reply'.op # "allocate"
    /\ UNCHANGED areas

\* The return of release, and a release of the null pointer.
Acknowledge ==
    /\ reply'.op = "release"
    /\ UNCHANGED <<areas, held>>

Next ==
    \/ Forget
    \/ Provide
    \/ \E n \in AllocCounts : Take(n) \/ Refuse(n)
    \/ \E g \in DOMAIN held : GiveBack(g)
    \/ Acknowledge

Spec == Init /\ [][Next]_vars
=============================================================================
