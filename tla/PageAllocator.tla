--------------------------- MODULE PageAllocator ---------------------------
(***************************************************************************)
(* What a physical page allocator promises its callers, without saying how *)
(* it keeps track of the pages: a request that is answered gets an aligned *)
(* run of pages nobody else holds, and a request is refused only when      *)
(* there is no such run.  Buddy.tla is shown to implement it for requests  *)
(* that all round up to the same size.                                     *)
(***************************************************************************)
EXTENDS Naturals

CONSTANTS
    NPages,     \* pages in the pool
    Requests,   \* page counts the callers ask for
    Size        \* Size[n]: pages really set aside for a request of n

Pages == 0 .. NPages - 1
Block == [page : Pages, n : Requests]   \* first page, and what was asked for
NoRequest == 0

VARIABLES
    held,       \* how many times each block is handed out and not returned
    request     \* the request being served, or NoRequest

avars == <<held, request>>

PagesOf(b) == b.page .. b.page + Size[b.n] - 1
HeldPages == UNION {PagesOf(b) : b \in {c \in Block : held[c] > 0}}

\* The aligned, unused runs of pages that can answer a request for n.
FreeRuns(n) ==
    {b \in Block : /\ b.n = n
                   /\ b.page % Size[n] = 0
                   /\ PagesOf(b) \subseteq Pages
                   /\ PagesOf(b) \cap HeldPages = {}}

AInit == /\ held = [b \in Block |-> 0]
         /\ request = NoRequest

Ask(n) == /\ request = NoRequest
          /\ request' = n
          /\ UNCHANGED held

Grant == /\ request # NoRequest
         /\ \E b \in FreeRuns(request) : held' = [held EXCEPT ![b] = 1]
         /\ request' = NoRequest

Refuse == /\ request # NoRequest
          /\ FreeRuns(request) = {}
          /\ request' = NoRequest
          /\ UNCHANGED held

Release(b) == /\ request = NoRequest
              /\ held[b] > 0
              /\ held' = [held EXCEPT ![b] = @ - 1]
              /\ UNCHANGED request

ANext == \/ \E n \in Requests : Ask(n)
         \/ Grant
         \/ Refuse
         \/ \E b \in Block : Release(b)

ASpec == AInit /\ [][ANext]_avars
=============================================================================
