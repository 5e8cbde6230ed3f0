-------------------------------- MODULE Kmem --------------------------------
(***************************************************************************)
(* The physical page allocator of kalloc.c.  The linked list threaded      *)
(* through the free pages is abstracted to the set of its members: no      *)
(* caller can tell free pages apart.  Every call takes and gives back      *)
(* kmem.lock, so each is one step.  kalloc returns 0 when the list is      *)
(* empty; kfree fills the page with junk.                                  *)
(***************************************************************************)
CONSTANTS Pages, NULL

ASSUME NullNotPage == NULL \notin Pages

VARIABLES
  freelist,
  content   \* what is written in each page

Junk == 0

\* kalloc() returns page p.
kalloc(p) == p \in freelist /\ freelist' = freelist \ {p}

\* kalloc() returns 0.
kalloc_fails == freelist = {} /\ UNCHANGED freelist

\* kfree(p); callers that may hold no page test the pointer first.
kfree(p) ==
  IF p = NULL
  THEN UNCHANGED <<freelist, content>>
  ELSE /\ freelist' = freelist \cup {p}
       /\ content' = [content EXCEPT ![p] = Junk]
=============================================================================
