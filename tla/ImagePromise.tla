----------------------------- MODULE ImagePromise -----------------------------
(***************************************************************************)
(* What GET /image promises, with no cache, no concurrency and no retries: *)
(* a request is answered at most once, and a 200 answer is a render of     *)
(* that very query, made from content the origins have served under the    *)
(* URLs the query names, with every overlay in it that never failed.       *)
(*                                                                         *)
(* ImageService is shown to implement this specification.                  *)
(***************************************************************************)
EXTENDS ImageData

CONSTANTS
  Requests,     \* one HTTP exchange each
  Errors        \* answers other than 200, and "Gone": nobody left to answer

VARIABLES
  published,    \* set of <<url, content>> pairs origins have served so far
  failed,       \* overlays that have failed to be fetched or processed
  query,        \* query[r]: what r asks for, None before it arrives
  answer        \* answer[r]: None until r is answered

vars == <<published, failed, query, answer>>

Init ==
  /\ \E origin \in [Urls -> Contents] : published = {<<u, origin[u]>> : u \in Urls}
  /\ failed = {}
  /\ query = [r \in Requests |-> None]
  /\ answer = [r \in Requests |-> None]

\* An origin replaces what it serves under u.
Publish(u, c) ==
  /\ published' = published \cup {<<u, c>>}
  /\ UNCHANGED <<failed, query, answer>>

\* Overlay o cannot be fetched, decoded or drawn this time.
Fail(o) ==
  /\ failed' = failed \cup {o}
  /\ UNCHANGED <<published, query, answer>>

Ask(r, q) ==
  /\ query[r] = None
  /\ query' = [query EXCEPT ![r] = q]
  /\ UNCHANGED <<published, failed, answer>>

Waiting(r) == query[r] # None /\ answer[r] = None

\* A 200 answer: whatever its body is, it renders the query that was asked.
Deliver(r) ==
  /\ Waiting(r)
  /\ answer'[r] # None
  /\ answer'[r].status = "OK"
  /\ Valid(query[r])
  /\ IsRenderOf(answer'[r].body, query[r], published, failed)
  /\ answer' = [answer EXCEPT ![r] = answer'[r]]
  /\ UNCHANGED <<published, failed, query>>

\* The requests in R are answered with error e: one, or all of them in a crash.
Refuse(R, e) ==
  /\ \A r \in R : Waiting(r)
  /\ answer' = [r \in Requests |->
                  IF r \in R THEN [status |-> e, body |-> None] ELSE answer[r]]
  /\ UNCHANGED <<published, failed, query>>

Next ==
  \/ \E u \in Urls, c \in Contents : Publish(u, c)
  \/ \E q \in Queries : \E i \in DOMAIN q.overlay : Fail(q.overlay[i])
  \/ \E r \in Requests, q \in Queries : Ask(r, q)
  \/ \E r \in Requests : Deliver(r)
  \/ \E R \in SUBSET Requests, e \in Errors : Refuse(R, e)

Spec == Init /\ [][Next]_vars
=============================================================================
