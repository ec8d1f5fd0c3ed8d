---------------------------- MODULE FetchContract ----------------------------
(***************************************************************************)
(* What handle_image and process_overlay may expect of one fetch_image     *)
(* call, whatever name resolution, timers and retries do inside it: the    *)
(* server is asked again only after a reply worth retrying, and the result *)
(* has its cause in a reply the server gave during this very call.         *)
(*                                                                         *)
(* Fetch is shown to implement this specification.                         *)
(***************************************************************************)
EXTENDS Naturals, Sequences

CONSTANTS
  Calls,        \* concurrent fetch_image calls
  Urls,
  Contents,     \* response bodies
  TooLarge,     \* bodies above max_download_size
  NotImages,    \* bodies is_valid_image_buffer rejects
  Responses,    \* what servers reply: status, content type, length, body
  MaxRetries,   \* FETCH_MAX_RETRIES
  None

VARIABLES
  url,          \* url[c]: what c fetches, None before it begins
  seen,         \* seen[c]: the replies servers have given to c, in order
  result        \* result[c]: what c returns, None until then

vars == <<url, seen, result>>

-----------------------------------------------------------------------------
(* Replies, as fetch_once_with_resolved_ip judges them.                    *)

IsSuccess(status) == 200 <= status /\ status <= 299

\* Verdict on status line and headers, in the order of the checks: "read" lets
\* the body be downloaded.
HeadVerdict(resp) ==
  CASE resp.status = 404 -> "NotFound"
    [] resp.status # 404 /\ ~IsSuccess(resp.status) ->
         IF resp.status >= 500 \/ resp.status = 429 THEN "Transient" ELSE "Permanent"
    [] IsSuccess(resp.status) ->
         IF resp.ctype = "other" \/ resp.length = "over" THEN "Permanent" ELSE "read"

\* Verdict on the downloaded body.
BodyVerdict(content) == IF content \in TooLarge \cup NotImages THEN "Permanent" ELSE "Ok"

\* A reply whose picture may be handed on.
Acceptable(resp) == HeadVerdict(resp) = "read" /\ BodyVerdict(resp.content) = "Ok"

\* A reply after which the server may be asked again: the verdict is transient,
\* or the body broke off on the way.
Retryable(resp) == HeadVerdict(resp) \in {"Transient", "read"}

ErrorKinds == {"NotFound", "Permanent", "Transient"}
Results == [kind: {"Ok"}, content: Contents] \cup [kind: ErrorKinds, content: {None}]

-----------------------------------------------------------------------------
Init ==
  /\ url = [c \in Calls |-> None]
  /\ seen = [c \in Calls |-> << >>]
  /\ result = [c \in Calls |-> None]

\* An error reported as the server's needs a reply that says so.
HasCause(res, replies) ==
  /\ res.kind = "Ok" =>
       /\ replies # << >>
       /\ Acceptable(replies[Len(replies)])
       /\ res.content = replies[Len(replies)].content
  /\ res.kind = "NotFound" =>
       replies # << >> /\ HeadVerdict(replies[Len(replies)]) = "NotFound"
  /\ res.kind = "Transient" => \A i \in 1..Len(replies) : Retryable(replies[i])

\* c returns, or goes on without a result.
Conclude(c) ==
  /\ result' = [result EXCEPT ![c] = result'[c]]
  /\ result'[c] # None => result'[c] \in Results /\ HasCause(result'[c], seen'[c])

\* The URL may be refused out of hand.
Begin(c, u) ==
  /\ url[c] = None
  /\ url' = [url EXCEPT ![c] = u]
  /\ UNCHANGED seen
  /\ Conclude(c)

\* The server is asked, and its reply may settle the matter.
Serve(c, resp) ==
  /\ url[c] # None /\ result[c] = None
  /\ Len(seen[c]) <= MaxRetries
  /\ \A i \in 1..Len(seen[c]) : Retryable(seen[c][i])
  /\ seen' = [seen EXCEPT ![c] = Append(@, resp)]
  /\ UNCHANGED url
  /\ Conclude(c)

\* The call returns on a body, an error or a timer.
Return(c) ==
  /\ url[c] # None /\ result[c] = None
  /\ UNCHANGED <<url, seen>>
  /\ Conclude(c)

Next ==
  \E c \in Calls :
    \/ \E u \in Urls : Begin(c, u)
    \/ \E resp \in Responses : Serve(c, resp)
    \/ Return(c)

Spec == Init /\ [][Next]_vars
=============================================================================
