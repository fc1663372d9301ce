---------------------------- MODULE ProxyRequest ----------------------------
(***************************************************************************)
(* One request through the proxy (proxy_handler in proxy/mod.rs, and the   *)
(* request side of proxy/sanitize.rs): what is sent upstream, and how the  *)
(* answer comes back.                                                      *)
(*                                                                         *)
(* A JSON value is a tree: an array or an object with its parts in order,  *)
(* an object marked where it is an image block, or a leaf.                 *)
(***************************************************************************)
EXTENDS Naturals, Sequences, FiniteSets, SequencesExt

Leaf(x) == [kind |-> x, image |-> FALSE, parts |-> <<>>]
Placeholder == Leaf("placeholder")
Array(parts) == [kind |-> "array", image |-> FALSE, parts |-> parts]
Object(image, parts) == [kind |-> "object", image |-> image, parts |-> parts]

\* sanitize_item: image blocks are replaced whole, at any depth.
RECURSIVE SanitizeItem(_)
SanitizeItem(item) ==
    IF item.image THEN Placeholder
    ELSE [item EXCEPT !.parts = [i \in DOMAIN item.parts |-> SanitizeItem(item.parts[i])]]

\* sanitize_request_body: the contents of the messages, and the prompt.
SanitizeBody(body) ==
    [body EXCEPT !.messages = [i \in DOMAIN body.messages |-> SanitizeItem(body.messages[i])],
                 !.prompt = SanitizeItem(body.prompt)]

IsChat(request) == request.method = "POST" /\ request.path = "chat"

\* The windows of 15 bytes are compared with literals of 13 and 14 bytes, which
\* they cannot equal: only the accept header makes a request a streaming one.
BodyStream(request) == FALSE

IsStream(request) == IsChat(request) /\ (request.acceptStream \/ BodyStream(request))

\* A body that is no JSON, or of another endpoint, goes on as it is.
Forwarded(request) ==
    IF IsChat(request) /\ request.json THEN SanitizeBody(request.body) ELSE request.body

\* proxy_handler: a status of 0 stands for no answer.
Reply(request, upstream) ==
    CASE request.large -> [status |-> 413, body |-> "own", sent |-> FALSE]
      [] ~request.large /\ upstream.status = 0 -> [status |-> 502, body |-> "own", sent |-> TRUE]
      [] OTHER ->
            [status |-> upstream.status, sent |-> TRUE,
             body |-> IF /\ upstream.eventStream \/ IsStream(request)
                         /\ upstream.status \in 200..299
                      THEN "sanitized" ELSE "verbatim"]

-----------------------------------------------------------------------------

RECURSIVE Parts(_)
Parts(item) == {item} \cup UNION {Parts(item.parts[i]) : i \in DOMAIN item.parts}

\* Where two trees agree but for image blocks that one has replaced.
RECURSIVE Same(_, _)
Same(before, after) ==
    \/ before.image /\ after = Placeholder
    \/ /\ ~before.image
       /\ before.kind = after.kind /\ DOMAIN before.parts = DOMAIN after.parts
       /\ \A i \in DOMAIN before.parts : Same(before.parts[i], after.parts[i])

\* No image block of a chat request reaches the engine, and nothing else of the
\* request is changed.
TextOnly(request, body) ==
    /\ IsChat(request) /\ request.json =>
          /\ \A i \in DOMAIN body.messages :
                \A part \in Parts(body.messages[i]) : ~part.image
          /\ \A part \in Parts(body.prompt) : ~part.image
    /\ DOMAIN body.messages = DOMAIN request.body.messages
    /\ \A i \in DOMAIN body.messages : Same(request.body.messages[i], body.messages[i])
                                       \/ body.messages[i] = request.body.messages[i]
    /\ ~(IsChat(request) /\ request.json) => body = request.body

\* The engine's status is the client's; an error of the engine comes verbatim,
\* and an event stream it labels as one is always guarded.
NeverFaked(request, upstream, reply) ==
    /\ reply.body = "own" <=> request.large \/ upstream.status = 0
    /\ reply.body # "own" => reply.status = upstream.status
    /\ reply.body = "sanitized" => upstream.status \in 200..299
    /\ ~request.large /\ upstream.status \in 200..299 /\ upstream.eventStream =>
          reply.body = "sanitized"
=============================================================================
