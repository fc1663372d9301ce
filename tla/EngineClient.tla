---------------------------- MODULE EngineClient ----------------------------
(***************************************************************************)
(* The requests of the engine's client (engine/provider.rs): how the       *)
(* messages of a session go over the wire, and how an answer that is no    *)
(* stream is read.  Streams are ChatStream's.                              *)
(*                                                                         *)
(* A text is "" or some text; a field a JSON object may lack is "absent".  *)
(***************************************************************************)
EXTENDS Naturals, Sequences, FiniteSets

\* Message::to_json: an assistant's empty content is null; calls and the id of
\* the call that is answered are sent where there are any.
Wire(m) ==
    [role |-> m.role,
     content |-> IF m.role = "assistant" /\ m.content = "" THEN "null" ELSE m.content,
     calls |-> [i \in DOMAIN m.calls |-> [id |-> m.calls[i].id, name |-> m.calls[i].name,
                                          args |-> m.calls[i].args]],
     answers |-> m.answers]

\* What the engine answers, as far as it is looked at.
ReplyBodies ==
    [shape : STRING, content : STRING, calls : Seq([id : STRING, name : STRING, args : STRING])]

\* A string field: what is absent or null reads as empty.
Text(x) == IF x \in {"absent", "null"} THEN "" ELSE x

\* parse_non_stream and assemble: calls are numbered by their place.
ParseReply(reply) ==
    IF reply.shape # "choices" THEN [error |-> "Malformed", content |-> "", calls |-> <<>>]
    ELSE [error |-> "none", content |-> Text(reply.content),
          calls |-> [i \in DOMAIN reply.calls |->
                       [index |-> i - 1, id |-> Text(reply.calls[i].id),
                        name |-> Text(reply.calls[i].name), args |-> Text(reply.calls[i].args)]]]

\* chat, without a stream: from_config needs a URL and a model; then the
\* connection, the status and the body decide.
Chat(config, net, reply) ==
    CASE ~config.url \/ ~config.model -> [error |-> "MissingConfig", content |-> "", calls |-> <<>>]
      [] config.url /\ config.model /\ net = "down" ->
            [error |-> "Connect", content |-> "", calls |-> <<>>]
      [] config.url /\ config.model /\ net = "status" ->
            [error |-> "Http", content |-> "", calls |-> <<>>]
      [] OTHER -> ParseReply(reply)

\* What the session appends of an answer.
AssistantMessage(completion) ==
    [role |-> "assistant", content |-> completion.content, calls |-> completion.calls,
     answers |-> "absent"]

\* An answer that the session keeps and sends again is the answer it got: every
\* call is in it, in its place, and no content is the same as null.
ReplySentBack(reply, completion) ==
    completion.error = "none" =>
        LET again == Wire(AssistantMessage(completion))
        IN /\ Len(again.calls) = Len(reply.calls)
           /\ \A i \in DOMAIN reply.calls :
                 /\ again.calls[i].id = Text(reply.calls[i].id)
                 /\ again.calls[i].name = Text(reply.calls[i].name)
                 /\ again.calls[i].args = Text(reply.calls[i].args)
           /\ Text(again.content) = Text(reply.content)
           /\ ParseReply([shape |-> "choices", content |-> again.content,
                          calls |-> again.calls]).calls = completion.calls
=============================================================================
