------------------------------ MODULE WebTools ------------------------------
(***************************************************************************)
(* The web tools (tools/web.rs): the chain of search providers, and the    *)
(* fetch of a document.                                                    *)
(*                                                                         *)
(* A provider is known by how its answer comes: "down" (no answer, or none *)
(* in time), "status" (an error status), "garbled" (no JSON, no text) or   *)
(* the sequence of the hits in it.  A text is a sequence of lines, each    *)
(* with its length; the cut of a fetch is modelled over positions.         *)
(***************************************************************************)
EXTENDS Naturals, Sequences, FiniteSets, SequencesExt

CONSTANTS MaxOutput,     \* MAX_OUTPUT_BYTES
          Window         \* how far back a clean boundary is looked for

-----------------------------------------------------------------------------
(* web_search                                                              *)

Failed(provider, error) == [provider |-> provider, error |-> error, urls |-> <<>>]

\* The hits that have a URL (and, from DuckDuckGo, a title).
Urls(hits, titled) ==
    FoldLeft(LAMBDA urls, h : IF h.url # "" /\ (titled => h.title) THEN Append(urls, h.url)
                              ELSE urls, <<>>, hits)

Answered(provider, how, hits) ==
    IF how = "hits" THEN [provider |-> provider, error |-> "none",
                          urls |-> Urls(hits, provider = "duckduckgo")]
    ELSE Failed(provider, how)

\* web_search, with the request to the provider that is chosen.
WebSearch(blank, net) ==
    CASE blank -> Failed("none", "InvalidQuery")
      [] ~blank /\ net.searxng # "not set" -> Answered("searxng", net.searxng, net.hits)
      [] ~blank /\ net.searxng = "not set" /\ net.brave # "no key" ->
            Answered("brave", net.brave, net.hits)
      [] OTHER -> Answered("duckduckgo", net.ddg, net.hits)

\* The head of the module: a provider that is configured and fails is an error
\* of its own, never an answer of another; nothing is lost but hits without URL.
ChainStrict(net, outcome) ==
    /\ net.searxng # "not set" => outcome.provider \in {"searxng", "none"}
    /\ net.searxng = "not set" /\ net.brave # "no key" => outcome.provider \in {"brave", "none"}
    /\ outcome.error = "none" =>
          Range(outcome.urls) \subseteq {h.url : h \in Range(net.hits)} \ {""}
    /\ outcome.error = "none" /\ outcome.provider # "duckduckgo" =>
          Len(outcome.urls) = Cardinality({i \in DOMAIN net.hits : net.hits[i].url # ""})

-----------------------------------------------------------------------------
(* fetch_docs                                                              *)

\* classify
Classify(type, hasNul) ==
    CASE type \in {"text/html", "application/xhtml+xml"} -> "Html"
      [] type \in {"application/json", "x+json"} -> "Json"
      [] type \in {"text/plain"} -> "Text"
      [] type \in {"image/png", "application/octet-stream", "application/pdf"} -> "Binary"
      [] OTHER -> IF hasNul THEN "Binary" ELSE "Html"

\* The last place before limit where the text has this mark, 0 if none.
LastOf(text, mark, limit) ==
    LET at == {i \in 1..limit : /\ i + Len(mark) - 1 <= limit
                                /\ SubSeq(text, i, i + Len(mark) - 1) = mark}
    IN IF at = {} THEN 0 ELSE (CHOOSE i \in at : \A j \in at : j <= i) - 1

\* Where cap_output cuts: at the last blank line, else the last line end, that
\* is near the limit, else at the limit.
Cut(text) ==
    LET near == MaxOutput - Window
        blank == LastOf(text, <<"nl", "nl">>, MaxOutput)
        line == LastOf(text, <<"nl">>, MaxOutput)
    IN IF blank >= near THEN blank ELSE IF line >= near THEN line ELSE MaxOutput

\* The fences of a text: "```" at the start of a line.
Fences(text) ==
    Cardinality({i \in DOMAIN text : text[i] = "fence" /\ (i = 1 \/ text[i - 1] = "nl")})

\* cap_output over the bytes of a text ("rest" is a later byte of a character):
\* the slice up to the limit panics inside a character.
CapOutput(text) ==
    LET shown == SubSeq(text, 1, Cut(text))
    IN IF Len(text) <= MaxOutput THEN [panics |-> FALSE, shown |-> text, marked |-> FALSE]
       ELSE IF text[MaxOutput + 1] = "rest"
            THEN [panics |-> TRUE, shown |-> <<>>, marked |-> FALSE]
       ELSE [panics |-> FALSE, marked |-> TRUE,
             shown |-> IF Fences(shown) % 2 = 1 THEN shown \o <<"nl", "fence">> ELSE shown]

\* The category decides what is made of the body; only a JSON body can be bad.
FetchDocs(url, reply) ==
    CASE url.scheme \notin {"http", "https"} -> [error |-> "InvalidUrl", body |-> <<>>]
      [] url.scheme \in {"http", "https"} /\ reply.how # "ok" -> [error |-> "Http", body |-> <<>>]
      [] OTHER ->
            LET category == Classify(reply.type, reply.hasNul)
            IN CASE category = "Binary" -> [error |-> "Binary", body |-> <<>>]
                 [] category = "Json" /\ ~reply.json -> [error |-> "Http", body |-> <<>>]
                 [] OTHER -> [error |-> "none", body |-> CapOutput(reply.text).shown]

\* A document that is cut shows a beginning of it, of almost the whole limit,
\* that ends at a line where one ends nearby, with no code fence left open.
CutClean(text, cap) ==
    cap.marked =>
        /\ Fences(cap.shown) % 2 = 0
        /\ \E own \in MaxOutput - Window..MaxOutput :
              /\ \/ cap.shown = SubSeq(text, 1, own)
                 \/ cap.shown = SubSeq(text, 1, own) \o <<"nl", "fence">>
              /\ (\E i \in MaxOutput - Window + 1..MaxOutput : text[i] = "nl") =>
                    text[own + 1] = "nl"

\* A body is shown only of an answer that came over HTTP, and one with a NUL byte
\* only where the server calls it a text; with an error no body is shown.
DocsShown(url, reply, answer) ==
    /\ answer.error = "none" =>
          /\ url.scheme \in {"http", "https"} /\ reply.how = "ok"
          /\ reply.hasNul => reply.type \notin {"none", "image/png", "application/pdf"}
    /\ answer.error # "none" => answer.body = <<>>
=============================================================================
