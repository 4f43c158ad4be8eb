------------------------------- MODULE HttpMessage -----------------------------
(***************************************************************************)
(* What the parser of src/src/api/http.cpp (llhttp and its callbacks)      *)
(* makes of the bytes of a connection, for requests and for responses: a   *)
(* fold over the tokens that have come.  A token is a start line, the end  *)
(* of the header fields, or a piece of a body with its framing.            *)
(*                                                                         *)
(* A request is a record of what its header says: `body`, `keep` (the      *)
(* connection is kept alive), `isHead`, `upgrade`.  A response's header    *)
(* says its framing: "none", "length" (of one piece), "empty", "chunked".  *)
(***************************************************************************)
EXTENDS Naturals, SequencesExt

Token(t, of, piece) == [t |-> t, of |-> of, piece |-> piece]

ParserEvent(type, of, piece) == [type |-> type, of |-> of, piece |-> piece]

\* The parser: where in a message it is, which one, and the events collected.
Parser == [at |-> "idle", of |-> 0, events |-> <<>>]

Emits(p, at, events) == [p EXCEPT !.at = at, !.events = @ \o events]
ParseError(p) == Emits(p, "error", <<ParserEvent("error", 0, 0)>>)
Unfinished(p) == Emits(p, "error", <<ParserEvent("cut", 0, 0)>>)

\* onHeadersComplete and onMessageComplete of a request without a body: after the
\* last one of a connection no more may come, after an upgrade all is the other
\* protocol's.
RequestHead(p, of, req) ==
  LET headers == ParserEvent("headers", of, 0)
      complete == ParserEvent("complete", of, 0)
  IN  CASE req.upgrade -> Emits(p, "upgraded", <<headers, complete, ParserEvent("upgrade", of, 0)>>)
        [] req.body    -> Emits(p, "body", <<headers>>)
        [] OTHER       -> Emits(p, IF req.keep THEN "idle" ELSE "last", <<headers, complete>>)

RequestToken(p, token, req) ==
  CASE p.at \in {"upgraded", "error"} -> p
    [] p.at = "idle" /\ token.t = "start" -> [p EXCEPT !.at = "headers"]
    [] p.at = "headers" /\ token.t = "head" -> RequestHead(p, token.of, req)
    [] p.at = "body" /\ token.t = "body" ->
         Emits(p, IF req.keep THEN "idle" ELSE "last",
               <<ParserEvent("body", token.of, 0), ParserEvent("complete", token.of, 0)>>)
    [] OTHER -> ParseError(p)

\* A response: of a HEAD request, or with no body, it is over with its header.
\* The 400 of a server that gives up is left out where it can be told apart.
ResponseHead(p, token, framing, isHead) ==
  LET headers == ParserEvent("headers", token.of, 0)
      q == [p EXCEPT !.of = token.of]
  IN  IF isHead \/ framing \in {"none", "empty"}
        THEN Emits(q, "idle", <<headers, ParserEvent("complete", token.of, 0)>>)
      ELSE Emits(q, framing, <<headers>>)

ResponseToken(p, token, framing, isHead) ==
  LET body == ParserEvent("body", p.of, token.piece)
      complete == ParserEvent("complete", p.of, 0)
  IN  CASE p.at = "error" \/ (p.at = "idle" /\ token.t = "400") -> p
        [] p.at = "idle" /\ token.t = "head" -> ResponseHead(p, token, framing, isHead)
        [] p.at = "length" /\ token.t = "data" -> Emits(p, "idle", <<body, complete>>)
        [] p.at = "chunked" /\ token.t = "chunk" -> Emits(p, "chunked", <<body>>)
        [] p.at = "chunked" /\ token.t = "last" -> Emits(p, "idle", <<complete>>)
        [] OTHER -> ParseError(p)

\* __brokit_http_parser_finish: the stream has ended.  "cut" is an error as well.
FinishParser(p) ==
  IF p.at \in {"idle", "last", "upgraded"} THEN p ELSE Unfinished(p)

\* serializeEvents hands the events over.
Handed(p) == [p EXCEPT !.events = <<>>]

===============================================================================
