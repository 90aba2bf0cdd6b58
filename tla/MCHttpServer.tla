----------------------------- MODULE MCHttpServer -----------------------------
(* The instance of HttpServer that TLC checks. *)
EXTENDS HttpServer

Get0 == <<Words("GET", 0, "HTTP/1.1"), CRLF>>
Close == Header("Connection", "close")

\* No body, a text, and what is taken for a request: a whole request; a request
\* line, for which the next request ends the headers; one with headers that have
\* text in front of them or, in the next request, behind them
Bodies == {<<>>, <<Body>>, Get0 \o <<CRLF>>, Get0, Get0 \o <<Body, Close, CRLF, Close>>}
=============================================================================
