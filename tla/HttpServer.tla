----------------------------- MODULE HttpServer -----------------------------
(***************************************************************************)
(* One connection of HttpServer (src/src/http/): the client's stream of    *)
(* requests arrives in reads of any size, and onMessage parses what is in  *)
(* the input buffer with a new HttpContext and answers.                    *)
(*                                                                         *)
(* A line is the sequence of pieces of text before a CRLF; a piece has its *)
(* words, or the field and the value of a header.  A read may end anywhere *)
(* between pieces and CRLFs, which stands for anywhere in a line.  A body  *)
(* is any sequence of pieces, and may look like a request.                 *)
(***************************************************************************)
EXTENDS Integers, Sequences, SequencesExt

CONSTANTS MethodsSent, VersionsSent,  \* what clients put in a request line
          BodiesSent,                 \* the bodies they send; <<>> for none
          MaxRequests                 \* bound: requests on the connection

Connections == {"", "close", "Keep-Alive"}

CRLF == [kind |-> "crlf"]
Body == [kind |-> "body"]
Words(method, n, version) == [kind |-> "words", words |-> <<method, n, version>>]
Header(field, value) == [kind |-> "header", field |-> field, value |-> value]

\* what a stream is made of; the path of a request is its number
Token == {CRLF, Body}
         \cup [kind : {"words"}, words : MethodsSent \X Nat \X VersionsSent]
         \cup [kind : {"header"}, field : {"Connection"}, value : Connections]

ASSUME HttpAssumption == MaxRequests \in Nat /\ BodiesSent \subseteq Seq(Token)

Request == [method : MethodsSent, version : VersionsSent,
            connection : Connections, body : BodiesSent]

\* the headers with the empty line that ends them
HeadersOf(r) == IF r.connection = "" THEN <<CRLF>>
                ELSE <<Header("Connection", r.connection), CRLF, CRLF>>

\* request r, the n-th of the connection, as it is sent
Encode(r, n) == <<Words(r.method, n, r.version), CRLF>> \o HeadersOf(r) \o r.body

\* what stands for k400BadRequest among the replies: no number of a request
Status400 == -400

VARIABLES
  requests,  \* what the client sends
  stream,    \* the bytes of it that have not arrived
  input,     \* the connection's _inputBuffer
  phase,     \* "idle"; in parseRequest: "parse"; behind it: "answer"
  parse,     \* the context's _state
  ok,        \* parseRequest's ok
  line,      \* the context's _request: path, version
  headers,   \* its _headers
  state,     \* the connection's _state
  replies,   \* what was sent: the path of the request, or Status400
  reads,     \* history: number of reads
  whole,     \* history: each read was one request without a body
  cleared    \* history: the replies whose callback took back the close

httpVars == <<requests, stream, input, phase, parse, ok, line, headers, state,
              replies, reads, whole, cleared>>

NoLine == [path |-> 0, version |-> "kUnknown"]
NoHeaders == [field \in {"Connection"} |-> ""]

HttpInit == /\ requests \in BoundedSeq(Request, MaxRequests)
            /\ stream = FlattenSeq([n \in DOMAIN requests |-> Encode(requests[n], n)])
            /\ input = <<>>
            /\ phase = "idle" /\ parse = "kExpectRequestLine" /\ ok = FALSE
            /\ line = NoLine /\ headers = NoHeaders
            /\ state = "kConnected" /\ replies = <<>>
            /\ reads = 0 /\ whole = TRUE /\ cleared = {}

-----------------------------------------------------------------------------
(* TcpConnection::handleRead and the beginning of onMessage.               *)

\* onMessage begins with a new HttpContext
NewContext == /\ parse' = "kExpectRequestLine"
              /\ line' = NoLine /\ headers' = NoHeaders

\* a read ends anywhere
Read == /\ phase = "idle"
        /\ \E k \in 1 .. Len(stream) :
             LET got == SubSeq(stream, 1, k)
             IN /\ input' = input \o got
                /\ stream' = SubSeq(stream, k + 1, Len(stream))
                /\ whole' = /\ whole
                            /\ reads < Len(requests)
                            /\ got = Encode(requests[reads + 1], reads + 1)
                            /\ requests[reads + 1].body = <<>>
        /\ reads' = reads + 1
        /\ phase' = "parse" /\ ok' = FALSE
        /\ NewContext
        /\ UNCHANGED <<requests, state, replies, cleared>>

-----------------------------------------------------------------------------
(* HttpContext::parseRequest, one action per turn of its loop.             *)

\* findCRLF; 0 for none
FindCRLF == IF Contains(input, CRLF)
              THEN SelectInSeq(input, LAMBDA t : t = CRLF) ELSE 0

\* the line at the front of the input, and retrieveUntil(crlf + 2)
FrontLine == SubSeq(input, 1, FindCRLF - 1)
RetrieveLine == input' = SubSeq(input, FindCRLF + 1, Len(input))

\* setMethod
KnownMethods == {"GET", "POST", "HEAD", "PUT", "DELETE"}

\* processRequestLine: a known method, a path, and HTTP/1.0 or HTTP/1.1 behind
\* the second space
StartsRequest(t) == /\ t.kind = "words"
                    /\ t.words[1] \in KnownMethods
                    /\ t.words[3] \in {"HTTP/1.0", "HTTP/1.1"}

IsRequestLine(l) == Len(l) = 1 /\ StartsRequest(l[1])

\* an incomplete or bad line ends the loop, and ok stays or becomes false
ParseRequestLine ==
  /\ phase = "parse" /\ parse = "kExpectRequestLine"
  /\ IF FindCRLF # 0 /\ IsRequestLine(FrontLine)
       THEN /\ ok' = TRUE
            /\ line' = [path |-> FrontLine[1].words[2],
                        version |-> FrontLine[1].words[3]]
            /\ RetrieveLine
            /\ parse' = "kExpectHeaders"
            /\ UNCHANGED phase
       ELSE /\ ok' = FALSE
            /\ phase' = "answer"
            /\ UNCHANGED <<line, input, parse>>
  /\ UNCHANGED <<requests, stream, headers, state, replies, reads, whole,
                 cleared>>

\* addHeader: text in front of it makes it another field, text behind it another
\* value
AddHeader(l) ==
  IF l[1].kind = "header"
    THEN headers' = [headers EXCEPT ![l[1].field] =
                       IF Len(l) = 1 THEN l[1].value ELSE "other"]
    ELSE UNCHANGED headers

HasColon(l) == \E k \in DOMAIN l : l[k].kind = "header"

\* mutant: the line that ends the headers stays in the buffer
ParseHeaderKeeping ==
  /\ phase = "parse" /\ parse = "kExpectHeaders"
  /\ \/ /\ FindCRLF = 0
        /\ phase' = "answer"
        /\ UNCHANGED <<headers, parse, input>>
     \/ /\ FindCRLF # 0 /\ HasColon(FrontLine)
        /\ AddHeader(FrontLine)
        /\ RetrieveLine
        /\ UNCHANGED <<phase, parse>>
     \/ /\ FindCRLF # 0 /\ ~HasColon(FrontLine)
        /\ parse' = "kGotAll" /\ phase' = "answer"
        /\ UNCHANGED <<headers, input>>
  /\ UNCHANGED <<requests, stream, ok, line, state, replies, reads, whole,
                 cleared>>

\* a line with a colon is a header, any other ends them
ParseHeader ==
  /\ phase = "parse" /\ parse = "kExpectHeaders"
  /\ \/ /\ FindCRLF = 0
        /\ phase' = "answer"
        /\ UNCHANGED <<headers, parse, input>>
     \/ /\ FindCRLF # 0 /\ HasColon(FrontLine)
        /\ AddHeader(FrontLine)
        /\ RetrieveLine
        /\ UNCHANGED <<phase, parse>>
     \/ /\ FindCRLF # 0 /\ ~HasColon(FrontLine)
        /\ parse' = "kGotAll" /\ phase' = "answer"
        /\ RetrieveLine
        /\ UNCHANGED headers
  /\ UNCHANGED <<requests, stream, ok, line, state, replies, reads, whole,
                 cleared>>

-----------------------------------------------------------------------------
(* The rest of onMessage.                                                  *)

\* mutant: send takes data on a connection that is shutting down
SendAlways(reply) == replies' = Append(replies, reply)

\* TcpConnection::send and shutdown
Send(reply) == replies' = IF state = "kConnected" THEN Append(replies, reply)
                                                  ELSE replies
ShutdownIf(close) == state' = IF close THEN "kDisconnecting" ELSE state

BadRequest == /\ phase = "answer" /\ ~ok
              /\ Send(Status400)
              /\ ShutdownIf(TRUE)
              /\ phase' = "idle"
              /\ UNCHANGED <<requests, stream, input, parse, ok, line, headers,
                             reads, whole, cleared>>

\* onRequest; _httpCallback may leave the close as it is, ask for it as
\* defaultHttpCallback does, or take it back (setCloseConnection)
OnRequest ==
  LET close == \/ headers["Connection"] = "close"
               \/ line.version = "HTTP/1.0" /\ headers["Connection"] # "Keep-Alive"
  IN /\ phase = "answer" /\ ok /\ parse = "kGotAll"
     /\ Send(line.path)
     /\ \E closeConnection \in BOOLEAN :
          /\ ShutdownIf(closeConnection)
          /\ cleared' = IF close /\ ~closeConnection
                          THEN cleared \cup {Len(replies) + 1} ELSE cleared
     /\ phase' = "idle"
     /\ UNCHANGED <<requests, stream, input, parse, ok, line, headers, reads, whole>>

\* headers are missing: the context goes with what it has read
Unanswered == /\ phase = "answer" /\ ok /\ parse # "kGotAll"
              /\ phase' = "idle"
              /\ UNCHANGED <<requests, stream, input, parse, ok, line, headers,
                             state, replies, reads, whole, cleared>>

HttpNext == \/ Read \/ ParseRequestLine \/ ParseHeader
            \/ BadRequest \/ OnRequest \/ Unanswered

HttpSpec == HttpInit /\ [][HttpNext]_httpVars

-----------------------------------------------------------------------------
(* Properties.  What the client asked for is read off its requests.        *)

Valid(r) == r.method \in KnownMethods /\ r.version \in {"HTTP/1.0", "HTTP/1.1"}

WantsClose(r) == \/ r.connection = "close"
                 \/ r.version = "HTTP/1.0" /\ r.connection # "Keep-Alive"

\* none of the first n requests has a body that begins like a request
PlainBodies(n) ==
  \A k \in DOMAIN requests :
    k <= n /\ requests[k].body # <<>> => ~StartsRequest(requests[k].body[1])

\* However the stream is cut into reads, the replies are those to the client's
\* requests, in order, each once and to a whole and valid request, up to the first
\* whose body begins like a request: parseRequest does not read bodies, and
\* takes that one for the next request.  What is left of a request that was cut is
\* never taken for another.  A 400 is the last reply, and so is the one to a
\* request that asks for the close, unless the callback takes that back
\* (onMessage, parseRequest, onRequest).
RepliesFaithful ==
  \A i \in DOMAIN replies :
    /\ i < Len(replies) => replies[i] # Status400
    /\ PlainBodies(i - 1) =>
         /\ replies[i] \in {i, Status400}
         /\ replies[i] = i => i <= Len(requests) /\ Valid(requests[i])
         /\ i < Len(replies) /\ WantsClose(requests[i]) => i \in cleared

\* A client whose requests arrive one to a read, without bodies, gets its reply
\* to each: 400 to the first that is not valid, and none is left half-parsed
\* for the next, until the connection ends (onMessage, parseRequest).
WholeAnswered ==
  phase = "idle" /\ whole
  => /\ state = "kConnected" => Len(replies) = reads /\ input = <<>>
     /\ \A i \in DOMAIN replies : (replies[i] = Status400) <=> ~Valid(requests[i])
=============================================================================
