----------------------------- MODULE HttpParser -----------------------------
(***************************************************************************)
(* The request half of an http_conn slot: read(), the line scanner and the *)
(* state machine of process_read, which starts again where it stopped each *)
(* time TCP delivers another piece of the request.  A unit of the buffer   *)
(* is CR, LF, a request line, a header field or a unit of the body.  A     *)
(* client sends its next request when it has the answer to the last.       *)
(***************************************************************************)
EXTENDS Integers, Sequences, FiniteSets

CONSTANTS
  READ_BUFFER_SIZE,   \* in units
  MaxBody,            \* bound: units of a body
  MaxRequests,        \* bound: requests of a client
  BodySplit           \* may TCP deliver a body in pieces?

ASSUME ParserAssumption ==
  /\ READ_BUFFER_SIZE \in Nat \ {0} /\ MaxBody \in Nat /\ MaxRequests \in Nat
  /\ BodySplit \in BOOLEAN

\* The requests clients send: torn has a CR without LF in a header field.
Requests == [method : {"GET", "POST", "other"}, linger : BOOLEAN,
             torn : BOOLEAN, body : 0 .. MaxBody]

CRLF == <<"CR", "LF">>
Line(unit) == <<unit>> \o CRLF
If(cond, s) == IF cond THEN s ELSE <<>>

HeaderOf(r) ==
  Line(r.method) \o If(r.torn, <<"CR", "field">> \o CRLF)
    \o If(r.linger, Line("keep-alive")) \o If(r.body > 0, Line("length")) \o CRLF
BodyOf(r) == [i \in 1 .. r.body |-> "body"]
Bytes(r) == HeaderOf(r) \o BodyOf(r)

VARIABLES
  pc,                 \* "idle", "wait" for EPOLLIN, "parse", "answer", "closed"
  request,            \* the last one the client has sent
  stream,             \* what of it the network has not delivered
  count,              \* number of requests sent
  m_read_buf,         \* up to m_read_idx
  m_checked_idx, m_start_line,
  m_check_state,
  line_status,        \* of process_read
  cgi, m_linger, m_content_length,
  m_string,           \* the body do_request gets
  verdict             \* what process_read returned

bufVars == <<m_read_buf, m_checked_idx, m_start_line>>
fieldVars == <<cgi, m_linger, m_content_length, m_string>>
hvars == <<pc, request, count, stream, bufVars, m_check_state, line_status, fieldVars, verdict>>

m_read_idx == Len(m_read_buf)

Init ==
  /\ pc = "idle"
  /\ request = [method |-> "GET", linger |-> FALSE, torn |-> FALSE, body |-> 0]
  /\ count = 0 /\ stream = <<>>
  /\ m_read_buf = <<>> /\ m_checked_idx = 0 /\ m_start_line = 0
  /\ m_check_state = "REQUESTLINE" /\ line_status = "OK"
  /\ cgi = 0 /\ m_linger = FALSE /\ m_content_length = 0 /\ m_string = <<>>
  /\ verdict = "NO_REQUEST"

\* The client: its first request, or one more on a connection kept alive.
Send(r) ==
  /\ pc = "idle" /\ pc' = "wait"
  /\ count < MaxRequests
  /\ count' = count + 1
  /\ request' = r /\ stream' = Bytes(r)
  /\ UNCHANGED <<bufVars, m_check_state, line_status, fieldVars, verdict>>

-----------------------------------------------------------------------------
\* What recv gets: the next n units.
Delivers(n) ==
  /\ n \in 1 .. Len(stream)
  /\ BodySplit \/ n = Len(stream) \/ Len(stream) - n >= request.body
  /\ stream' = SubSeq(stream, n + 1, Len(stream))

\* read() gets a piece and process_read starts.
Read(n) ==
  /\ pc = "wait" /\ pc' = "parse"
  /\ Delivers(n)
  /\ m_read_idx + n < READ_BUFFER_SIZE
  /\ m_read_buf' = m_read_buf \o SubSeq(stream, 1, n)
  /\ line_status' = "OK"
  /\ UNCHANGED <<request, count, m_checked_idx, m_start_line, m_check_state, fieldVars,
                 verdict>>

\* The piece fills the buffer, so that recv is next asked for 0 bytes and returns
\* 0: read() fails and main() closes the connection.
ReadFull(n) ==
  /\ pc = "wait" /\ pc' = "closed"
  /\ Delivers(n)
  /\ m_read_idx + n >= READ_BUFFER_SIZE
  /\ UNCHANGED <<request, count, bufVars, m_check_state, line_status, fieldVars, verdict>>

\* parse_line(): where it stops, and what it says.
Unit(i) == m_read_buf[i + 1]
Ends == {i \in m_checked_idx .. m_read_idx - 1 : Unit(i) \in {"CR", "LF"}}
FirstEnd == CHOOSE i \in Ends : \A j \in Ends : i <= j

parse_line ==
  LET i == FirstEnd IN
  IF Ends = {} THEN [status |-> "OPEN", idx |-> m_read_idx, end |-> m_read_idx]
  ELSE IF Unit(i) = "LF"
       THEN IF i > 1 /\ Unit(i - 1) = "CR"
            THEN [status |-> "OK", idx |-> i + 1, end |-> i - 1]
            ELSE [status |-> "BAD", idx |-> i, end |-> i]
  ELSE IF i + 1 = m_read_idx THEN [status |-> "OPEN", idx |-> i, end |-> i]
  ELSE IF Unit(i + 1) = "LF" THEN [status |-> "OK", idx |-> i + 2, end |-> i]
  ELSE [status |-> "BAD", idx |-> i, end |-> i]

\* The body of the while loop is for a line; parse_line() comes first.
Scanning == pc = "parse" /\ ~(m_check_state = "CONTENT" /\ line_status = "OK")
Text == SubSeq(m_read_buf, m_start_line + 1, parse_line.end)
HasLine == Scanning /\ parse_line.status = "OK"

NextLine ==
  /\ m_checked_idx' = parse_line.idx
  /\ m_start_line' = parse_line.idx
  /\ line_status' = "OK"
  /\ UNCHANGED m_read_buf

Return(code) == pc' = "answer" /\ verdict' = code
GoOn == UNCHANGED <<pc, verdict>>

\* LINE_OPEN and LINE_BAD: process_read returns NO_REQUEST; modfd( EPOLLIN ).
NoLine ==
  /\ Scanning
  /\ parse_line.status # "OK"
  /\ line_status' = parse_line.status
  /\ m_checked_idx' = parse_line.idx
  /\ pc' = "wait"
  /\ UNCHANGED <<request, count, stream, m_read_buf, m_start_line, m_check_state, fieldVars,
                 verdict>>

\* parse_request_line( text )
parse_request_line ==
  /\ HasLine /\ m_check_state = "REQUESTLINE"
  /\ NextLine
  /\ IF Text \in {<<"GET">>, <<"POST">>}
     THEN /\ cgi' = IF Text = <<"POST">> THEN 1 ELSE cgi
          /\ m_check_state' = "HEADER"
          /\ GoOn
     ELSE Return("BAD_REQUEST") /\ UNCHANGED <<cgi, m_check_state>>
  /\ UNCHANGED <<request, count, stream, m_linger, m_content_length, m_string>>

\* parse_headers( text ); the field Content-Length holds the length of the body.
parse_headers ==
  /\ HasLine /\ m_check_state = "HEADER"
  /\ NextLine
  /\ \/ /\ Text = <<>> /\ m_content_length # 0
        /\ m_check_state' = "CONTENT" /\ GoOn
        /\ UNCHANGED <<m_linger, m_content_length>>
     \/ /\ Text = <<>> /\ m_content_length = 0
        /\ Return("GET_REQUEST")
        /\ UNCHANGED <<m_check_state, m_linger, m_content_length>>
     \/ /\ Text # <<>>
        /\ m_linger' = (m_linger \/ Text = <<"keep-alive">>)
        /\ m_content_length' = IF Text = <<"length">> THEN request.body
                                                      ELSE m_content_length
        /\ GoOn
        /\ UNCHANGED m_check_state
  /\ UNCHANGED <<request, count, stream, cgi, m_string>>

\* Mutant: one more unit is waited for.
BodyComplete_OffByOne == m_read_idx > m_content_length + m_checked_idx

BodyComplete == m_read_idx >= m_content_length + m_checked_idx

\* parse_content( text ), with no parse_line() before it.
parse_content ==
  /\ pc = "parse" /\ m_check_state = "CONTENT" /\ line_status = "OK"
  /\ m_start_line' = m_checked_idx
  /\ IF BodyComplete
     THEN /\ m_string' = SubSeq(m_read_buf, m_start_line + 1,
                                m_start_line + m_content_length)
          /\ Return("GET_REQUEST")
          /\ UNCHANGED line_status
     ELSE /\ line_status' = "OPEN"
          /\ GoOn /\ UNCHANGED m_string
  /\ UNCHANGED <<request, count, stream, m_read_buf, m_checked_idx, m_check_state, cgi,
                 m_linger, m_content_length>>

-----------------------------------------------------------------------------
\* Mutant: a slot remembers that a request was a POST.
init_KeepMethod ==
  /\ m_check_state' = "REQUESTLINE"
  /\ m_linger' = FALSE /\ m_content_length' = 0
  /\ m_read_buf' = <<>> /\ m_checked_idx' = 0 /\ m_start_line' = 0
  /\ UNCHANGED <<cgi, m_string>>

\* Mutant: init() forgets m_start_line.
init_Partly ==
  /\ m_check_state' = "REQUESTLINE"
  /\ m_linger' = FALSE /\ m_content_length' = 0 /\ cgi' = 0
  /\ m_read_buf' = <<>> /\ m_checked_idx' = 0
  /\ UNCHANGED <<m_start_line, m_string>>

\* http_conn::init()
init ==
  /\ m_check_state' = "REQUESTLINE"
  /\ m_linger' = FALSE /\ m_content_length' = 0 /\ cgi' = 0
  /\ m_read_buf' = <<>> /\ m_checked_idx' = 0 /\ m_start_line' = 0
  /\ UNCHANGED m_string

\* The reply is sent: write() keeps the connection, or main() closes it.
Answer ==
  /\ pc = "answer"
  /\ \/ m_linger /\ init /\ pc' = "idle"
     \/ ~m_linger /\ pc' = "closed"
        /\ UNCHANGED <<bufVars, m_check_state, fieldVars>>
  /\ verdict' = "NO_REQUEST"
  /\ UNCHANGED <<request, count, stream, line_status>>

process_read == NoLine \/ parse_request_line \/ parse_headers \/ parse_content
read == \E n \in 1 .. Len(stream) : Read(n) \/ ReadFull(n)

Next == (\E r \in Requests : Send(r)) \/ read \/ process_read \/ Answer

Spec == Init /\ [][Next]_hvars

\* The network delivers what the client has sent, and a worker parses it.
FairSpec == Spec /\ WF_hvars(read) /\ WF_hvars(process_read)

-----------------------------------------------------------------------------
\* Every variable keeps its type.
TypeOK ==
  /\ pc \in {"idle", "wait", "parse", "answer", "closed"}
  /\ request \in Requests /\ count \in 0 .. MaxRequests
  /\ Len(stream) <= Len(Bytes(request))
  /\ m_read_idx < READ_BUFFER_SIZE
  /\ m_checked_idx \in 0 .. m_read_idx /\ m_start_line \in 0 .. m_checked_idx
  /\ m_check_state \in {"REQUESTLINE", "HEADER", "CONTENT"}
  /\ line_status \in {"OK", "OPEN", "BAD"}
  /\ cgi \in {0, 1} /\ m_linger \in BOOLEAN
  /\ m_content_length \in 0 .. MaxBody
  /\ verdict \in {"NO_REQUEST", "GET_REQUEST", "BAD_REQUEST"}

WellFormed(r) == r.method # "other" /\ ~r.torn
Fits(r) == Len(Bytes(r)) < READ_BUFFER_SIZE

\* What process_read makes of a request does not depend on how TCP cut it up,
\* nor on the requests before it (http_conn.cpp:129-180, 207-358): a verdict is
\* that of the whole request, and do_request gets the client's fields and body.
Understood ==
  pc = "answer" =>
    IF verdict = "BAD_REQUEST" THEN request.method = "other"
    ELSE /\ WellFormed(request)
         /\ m_linger = request.linger
         /\ (cgi = 1) <=> (request.method = "POST")
         /\ m_content_length = request.body
         /\ request.body > 0 => m_string = BodyOf(request)

\* A well-formed request that fits the buffer is answered once it has arrived
\* (http_conn.cpp:262-263: m_content_length bytes of the body are read), and is not
\* turned away for what the requests before it left there (142-149, 183-199).
GetsVerdict ==
  pc = "wait" /\ WellFormed(request) /\ Fits(request) ~> pc = "answer"
=============================================================================
