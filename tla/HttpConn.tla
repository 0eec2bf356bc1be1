------------------------------ MODULE HttpConn ------------------------------
(***************************************************************************)
(* One Http_Conn object (practice/http/httpConnection.cpp) and the clients *)
(* that get it one after the other: the parser that resumes when more      *)
(* bytes come, the file mapped for a response, and the iovecs of write().  *)
(* Who may touch the object when is the subject of WebServer; here its     *)
(* handlers run one at a time.                                             *)
(*                                                                         *)
(* The code has two variables actor_mode.  That of WebServer is always 1,  *)
(* so the event loop reads and writes itself and hands the object to the   *)
(* pool without a task_state.  That of Http_Conn is the one modelled here; *)
(* WebServer::init sets it to 1 (the proactor, what main.cpp asks for) or  *)
(* to 0, and process() then reads once more what the event loop has read.  *)
(* task_state is never set: the objects lie in fresh memory and it is 0.   *)
(*                                                                         *)
(* A definition Mutant_D_... is the definition D that follows it with one  *)
(* fault put in; it is not part of the model.                              *)
(*                                                                         *)
(* A byte of a request is a token: a whole word (a request line or header  *)
(* without its end), "CR", "LF", or a member of a body.  The buffer and    *)
(* its indices count tokens; parse_line writes NULs over the line ends it  *)
(* has passed, which nothing reads again, so the buffer is a part of what  *)
(* the client sends.  A byte of a response is <<"h", i>>, the i-th of the  *)
(* write buffer, or <<"f", i>>, at place i from the start of the mapping.  *)
(***************************************************************************)
EXTENDS Integers, Sequences, FiniteSets, SequencesExt

CONSTANTS
    Scripts,            \* what a client may ask: sequences of records [line, headers, body]
    Target,             \* Target[w]: what stat() finds for an accepted request line w,
                        \* or "hostonly" when its URL is http:// and a name
    Length,             \* Length[w]: the number in the Content-Length header w
    KeepAlive,          \* the header Connection: keep-alive
    READ_BUFFER_SIZE,
    HeaderLen, FileLen, \* bytes in m_write_buf and in a mapped file
    MaxClients          \* bound: clients served by the object

Requests == UNION {ToSet(s) : s \in Scripts}

(* Requests have lists of headers and bytes of a body; a word ends no line.*)
ASSUME ScriptAssumption ==
    /\ \A s \in Scripts : s \in Seq(Requests)
    /\ \A r \in Requests : r.headers \in Seq(ToSet(r.headers)) /\ r.body \in Seq(ToSet(r.body))
    /\ \A r \in Requests : {"CR", "LF"} \cap ({r.line} \cup ToSet(r.headers)) = {}
(* Clients state the length of the body they send. *)
ASSUME RequestAssumption == \A r \in Requests :
    LET stated == {Length[w] : w \in ToSet(r.headers) \cap DOMAIN Length}
    IN stated = (IF r.body = <<>> THEN {} ELSE {Len(r.body)})
ASSUME TargetAssumption ==
    \A w \in DOMAIN Target :
        Target[w] \in {"missing", "private", "directory", "empty", "regular", "hostonly"}
ASSUME SizeAssumption ==
    {READ_BUFFER_SIZE, HeaderLen, FileLen, MaxClients} \subseteq Nat \ {0}

VARIABLES
    \* The client and the socket.
    asked,      \* the requests of this client, sent one after the other
    sent,       \* tokens that have arrived at the socket
    left,       \* the client has closed its end
    interest,   \* "none" when the socket is closed, "off", "in" or "out"
    \* The object.
    base,       \* where in the client's stream m_read_buf[0] comes from
    m_read_idx, m_checked_idx, m_start_line, m_check_state, m_linger,
    m_content_length, m_url,
    bytes_to_send, m_iv, m_iv_count,
    m_file_address,     \* "null", "file", or "failed" (MAP_FAILED)
    m_file_stat,        \* what the latest stat() described: "mapped", the file at
                        \* m_file_address, or "other"
    \* Running it.
    actor_mode, line_status,
    ret,        \* what process_read returned, "none" once init() has run
    pc,
    \* History, for properties only.
    clients, served, received, mappings,
    abandoned,  \* connections closed in the middle of a file
    body_cut    \* a call of process() saw only a part of a body

socket == <<asked, sent, left, interest>>
parser == <<base, m_read_idx, m_checked_idx, m_start_line, m_check_state, m_linger,
            m_content_length, m_url, line_status>>
output == <<bytes_to_send, m_iv, m_iv_count>>
file == <<m_file_address, m_file_stat, mappings>>
history == <<clients, served, abandoned>>
vars == <<socket, parser, output, file, actor_mode, ret, pc, received,
          history, body_cut>>

Encode(r) == <<r.line, "CR", "LF">>
             \o FlattenSeq([i \in DOMAIN r.headers |-> <<r.headers[i], "CR", "LF">>])
             \o <<"CR", "LF">> \o r.body
Stream == FlattenSeq([i \in DOMAIN asked |-> Encode(asked[i])])
Buf == SubSeq(Stream, base + 1, base + m_read_idx)
Open == interest # "none"

Init ==
    /\ asked = <<>> /\ sent = 0 /\ left = FALSE /\ interest = "none"
    /\ base = 0 /\ m_read_idx = 0 /\ m_checked_idx = 0 /\ m_start_line = 0
    /\ m_check_state = "REQUESTLINE" /\ m_linger = FALSE /\ m_content_length = 0
    /\ m_url = "none" /\ line_status = "OK"
    /\ bytes_to_send = 0 /\ m_iv_count = 0
    /\ m_iv = [i \in 0..1 |-> [base |-> 0, len |-> 0]]
    /\ m_file_address = "null" /\ m_file_stat = "other" /\ mappings = 0
    /\ actor_mode \in {0, 1} /\ ret = "none" /\ pc = "idle"
    /\ clients = 0 /\ served = 0 /\ received = <<>> /\ abandoned = 0 /\ body_cut = FALSE

(* init(): the next token read is the first of the buffer. *)
Reset(start) ==
    /\ base' = start
    /\ m_read_idx' = 0 /\ m_checked_idx' = 0 /\ m_start_line' = 0
    /\ m_check_state' = "REQUESTLINE" /\ m_linger' = FALSE /\ m_content_length' = 0
    /\ m_url' = "none" /\ bytes_to_send' = 0
    /\ ret' = "none" /\ body_cut' = FALSE /\ UNCHANGED line_status

(* The response under way has a file to send. *)
HasFile == ret = "FILE_REQUEST" /\ Target[m_url] = "regular"

CloseConn == /\ interest' = "none"
             /\ abandoned' = abandoned + (IF Open /\ HasFile /\ bytes_to_send > 0 THEN 1 ELSE 0)

(* Clients *)

Connect ==
    /\ pc = "idle" /\ ~Open /\ clients < MaxClients
    /\ asked' \in Scripts
    /\ sent' = 0 /\ left' = FALSE /\ interest' = "in"
    /\ Reset(0)
    /\ clients' = clients + 1 /\ served' = 0 /\ received' = <<>>
    /\ UNCHANGED <<m_iv, m_iv_count, file, actor_mode, pc, abandoned>>

Send == /\ Open /\ ~left
        /\ sent' \in sent + 1..Len(Stream)
        /\ UNCHANGED <<asked, left, interest, parser, output, file, actor_mode,
                       ret, pc, received, history, body_cut>>

Leave == /\ Open /\ ~left /\ left' = TRUE
         /\ UNCHANGED <<asked, sent, interest, parser, output, file, actor_mode,
                        ret, pc, received, history, body_cut>>

(* Events *)

DealClose == /\ pc = "idle" /\ left /\ interest \in {"in", "out"}
             /\ CloseConn
             /\ UNCHANGED <<asked, sent, left, parser, output, file, actor_mode,
                            ret, pc, received, clients, served, body_cut>>

TimerFunc == /\ pc = "idle" /\ Open
             /\ CloseConn
             /\ UNCHANGED <<asked, sent, left, parser, output, file, actor_mode,
                            ret, pc, received, clients, served, body_cut>>

(* read() takes all there is, as far as the buffer goes.  It fails when    *)
(* the client has left, and when the buffer is full: recv() is then asked  *)
(* for 0 bytes and returns 0.  What it has read by then stays in the       *)
(* buffer; a reset may throw away what it has not.                         *)
Mutant_Taken_NoLimit == sent - base
Taken == IF sent - base < READ_BUFFER_SIZE THEN sent - base ELSE READ_BUFFER_SIZE
ReadFails == left \/ sent - base >= READ_BUFFER_SIZE
Read == m_read_idx' \in (IF left THEN m_read_idx..Taken ELSE {Taken})

DealRead ==
    /\ pc = "idle" /\ interest = "in" /\ sent > base + m_read_idx
    /\ Read
    /\ IF ReadFails
       THEN CloseConn /\ UNCHANGED pc
       ELSE interest' = "off" /\ pc' = "process" /\ UNCHANGED abandoned
    /\ UNCHANGED <<asked, sent, left, base, m_checked_idx, m_start_line, m_check_state, m_linger,
                   m_content_length, m_url, line_status, output, file, actor_mode, ret,
                   received, clients, served, body_cut>>

DealWrite ==
    /\ pc = "idle" /\ interest = "out"
    /\ interest' = "off" /\ pc' = "write"
    /\ UNCHANGED <<asked, sent, left, parser, output, file, actor_mode, ret, received,
                   history, body_cut>>

(* Of the first n tokens in the buffer the last is in the middle of a body.*)
Current == asked[served + 1]
EndsInBody(n) == /\ n < Len(Encode(Current))
                 /\ n > Len(Encode(Current)) - Len(Current.body)

(* process(): in mode 0 it reads again, and goes on to the parser even     *)
(* after a failed read() made it close the connection.                     *)
Process ==
    /\ pc = "process"
    /\ pc' = "parse" /\ line_status' = "OK"
    /\ IF actor_mode = 1
       THEN UNCHANGED <<interest, m_read_idx, abandoned>>
       ELSE Read /\ IF ReadFails THEN CloseConn ELSE UNCHANGED <<interest, abandoned>>
    /\ body_cut' = (body_cut \/ EndsInBody(m_read_idx'))
    /\ UNCHANGED <<asked, sent, left, base, m_checked_idx, m_start_line, m_check_state, m_linger,
                   m_content_length, m_url, output, file, actor_mode, ret, received, clients,
                   served>>

(* The parser *)

ParseLine ==
    LET stops == {i \in m_checked_idx + 1..m_read_idx : Buf[i] \in {"CR", "LF"}}
        i == CHOOSE s \in stops : \A t \in stops : s <= t
    IN CASE stops = {} -> [status |-> "OPEN", checked |-> m_read_idx]
         [] stops # {} /\ Buf[i] = "CR" /\ i = m_read_idx -> [status |-> "OPEN", checked |-> i - 1]
         [] stops # {} /\ Buf[i] = "CR" /\ i < m_read_idx /\ Buf[i + 1] = "LF"
            -> [status |-> "OK", checked |-> i + 1]
         [] OTHER -> [status |-> "BAD", checked |-> i - 1]

(* The loop of process_read takes a line, unless it has just come to the   *)
(* body or a call begins in it.                                            *)
InBody == m_check_state = "CONTENT" /\ line_status = "OK"
Line == IF InBody THEN [status |-> "OK", checked |-> m_checked_idx] ELSE ParseLine
Text == SubSeq(Buf, m_start_line + 1, Line.checked - 2)

TakeLine(state) ==
    /\ pc = "parse" /\ m_check_state = state /\ Line.status = "OK"
    /\ m_checked_idx' = Line.checked /\ m_start_line' = Line.checked
    /\ UNCHANGED <<socket, base, m_read_idx, output, actor_mode, received, history,
                   body_cut>>

Returns(code) == ret' = code /\ pc' = "respond"
GoesOn == UNCHANGED <<ret, pc>>

DoRequest ==
    LET kind == Target[m_url]
    IN /\ Returns(CASE kind = "missing" -> "NO_RESOURCE"
                    [] kind = "private" -> "FORBIDDEN_REQUEST"
                    [] kind = "directory" -> "BAD_REQUEST"
                    [] OTHER -> "FILE_REQUEST")
       /\ IF kind = "regular"
          THEN m_file_address' = "file" /\ m_file_stat' = "mapped" /\ mappings' = mappings + 1
          ELSE /\ m_file_address' = IF kind = "empty" THEN "failed" ELSE m_file_address
               /\ m_file_stat' = IF kind = "missing" THEN m_file_stat ELSE "other"
               /\ UNCHANGED mappings

(* Of the URL http://host nothing is left to compare with https://: the    *)
(* program dies of a null pointer, and its sockets are closed.             *)
Hostonly == Text # <<>> /\ Text[1] \in DOMAIN Target /\ Target[Text[1]] = "hostonly"

ParseRequestLine_Crashes ==
    /\ pc = "parse" /\ m_check_state = "REQUESTLINE" /\ Line.status = "OK" /\ Hostonly
    /\ pc' = "crashed" /\ interest' = "none"
    /\ UNCHANGED <<asked, sent, left, parser, output, file, actor_mode, ret, received, history,
                   body_cut>>

ParseRequestLine ==
    /\ TakeLine("REQUESTLINE") /\ ~Hostonly
    /\ line_status' = "OK"
    /\ IF Text # <<>> /\ Text[1] \in DOMAIN Target
       THEN m_url' = Text[1] /\ m_check_state' = "HEADER" /\ GoesOn
       ELSE Returns("BAD_REQUEST") /\ UNCHANGED <<m_url, m_check_state>>
    /\ UNCHANGED <<m_linger, m_content_length, file>>

ParseHeaders ==
    /\ TakeLine("HEADER")
    /\ line_status' = "OK"
    /\ UNCHANGED m_url
    /\ IF Text = <<>>
       THEN /\ UNCHANGED <<m_linger, m_content_length>>
            /\ IF m_content_length # 0
               THEN m_check_state' = "CONTENT" /\ GoesOn /\ UNCHANGED file
               ELSE DoRequest /\ UNCHANGED m_check_state
       ELSE /\ m_linger' = (m_linger \/ Text[1] = KeepAlive)
            /\ m_content_length' = IF Text[1] \in DOMAIN Length THEN Length[Text[1]]
                                   ELSE m_content_length
            /\ GoesOn /\ UNCHANGED <<m_check_state, file>>

Mutant_BodyRead_Strict == m_read_idx > m_content_length + m_checked_idx'
BodyRead == m_read_idx >= m_content_length + m_checked_idx'

ParseContent ==
    /\ TakeLine("CONTENT")
    /\ IF BodyRead
       THEN DoRequest /\ UNCHANGED line_status
       ELSE line_status' = "OPEN" /\ GoesOn /\ UNCHANGED file
    /\ UNCHANGED <<m_check_state, m_url, m_linger, m_content_length>>

(* No further line: process_read returns NO_REQUEST and process() arms the *)
(* socket, a line that is BAD included.                                    *)
ModFd(ev) == interest' = IF Open THEN ev ELSE interest

NoRequest ==
    /\ pc = "parse" /\ Line.status # "OK"
    /\ line_status' = Line.status /\ m_checked_idx' = Line.checked
    /\ ModFd("in") /\ pc' = "idle"
    /\ UNCHANGED <<asked, sent, left, base, m_read_idx, m_start_line, m_check_state, m_linger,
                   m_content_length, m_url, output, file, actor_mode, ret,
                   received, history, body_cut>>

(* The response *)

FileBytes(from, n) == [i \in 1..n |-> <<"f", from + i>>]
HeaderBytes(from, n) == [i \in 1..n |-> <<"h", from + i>>]
Response == HeaderBytes(0, HeaderLen) \o (IF HasFile THEN FileBytes(0, FileLen) ELSE <<>>)

ProcessWrite ==
    /\ pc = "respond" /\ pc' = "idle"
    /\ received' = <<>>
    /\ IF ret = "BAD_REQUEST"
       THEN CloseConn /\ UNCHANGED output
       ELSE /\ m_iv' = [i \in 0..1 |-> IF i = 0 THEN [base |-> 0, len |-> HeaderLen]
                                       ELSE IF HasFile THEN [base |-> 0, len |-> FileLen]
                                       ELSE m_iv[1]]
            /\ m_iv_count' = IF HasFile THEN 2 ELSE 1
            /\ bytes_to_send' = Len(Response)
            /\ ModFd("out") /\ UNCHANGED abandoned
    /\ UNCHANGED <<asked, sent, left, parser, file, actor_mode, ret, clients, served,
                   body_cut>>

(* What the iovecs designate, and whether writev() can take it.  A length  *)
(* below 0 is a huge size_t, and a place before the mapping may be readable*)
(* or not.                                                                 *)
Designated == HeaderBytes(m_iv[0].base, m_iv[0].len)
              \o (IF m_iv_count = 2 THEN FileBytes(m_iv[1].base, m_iv[1].len) ELSE <<>>)
BadLength == m_iv[0].len < 0
Outside == m_iv_count = 2 /\ m_iv[1].base < 0

(* unmap() takes the size from the latest stat().  The mapping that a      *)
(* closed connection left behind may go with the size of another file: a   *)
(* part of it stays, or others of the process go with it.                  *)
Mutant_Unmap_OnlyClears == m_file_address' = "null" /\ UNCHANGED <<m_file_stat, mappings>>
Unmap == /\ m_file_address' = "null" /\ UNCHANGED m_file_stat
         /\ mappings' \in (IF m_file_address # "file" THEN {mappings}
                            ELSE IF m_file_stat = "mapped" THEN {mappings - 1}
                            ELSE 0..mappings)

Mutant_Write_Blocks_Unmaps ==
    /\ pc = "write" /\ ~BadLength
    /\ ModFd("out") /\ pc' = "idle" /\ Unmap
    /\ UNCHANGED <<asked, sent, left, parser, output, actor_mode, ret,
                   received, history, body_cut>>
Write_Blocks ==
    /\ pc = "write" /\ ~BadLength
    /\ ModFd("out") /\ pc' = "idle"
    /\ UNCHANGED <<asked, sent, left, parser, output, file, actor_mode, ret,
                   received, history, body_cut>>

Write_Fails ==
    /\ pc = "write" /\ (left \/ BadLength \/ Outside)
    /\ Unmap /\ interest' = "none" /\ pc' = "idle"
    /\ UNCHANGED <<asked, sent, left, parser, output, actor_mode, ret, received,
                   history, body_cut>>

AdvanceIovecs(rest) ==
    LET iv1 == m_iv[1]
        dif == IF rest >= iv1.len THEN iv1.len - rest ELSE m_iv[0].len + iv1.len - rest
    IN IF rest >= iv1.len
       THEN m_iv' = [i \in 0..1 |-> IF i = 0 THEN [m_iv[0] EXCEPT !.len = 0]
                                    ELSE [base |-> iv1.base + dif, len |-> iv1.len - dif]]
       ELSE m_iv' = [m_iv EXCEPT ![0] = [base |-> @.base + dif, len |-> @.len - dif]]

Transfer(n) ==
    /\ received' = received \o SubSeq(Designated, 1, n)
    /\ AdvanceIovecs(bytes_to_send - n)
    /\ UNCHANGED <<asked, sent, left, m_iv_count, actor_mode, clients>>

(* A part goes out, or nothing when nothing is designated: the loop of     *)
(* write() then runs without end.                                          *)
Write_Part ==
    /\ pc = "write" /\ ~BadLength
    /\ \E n \in 0..Len(Designated) :
        /\ n = 0 => Designated = <<>>
        /\ n < bytes_to_send
        /\ bytes_to_send' = bytes_to_send - n
        /\ Transfer(n)
    /\ UNCHANGED <<interest, parser, file, ret, pc, served, abandoned, body_cut>>

(* After a response the connection goes on, if it is to be kept and none   *)
(* of the next request was read with this one.                             *)
Mutant_KeepsConnection_Discards == m_linger
Mutant_KeepsConnection_Strict == m_linger /\ m_checked_idx > m_read_idx
KeepsConnection == m_linger /\ m_checked_idx >= m_read_idx

Write_Ends ==
    /\ pc = "write" /\ ~BadLength /\ Len(Designated) >= bytes_to_send
    /\ Transfer(bytes_to_send)
    /\ Unmap /\ pc' = "idle"
    /\ served' = served + 1
    /\ IF KeepsConnection
       THEN ModFd("in") /\ Reset(base + m_read_idx)
       ELSE interest' = "none" /\ bytes_to_send' = 0 /\ UNCHANGED <<parser, ret, body_cut>>
    /\ UNCHANGED abandoned

ClientStep == Connect \/ Send \/ Leave
EventStep == DealClose \/ TimerFunc \/ DealRead \/ DealWrite
ParseStep == ParseRequestLine_Crashes \/ ParseRequestLine \/ ParseHeaders \/ ParseContent
             \/ NoRequest
WriteStep == Write_Blocks \/ Write_Fails \/ Write_Part \/ Write_Ends
Next == ClientStep \/ EventStep \/ Process \/ ParseStep \/ ProcessWrite \/ WriteStep
Spec == Init /\ [][Next]_vars

(* Properties *)

TypeOK ==
    /\ asked \in Seq(Requests) /\ sent \in 0..Len(Stream) /\ left \in BOOLEAN
    /\ interest \in {"none", "off", "in", "out"}
    /\ base \in Nat /\ m_read_idx \in 0..READ_BUFFER_SIZE
    /\ m_checked_idx \in 0..m_read_idx /\ m_start_line \in 0..m_checked_idx
    /\ m_check_state \in {"REQUESTLINE", "HEADER", "CONTENT"} /\ m_linger \in BOOLEAN
    /\ m_content_length \in Nat /\ m_url \in DOMAIN Target \cup {"none"}
    /\ bytes_to_send \in 0..HeaderLen + FileLen /\ m_iv_count \in 0..2
    /\ m_iv \in [0..1 -> [base : Int, len : Int]]
    /\ m_file_address \in {"null", "file", "failed"} /\ m_file_stat \in {"mapped", "other"}
    /\ actor_mode \in {0, 1} /\ line_status \in {"OK", "BAD", "OPEN"}
    /\ ret \in {"none", "NO_RESOURCE", "FORBIDDEN_REQUEST", "BAD_REQUEST", "FILE_REQUEST"}
    /\ pc \in {"idle", "process", "parse", "respond", "write", "crashed"}
    /\ {clients, served, mappings, abandoned} \subseteq Nat /\ body_cut \in BOOLEAN

(* The answer a request deserves, by its line alone. *)
Deserved(r) ==
    IF r.line \notin DOMAIN Target THEN "BAD_REQUEST"
    ELSE CASE Target[r.line] = "missing" -> "NO_RESOURCE"
           [] Target[r.line] = "private" -> "FORBIDDEN_REQUEST"
           [] Target[r.line] = "directory" -> "BAD_REQUEST"
           [] OTHER -> "FILE_REQUEST"

Complete == m_read_idx >= Len(Encode(Current))

(* However the network cuts the requests into pieces, and whatever follows *)
(* in the buffer, the parser answers each request in turn with the answer  *)
(* that it deserves, and not before it has all of it, unless it refuses it.*)
AnswersInTurn ==
    ret # "none" /\ pc \in {"respond", "write"} =>
        ret = Deserved(Current) /\ (Complete \/ ret = "BAD_REQUEST")

(* A complete request is left waiting only if a piece ended in the middle  *)
(* of its body: parse_line then moves m_checked_idx into the body, and     *)
(* parse_content counts the body from there.                               *)
WaitsOnlyForBytes ==
    Open /\ pc = "idle" /\ ret = "none" /\ m_read_idx > 0 /\ Complete => body_cut

(* The file stays mapped until the last byte is sent, over every wait for  *)
(* a slow client.                                                          *)
MappedWhileSending ==
    Open /\ HasFile /\ pc # "parse" => m_file_address = "file"

(* Each mapping belongs to the response under way: only a connection that  *)
(* is closed in the middle of a response leaves one behind.  The proactor  *)
(* only: in mode 0 process() parses on after it closed the connection, and *)
(* may map a file that nobody is sent.                                     *)
NoMappingLost ==
    actor_mode = 1 => mappings <= abandoned + (IF Open /\ HasFile THEN 1 ELSE 0)

(* write() ends a connection that is to be kept after the response only if *)
(* bytes of the next request were read with it, or the request had a body, *)
(* which m_checked_idx never passes; and before the end of the response    *)
(* only if the client has left, or a part of the response had gone out and *)
(* the iovecs are set wrong for the rest.                                  *)
KeepAliveKept ==
    [][m_linger /\ WriteStep /\ interest' = "none" =>
        \/ served' # served /\ (m_read_idx > Len(Encode(Current)) \/ Current.body # <<>>)
        \/ served' = served /\ (left \/ bytes_to_send < Len(Response))]_vars

(* The client receives the response from its start and in order, also when *)
(* writev takes only a part of it: that is what the two branches after a   *)
(* partial write are for (httpConnection.cpp:318-328, commented out).      *)
ReceivesInOrder == ret # "none" => IsPrefix(received, Response)
=============================================================================
