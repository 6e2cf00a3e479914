-------------------------------- MODULE Http --------------------------------
(***************************************************************************)
(* muduo::net::HttpServer on one connection: the input buffer, the         *)
(* HttpContext and what is sent.  The client's bytes arrive cut anywhere.  *)
(* A byte of the model is CR, LF or a word; there is a space between two   *)
(* words.  A step is one read or one round of the loop of parseRequest;    *)
(* nothing else runs on the connection meanwhile.                          *)
(***************************************************************************)
EXTENDS Buffer, FiniteSets, FiniteSetsExt

CONSTANT Streams     \* what a client may send in all

ASSUME StreamsAssumption == \A s \in Streams : s \in Seq(STRING)

VARIABLES stream,    \* what this client sends
          received,  \* how many of its bytes were read
          buf,       \* TcpConnection::inputBuffer_
          context,   \* HttpContext: state_, method_, version_ and the Connection header
          pc,        \* "read", "parse" or "request"
          state_,    \* TcpConnection::state_
          sent,      \* what was given to the connection to be sent
          consumed,  \* history: bytes taken from the buffer
          failed     \* the assertion of setMethod failed

vars == <<stream, received, buf, context, pc, state_, sent, consumed, failed>>

Methods == {"GET", "POST", "HEAD", "PUT", "DELETE"}
Versions == {"HTTP/1.0", "HTTP/1.1"}

newContext == [state_ |-> "kExpectRequestLine", method_ |-> "kInvalid",
               version_ |-> "kUnknown", connection |-> <<>>]

Init == /\ stream \in Streams
        /\ received = 0 /\ buf = newBuffer /\ context = newContext
        /\ pc = "read" /\ state_ = "kConnected" /\ sent = <<>>
        /\ consumed = 0 /\ failed = FALSE

\* handleRead: a read gets what has arrived, up to the space readv is given.
handleRead(n) ==
  /\ pc = "read"
  /\ n <= writableBytes(buf) + ExtraSize
  /\ buf' = readFd(buf, SubSeq(stream, received + 1, received + n))
  /\ received' = received + n
  /\ pc' = "parse"
  /\ UNCHANGED <<context, state_, sent, consumed, failed>>

\* parseRequest leaves its loop for want of a complete line.
needMore == /\ pc = "parse" /\ ~hasCRLF(buf)
            /\ pc' = "read"
            /\ UNCHANGED <<received, buf, context, state_, sent, consumed, failed>>

AtLine(state) == pc = "parse" /\ hasCRLF(buf) /\ context.state_ = state

takeLine == /\ buf' = retrieveLine(buf)
            /\ consumed' = consumed + Len(line(buf)) + 2

(***************************************************************************)
(* processRequestLine: method, path and version, and a method that is      *)
(* stored before the rest of the line is looked at.  setMethod asserts     *)
(* that none was stored before.                                            *)
(***************************************************************************)
Spaces(l) == {i \in 1..(Len(l) - 1) : {l[i], l[i + 1]} \cap {"CR", "LF"} = {}}
HasMethod(l) == 1 \in Spaces(l) /\ l[1] \in Methods
GoodLine(l) == Len(l) = 3 /\ Spaces(l) = {1, 2} /\ HasMethod(l) /\ l[3] \in Versions
MethodSet == Spaces(line(buf)) # {} /\ context.method_ # "kInvalid"

requestLine == /\ AtLine("kExpectRequestLine")
               /\ ~MethodSet /\ GoodLine(line(buf))
               /\ context' = [context EXCEPT !.state_ = "kExpectHeaders",
                                             !.method_ = line(buf)[1],
                                             !.version_ = line(buf)[3]]
               /\ takeLine
               /\ UNCHANGED <<received, pc, state_, sent, failed>>

\* send() and shutdown() do nothing once the connection is shut down.
send(answer) == sent' = IF state_ = "kConnected" THEN Append(sent, answer) ELSE sent

Refusal == [kind |-> "400", method_ |-> "", version_ |-> "", close |-> TRUE]

\* onMessage refuses; the line stays in the buffer.
badRequestLine ==
  LET l == line(buf)
  IN  /\ AtLine("kExpectRequestLine")
      /\ ~MethodSet /\ ~GoodLine(l)
      /\ context' = IF HasMethod(l)
                    THEN [context EXCEPT !.method_ = l[1]] ELSE context
      /\ send(Refusal)
      /\ state_' = "kDisconnecting"
      /\ pc' = "read"
      /\ UNCHANGED <<received, buf, consumed, failed>>

setMethodFails == /\ AtLine("kExpectRequestLine") /\ MethodSet
                  /\ failed' = TRUE
                  /\ UNCHANGED <<received, buf, context, pc, state_, sent, consumed>>

\* A line with a colon is a header, any other one ends the headers.
HasColon(l) == \E i \in 1..Len(l) : l[i] = "Connection:"

\* addHeader takes white space off both ends of the value.
Value(l) == SelectSeq(Tail(l), LAMBDA w : w \notin {"CR", "LF"})

addHeader == /\ AtLine("kExpectHeaders") /\ HasColon(line(buf))
             /\ context' = IF line(buf)[1] = "Connection:"
                           THEN [context EXCEPT !.connection = Value(line(buf))]
                           ELSE context
             /\ takeLine
             /\ UNCHANGED <<received, pc, state_, sent, failed>>

receiveHeaders == /\ AtLine("kExpectHeaders") /\ ~HasColon(line(buf))
                  /\ context' = [context EXCEPT !.state_ = "kGotAll"]
                  /\ takeLine
                  /\ pc' = "request"
                  /\ UNCHANGED <<received, state_, sent, failed>>

\* onRequest's rule for a connection that is not kept.
Closes(version, connection) ==
  connection = <<"close">> \/ (version = "HTTP/1.0" /\ connection # <<"Keep-Alive">>)

\* Mutant: the header survives into the next request.
resetKeepsHeaders(c) == [newContext EXCEPT !.version_ = c.version_, !.connection = c.connection]

\* HttpContext::reset(): swap() of HttpRequest leaves out version_.
reset(c) == [newContext EXCEPT !.version_ = c.version_]

(***************************************************************************)
(* onMessage's end: one request per read is answered, even if more of them *)
(* are in the buffer.  The callback may ask for the connection to be       *)
(* closed, as defaultHttpCallback does.                                    *)
(***************************************************************************)
onRequest == /\ pc = "request"
             /\ \E close \in {Closes(context.version_, context.connection), TRUE} :
                   /\ send([kind |-> "response", method_ |-> context.method_,
                            version_ |-> context.version_, close |-> close])
                   /\ state_' = IF close THEN "kDisconnecting" ELSE state_
             /\ context' = reset(context)
             /\ pc' = "read"
             /\ UNCHANGED <<received, buf, consumed, failed>>

Parse == \/ needMore \/ requestLine \/ badRequestLine \/ setMethodFails
         \/ addHeader \/ receiveHeaders

Next == /\ ~failed
        /\ \/ Parse \/ onRequest
           \/ \E n \in 1..(Len(stream) - received) : handleRead(n)
        /\ UNCHANGED stream

Spec == Init /\ [][Next]_vars
-----------------------------------------------------------------------------
Bytes == STRING \cup {NUL}

Answers == [kind : {"400", "response"}, method_ : Methods \cup {"kInvalid", ""},
            version_ : Versions \cup {"kUnknown", ""}, close : BOOLEAN]

TypeOK == /\ stream \in Streams
          /\ received \in 0..Len(stream) /\ consumed \in 0..received
          /\ buf \in [buffer_ : Seq(Bytes), readerIndex_ : Nat, writerIndex_ : Nat]
          /\ kCheapPrepend <= buf.readerIndex_ /\ buf.readerIndex_ <= buf.writerIndex_
          /\ buf.writerIndex_ <= Len(buf.buffer_)
          /\ DOMAIN context = {"state_", "method_", "version_", "connection"}
          /\ context.state_ \in {"kExpectRequestLine", "kExpectHeaders", "kGotAll"}
          /\ context.method_ \in Methods \cup {"kInvalid"}
          /\ context.version_ \in Versions \cup {"kUnknown"}
          /\ pc \in {"read", "parse", "request"}
          /\ state_ \in {"kConnected", "kDisconnecting"}
          /\ sent \in Seq(Answers)
          /\ failed \in BOOLEAN

(***************************************************************************)
(* BytesKept: the buffer holds exactly the bytes that were read and not    *)
(* yet taken, in order, whatever was moved, appended from extrabuf or      *)
(* enlarged on the way.                                                    *)
(***************************************************************************)
BytesKept == readable(buf) = SubSeq(stream, consumed + 1, received)

(***************************************************************************)
(* What the whole stream asks for, from its lines and not from how they    *)
(* arrive.  A line is named by the number of bytes up to its end, CRLF     *)
(* included.                                                               *)
(***************************************************************************)
LineEnds(s) == {p \in 2..Len(s) : s[p - 1] = "CR" /\ s[p] = "LF"}

Line(s, p) == SubSeq(s, Max({0} \cup {q \in LineEnds(s) : q < p}) + 1, p - 2)

(***************************************************************************)
(* What the last line in the first p bytes is: a request line, a header or *)
(* the end of the headers, after which the next request begins.            *)
(***************************************************************************)
Kinds(s) == LET kind[p \in 0..Len(s)] ==
                  IF p = 0 THEN "end"
                  ELSE IF p \notin LineEnds(s) THEN kind[p - 1]
                  ELSE IF kind[p - 1] = "end" THEN "request"
                  ELSE IF HasColon(Line(s, p)) THEN "header" ELSE "end"
            IN  kind

\* The lines of one kind, up to p.
OfKind(s, kind, p) == LET kinds == Kinds(s)
                      IN  {q \in LineEnds(s) : q <= p /\ kinds[q] = kind}

Requests(s, p) == OfKind(s, "request", p)
Ends(s, p) == OfKind(s, "end", p)
Bad(s) == {p \in Requests(s, Len(s)) : ~GoodLine(Line(s, p))}

\* The Connection headers between the request line f and p, the last of which counts.
Fields(s, f, p) == {q \in OfKind(s, "header", p) : f < q /\ Line(s, q)[1] = "Connection:"}

\* The request that the line p belongs to, as far as it goes.
Asked(s, p) ==
  LET first == Max(Requests(s, p))
      fields == Fields(s, first, p)
  IN  [method_ |-> Line(s, first)[1], version_ |-> Line(s, first)[3],
       connection |-> IF fields = {} THEN <<>> ELSE Value(Line(s, Max(fields)))]

\* Nothing follows an answer that closes the connection.
ClosingIsLast == \A i \in 1..Len(sent) : sent[i].close => i = Len(sent)

\* setMethod's assertion can fail only after a refusal.
FailsAfterRefusal == failed => state_ = "kDisconnecting"

\* The i-th answer is to the i-th request, or to the bad line that comes in its place.
Asks(answer, i) ==
  /\ answer.kind = "400" => \E b \in Bad(stream) : /\ \A c \in Bad(stream) : b <= c
                                                   /\ Cardinality(Ends(stream, b)) = i - 1
  /\ answer.kind = "response" =>
        \E e \in Ends(stream, Len(stream)) :
           LET asked == Asked(stream, e)
           IN  /\ Cardinality(Ends(stream, e)) = i
               /\ \A b \in Bad(stream) : e < b
               /\ answer.method_ = asked.method_ /\ answer.version_ = asked.version_
               /\ Closes(asked.version_, asked.connection) => answer.close

(***************************************************************************)
(* AnswersAsAsked: answer i is the one request i of the stream asks for,   *)
(* however the bytes were cut; headers do not reach the next request, a    *)
(* refusal comes at the first bad request line and only there, nothing     *)
(* follows an answer that closes the connection, and setMethod's assertion *)
(* can fail only after a refusal.                                          *)
(***************************************************************************)
AnswersAsAsked ==
  /\ ClosingIsLast /\ FailsAfterRefusal /\ (failed => Bad(stream) # {})
  /\ \A i \in 1..Len(sent) : Asks(sent[i], i)
-----------------------------------------------------------------------------
(***************************************************************************)
(* The inductive invariant behind the properties above.                    *)
(***************************************************************************)
\* A method is stored before a request line only if the line was refused.
RefusedInv == context.state_ = "kExpectRequestLine" /\ context.method_ # "kInvalid"
                 => state_ = "kDisconnecting" /\ Bad(stream) # {}

OpenInv == state_ = "kConnected" => \A i \in 1..Len(sent) : ~sent[i].close

\* Whole lines are taken from the stream, and no bad one.
TakenInv == /\ consumed \in {0} \cup LineEnds(stream)
            /\ \A b \in Bad(stream) : consumed < b

\* The parser's state is that of the lines taken, and it has of them what they ask for.
ParsedInv ==
  /\ context.state_ = "kGotAll" <=> pc = "request"
  /\ Kinds(stream)[consumed] = "end" <=> context.state_ # "kExpectHeaders"
  /\ IF context.state_ = "kExpectRequestLine"
     THEN context.connection = <<>>
     ELSE /\ Requests(stream, consumed) # {}
          /\ LET asked == Asked(stream, consumed)
             IN  /\ context.method_ = asked.method_ /\ context.version_ = asked.version_
                 /\ context.connection = asked.connection

\* As many answers as requests, while the connection is up.
CountInv == state_ = "kConnected" =>
              Cardinality(Ends(stream, consumed)) = Len(sent) + (IF pc = "request" THEN 1 ELSE 0)

SentInv == \A i \in 1..Len(sent) : Asks(sent[i], i)

IInv == /\ TypeOK /\ BytesKept
        /\ RefusedInv /\ FailsAfterRefusal /\ (failed => Bad(stream) # {})
        /\ OpenInv /\ ClosingIsLast
        /\ TakenInv /\ ParsedInv /\ CountInv /\ SentInv
=============================================================================
