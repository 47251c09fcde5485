---------------------------- MODULE HttpSession ----------------------------
(***************************************************************************)
(* The incremental HTTP/1.1 request parser of 10_HTTP/HttpSession.cpp and  *)
(* the read callback of 10_HTTP/server.cpp that drives it: one appendData  *)
(* per chunk that recv returned, then parse until it returns false.        *)
(*                                                                         *)
(* The byte stream is a sequence of units.  CR and LF are units of their   *)
(* own, so a chunk boundary may fall between them; every other unit is a   *)
(* run of bytes without CR or LF.  A unit takes one cell of the buffer.    *)
(***************************************************************************)
EXTENDS Integers, Sequences

CONSTANTS
  CR, LF, NUL,   \* '\r', '\n' and the zero a fresh vector cell holds
  Text,          \* the other units
  HeaderText,    \* the units that contain a ':', "name: value"
  FieldName,     \* the names that stand left of a ':', no line breaks either
  Name,          \* the name of a HeaderText unit
  Number,        \* what std::stoul reads in its value, -1 where it throws
  BufInit,       \* cells of a new session's buffer (8192 in the code)
  ChunkMax,      \* most units one recv returns (1023 in the code)
  Streams        \* what a client may send

Unit == Text \cup {CR, LF, NUL}

ASSUME SessionAssumption ==
  /\ CR # LF
  /\ {CR, LF, NUL} \cap Text = {}
  /\ ":" \notin Unit      \* a token of stored keys only
  /\ HeaderText \subseteq Text
  /\ {CR, LF} \cap FieldName = {}
  /\ Name \in [HeaderText -> FieldName]
  /\ Number \in [HeaderText -> Nat \cup {-1}]
  /\ BufInit \in Nat
  /\ ChunkMax \in Nat \ {0}
  /\ ChunkMax <= BufInit
  /\ \A s \in Streams : s \in Seq(Unit)

VARIABLES
  buffer,          \* the cells of HttpSession::buffer, from 0
  capacity,        \* buffer.size()
  read_idx,        \* first cell not yet parsed
  write_idx,       \* first cell not yet written
  state,           \* ParseState
  request,         \* the request under construction
  content_length,
  pc,              \* what the read callback does next
  input,           \* sent by the client, not yet read by recv
  received,        \* history: everything given to appendData
  requests         \* history: every out_req returned by parse

store  == <<buffer, capacity, read_idx, write_idx>>
parser == <<state, request, content_length, requests>>
vars   == <<store, parser, pc, input, received>>

\* COMPLETE is entered and left within one iteration of parse.
ParseState == {"REQUEST_LINE", "HEADERS", "BODY"}
Token      == Unit \cup FieldName \cup {":"}
Header     == [key : Seq(Token), val : Seq(Unit)]
Request    == [line : Seq(Unit), headers : SUBSET Header, body : Seq(Unit)]

EmptyRequest == [line |-> <<>>, headers |-> {}, body |-> <<>>]

TypeOK ==
  /\ capacity \in Nat
  /\ buffer \in [0 .. capacity - 1 -> Unit]
  /\ read_idx \in Nat
  /\ write_idx \in Nat
  /\ state \in ParseState
  /\ request \in Request
  /\ content_length \in Nat
  /\ pc \in {"recv", "parse", "aborted"}
  /\ input \in Seq(Unit)
  /\ received \in Seq(Unit)
  /\ requests \in Seq(Request)

-----------------------------------------------------------------------------
(* The receive buffer. *)

\* Mutation: compact resets the indices and forgets the memmove.
CompactIndicesOnly(buf, r, w) == buf

\* memmove of the window [r, w) to the front; the cells behind it keep
\* their old contents.
Compact(buf, r, w) ==
  [i \in DOMAIN buf |-> IF i < w - r THEN buf[i + r] ELSE buf[i]]

\* Mutation: the new size is noted but the vector is not resized.
ResizeForgotten(buf, old, new) == buf

\* vector::resize keeps the old cells and zeroes the new ones.
Resize(buf, old, new) ==
  [i \in 0 .. new - 1 |-> IF i < old THEN buf[i] ELSE NUL]

\* std::copy of chunk to the cells from w on.
CopyIn(buf, chunk, w) ==
  [i \in DOMAIN buf |->
     IF i \in w .. w + Len(chunk) - 1 THEN chunk[i - w + 1] ELSE buf[i]]

\* Mutation: off by one in the test for room.
OverflowsLate(w, n) == w + n > capacity + 1

\* n more cells from w on do not fit.
Overflows(w, n) == w + n > capacity

\* appendData: compact when the chunk does not fit, and double the buffer,
\* once, when it still does not fit.
AppendData(chunk) ==
  LET full == Overflows(write_idx, Len(chunk))
      r    == IF full THEN read_idx ELSE 0
      w    == write_idx - r
      size == IF full /\ Overflows(w, Len(chunk)) THEN capacity * 2 ELSE capacity
  IN  /\ buffer' = CopyIn(Resize(Compact(buffer, r, write_idx), capacity, size),
                          chunk, w)
      /\ capacity' = size
      /\ read_idx' = IF full THEN 0 ELSE read_idx
      /\ write_idx' = w + Len(chunk)

\* One turn of recv and the read callback's append.
Recv ==
  /\ pc = "recv"
  /\ \E n \in 1 .. ChunkMax :
       /\ n <= Len(input)
       /\ AppendData(SubSeq(input, 1, n))
       /\ received' = received \o SubSeq(input, 1, n)
       /\ input' = SubSeq(input, n + 1, Len(input))
  /\ pc' = "parse"
  /\ UNCHANGED parser

-----------------------------------------------------------------------------
(* One iteration of the loop in parse. *)

\* The cells of the window at which "\r\n" starts, and the first of them.
Crlfs == {p \in read_idx .. write_idx - 2 : buffer[p] = CR /\ buffer[p + 1] = LF}

FirstCrlf(p) == p \in Crlfs /\ \A q \in Crlfs : p <= q

\* n units of the window.
View(n) == [i \in 1 .. n |-> buffer[read_idx + i - 1]]

\* parse breaks out of its loop and returns false.
NeedMore ==
  /\ pc' = "recv"
  /\ UNCHANGED <<store, parser>>

\* Mutation: request.clear() is forgotten.
CompleteUncleared(req, r) ==
  /\ requests' = Append(requests, req)
  /\ content_length' = 0
  /\ state' = "REQUEST_LINE"
  /\ buffer' = Compact(buffer, r, write_idx)
  /\ read_idx' = 0
  /\ write_idx' = write_idx - r
  /\ UNCHANGED <<request, capacity, pc>>

\* COMPLETE: hand the request out, reset, compact and return true.  The
\* caller's loop calls parse again.
Complete(req, r) ==
  /\ requests' = Append(requests, req)
  /\ request' = EmptyRequest
  /\ content_length' = 0
  /\ state' = "REQUEST_LINE"
  /\ buffer' = Compact(buffer, r, write_idx)
  /\ read_idx' = 0
  /\ write_idx' = write_idx - r
  /\ UNCHANGED <<capacity, pc>>

ParseRequestLine ==
  \/ /\ Crlfs = {}
     /\ NeedMore
  \/ \E p \in Crlfs :
       /\ FirstCrlf(p)
       /\ request' = [request EXCEPT !.line = View(p - read_idx)]
       /\ read_idx' = p + 2
       /\ state' = "HEADERS"
       /\ UNCHANGED <<buffer, capacity, write_idx, content_length, requests, pc>>

\* Lone CR and LF units are white space at either end of a part of a line.
Trim(s) ==
  LET kept == {k \in DOMAIN s : s[k] \notin {CR, LF}}
  IN  IF kept = {} THEN <<>>
      ELSE SubSeq(s, CHOOSE k \in kept : \A j \in kept : k <= j,
                     CHOOSE k \in kept : \A j \in kept : k >= j)

\* request.headers[key] = val for a line with a ':'.  The key is cut with
\* substr(0, colon_pos+1) and therefore ends in the ':'.
StoreHeader(headers, line) ==
  LET colons == {k \in 1 .. Len(line) : line[k] \in HeaderText}
  IN  IF colons = {} THEN headers
      ELSE LET k   == CHOOSE k \in colons : \A j \in colons : k <= j
               key == Trim(SubSeq(line, 1, k - 1) \o <<Name[line[k]], ":">>)
               val == Trim(SubSeq(line, k, Len(line)))
           IN  {h \in headers : h.key # key} \cup {[key |-> key, val |-> val]}

\* The entry found under "Content-Length", else under "content-length".
LengthField(headers) ==
  LET exact == {h \in headers : h.key = <<"Content-Length">>}
  IN  IF exact # {} THEN exact
      ELSE {h \in headers : h.key = <<"content-length">>}

\* The empty line.  A length std::stoul rejects throws out of the callback.
EndOfHeaders ==
  IF LengthField(request.headers) = {}
  THEN Complete(request, read_idx + 2)
  ELSE \E h \in LengthField(request.headers) :
         LET n == Number[h.val[1]]
         IN  CASE n = -1 -> pc' = "aborted" /\ UNCHANGED <<store, parser>>
               [] n = 0  -> Complete(request, read_idx + 2)
               [] n > 0  -> /\ content_length' = n
                            /\ state' = "BODY"
                            /\ read_idx' = read_idx + 2
                            /\ UNCHANGED <<buffer, capacity, write_idx,
                                           request, requests, pc>>

\* Mutation: read_idx moves on past lines that have a ':' only.
ParseHeadersStuck ==
  \/ /\ Crlfs = {}
     /\ NeedMore
  \/ \E p \in Crlfs :
       /\ FirstCrlf(p)
       /\ IF p = read_idx
          THEN EndOfHeaders
          ELSE LET headers == StoreHeader(request.headers, View(p - read_idx))
               IN  /\ request' = [request EXCEPT !.headers = headers]
                   /\ read_idx' = IF headers = request.headers THEN read_idx ELSE p + 2
                   /\ UNCHANGED <<buffer, capacity, write_idx, state,
                                  content_length, requests, pc>>

ParseHeaders ==
  \/ /\ Crlfs = {}
     /\ NeedMore
  \/ \E p \in Crlfs :
       /\ FirstCrlf(p)
       /\ IF p = read_idx
          THEN EndOfHeaders
          ELSE /\ request' = [request EXCEPT
                                !.headers = StoreHeader(@, View(p - read_idx))]
               /\ read_idx' = p + 2
               /\ UNCHANGED <<buffer, capacity, write_idx, state,
                              content_length, requests, pc>>

ParseBody ==
  IF write_idx - read_idx < content_length
  THEN NeedMore
  ELSE Complete([request EXCEPT !.body = View(content_length)],
                read_idx + content_length)

Parse ==
  /\ pc = "parse"
  /\ CASE state = "REQUEST_LINE" -> ParseRequestLine
       [] state = "HEADERS"      -> ParseHeaders
       [] state = "BODY"         -> ParseBody
  /\ UNCHANGED <<input, received>>

-----------------------------------------------------------------------------

\* A session as the connect callback emplaces it, for each stream a client
\* may send.
Init ==
  /\ buffer = [i \in 0 .. BufInit - 1 |-> NUL]
  /\ capacity = BufInit
  /\ read_idx = 0
  /\ write_idx = 0
  /\ state = "REQUEST_LINE"
  /\ request = EmptyRequest
  /\ content_length = 0
  /\ pc = "recv"
  /\ input \in Streams
  /\ received = <<>>
  /\ requests = <<>>

Next == Recv \/ Parse

Spec == Init /\ [][Next]_vars

\* parse runs to its return: nothing else runs on the worker meanwhile.
FairSpec == Spec /\ WF_vars(Parse)

-----------------------------------------------------------------------------
(* Properties of the buffer and of the parser. *)

\* No index leaves the buffer: appendData (HttpSession.cpp:33-42) doubles at
\* most once per chunk and std::copy does not check, so this is what keeps
\* its writes, and every string_view parse takes, inside the vector.
IndicesInBuffer ==
  /\ read_idx <= write_idx
  /\ write_idx <= capacity

\* No byte is lost, duplicated or moved: through appends, compactions
\* (HttpSession.cpp:23-31) and reallocations, the window [read_idx,
\* write_idx) is the end of the stream received so far.
WindowIsStreamTail ==
  /\ write_idx - read_idx <= Len(received)
  /\ \A i \in read_idx .. write_idx - 1 :
       buffer[i] = received[Len(received) - write_idx + i + 1]

\* parse always returns (HttpSession.cpp:44-106 loops on while(true)): every
\* chunk is followed by a return to the event loop.
ParseReturns == pc = "parse" ~> pc # "parse"
=============================================================================
