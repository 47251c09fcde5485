----------------------------- MODULE HttpFraming -----------------------------
(***************************************************************************)
(* What a whole stream of HTTP requests means, defined without buffer,     *)
(* indices, parser state or chunks, and the properties that compare the    *)
(* incremental parser of HttpSession with it.  Two readings differ in the  *)
(* length of the body only: BodyIgnored is what the parser does, because   *)
(* no stored key equals "Content-Length"; BodyByContentLength is what      *)
(* 10_HTTP/10.md describes.                                                *)
(***************************************************************************)
EXTENDS HttpSession, FiniteSetsExt

\* Where "\r\n" starts in s at i or later.
BreaksFrom(s, i) == {j \in i .. Len(s) - 1 : s[j] = CR /\ s[j + 1] = LF}

\* Where the empty line starts that ends the header block of the message
\* whose request line ends at e: "\r\n\r\n" (10_HTTP/10.md:34).
BlanksFrom(s, e) == {j \in BreaksFrom(s, e + 2) : j - 2 \in BreaksFrom(s, e)}

\* The fields between the end e of the request line and the empty line at b;
\* of two fields with one key the later one counts.
Fields(s, e, b) ==
  LET starts  == {j + 2 : j \in {k \in BreaksFrom(s, e) : k < b - 2}}
      line(a) == SubSeq(s, a, Min(BreaksFrom(s, a)) - 1)
      colon(a) == {k \in DOMAIN line(a) : line(a)[k] \in HeaderText}
      key(a)  == Trim(SubSeq(line(a), 1, Min(colon(a)) - 1)
                        \o <<Name[line(a)[Min(colon(a))]]>>)
      val(a)  == Trim(SubSeq(line(a), Min(colon(a)), Len(line(a))))
      named   == {a \in starts : colon(a) # {}}
  IN  {[name |-> key(a), val |-> val(a)] :
         a \in {x \in named : \A y \in named : y > x => key(y) # key(x)}}

BodyIgnored(fields) == 0

\* The number after Content-Length, 0 where there is none.
BodyByContentLength(fields) ==
  LET lengths == {f \in fields : f.name \in {<<"Content-Length">>,
                                             <<"content-length">>}}
  IN  IF lengths = {} THEN 0 ELSE Max({Number[f.val[1]] : f \in lengths})

\* The messages of s from position i on, up to the first incomplete one.
Decode(s, BodyLen(_)) ==
  LET from[i \in 1 .. Len(s) + 1] ==
        LET ends   == BreaksFrom(s, i)
            blanks == BlanksFrom(s, Min(ends))
            fields == Fields(s, Min(ends), Min(blanks))
            start  == Min(blanks) + 2
            stop   == start + BodyLen(fields)
        IN  IF ends = {} \/ blanks = {} \/ stop > Len(s) + 1 THEN <<>>
            ELSE << [line   |-> SubSeq(s, i, Min(ends) - 1),
                     fields |-> fields,
                     body   |-> SubSeq(s, start, stop - 1)] >> \o from[stop]
  IN  from[1]

\* A request as the callback sees it, with the ':' that ends each stored key
\* taken off.
Seen(req) ==
  [line   |-> req.line,
   fields |-> {[name |-> SubSeq(h.key, 1, Len(h.key) - 1), val |-> h.val] :
                 h \in req.headers},
   body   |-> req.body]

AllSeen == [k \in DOMAIN requests |-> Seen(requests[k])]

-----------------------------------------------------------------------------

\* However recv cuts the stream into chunks, between two reads the callback
\* has been given exactly the messages that are complete in what arrived, in
\* order and with their fields (HttpSession.cpp:44-106, server.cpp:51-60).
ChunkingInvisible == pc = "recv" => AllSeen = Decode(received, BodyIgnored)

\* 10_HTTP/10.md:35-40: the value of Content-Length is looked up in the
\* header map, and a request with one is delivered with that many bytes of
\* body.  The code stores every key with its ':' (HttpSession.cpp:81) and
\* looks it up without (HttpSession.cpp:67-68), so it never finds it and
\* takes the body for the next request line.
BodiesDelivered ==
  pc = "recv" => AllSeen = Decode(received, BodyByContentLength)
=============================================================================
