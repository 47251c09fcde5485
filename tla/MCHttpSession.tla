--------------------------- MODULE MCHttpSession ---------------------------
(***************************************************************************)
(* Instances of HttpSession.  Raw streams exercise the parser on every     *)
(* short sequence of units, well formed or not; message streams on         *)
(* pipelined requests longer than the initial buffer.                      *)
(***************************************************************************)
EXTENDS HttpFraming, SequencesExt

\* "Host: h" twice with two values, and a Content-Length of one unit.
MCHeaderText == {"host1", "host2", "length1"}
MCText       == {"get", "b"} \cup MCHeaderText
MCFieldName  == {"Host", "Content-Length"}
MCName   == [h \in MCHeaderText |-> IF h = "length1" THEN "Content-Length" ELSE "Host"]
MCNumber == [h \in MCHeaderText |-> IF h = "length1" THEN 1 ELSE -1]

\* Every sequence of at most six units over a small alphabet.
RawStreams == BoundedSeq({"get", "host1", "cr", "lf"}, 6)

\* A message as its lines, ended by the empty line, then its body.
Encode(lines, body) ==
  FlattenSeq([k \in DOMAIN lines |-> Append(Append(lines[k], "cr"), "lf")])
    \o <<"cr", "lf">> \o body

Bodiless == {Encode(<<<<"get">>>> \o fields, <<>>) :
               fields \in {<<>>, <<<<"host1">>>>, <<<<"b">>, <<"host1">>>>,
                           <<<<"host1">>, <<"b", "host2">>, <<"host2">>>>}}

Pairs(msgs) == {a \o b : a \in msgs, b \in msgs}

BodilessPairs == Pairs(Bodiless) \cup {a \o b : a \in Pairs(Bodiless), b \in Bodiless}

WithBody == {Encode(<<<<"get">>, <<"length1">>>>, <<"b">>)}

BodyPairs == Pairs(WithBody \cup {Encode(<<<<"get">>>>, <<>>)})

\* Streams in which a body, or half a line break, is cut off or misplaced.
MixedStreams == BodyPairs \cup BodilessPairs \cup
                Pairs(WithBody \cup {<<"cr">>, <<"b", "cr", "cr", "lf">>})

AllStreams == RawStreams \cup MixedStreams
=============================================================================
