------------------------ MODULE HttpSession_proofs ------------------------
(***************************************************************************)
(* Proofs about HttpSession for every buffer size, chunk size and stream:  *)
(* the types, the indices, the contents of the window, and that what the   *)
(* callback is given does not depend on how the stream is cut into chunks: *)
(* it is what HttpFraming reads in the whole of it.                        *)
(***************************************************************************)
EXTENDS HttpFraming, SequenceTheorems, WellFoundedInduction, TLAPS

-----------------------------------------------------------------------------
(* Cutting sequences. *)

\* Every nonempty set of naturals has a least member.
LEMMA NatMin ==
  ASSUME NEW S \in SUBSET Nat, S # {}
  PROVE  \E k \in S : \A j \in S : k <= j
  <1>1. PICK k \in S : \A j \in S : ~(<<j, k>> \in OpToRel(<, Nat))
    BY NatLessThanWellFounded, WFMin
  <1>2. \A j \in S : ~(j < k)
    BY <1>1 DEF OpToRel
  <1> QED
    BY <1>2

\* ... and one that lies in an interval has a greatest member.
LEMMA IntervalMax ==
  ASSUME NEW n \in Nat, NEW S \in SUBSET (1 .. n), S # {}
  PROVE  \E k \in S : \A j \in S : k >= j
  <1> DEFINE T == {m \in Nat : m <= n /\ n - m \in S}
  <1>1. \A k \in S : k \in Nat /\ k <= n /\ n - k \in Nat /\ n - k <= n /\ n - (n - k) = k
    OBVIOUS
  <1>2. \A k \in S : n - k \in T
    BY <1>1
  <1>3. T \in SUBSET Nat /\ T # {}
    BY <1>2
  <1> HIDE DEF T
  <1>4. PICK t \in T : \A u \in T : t <= u
    BY <1>3, NatMin
  <1>5. t \in Nat /\ n - t \in S
    BY <1>4 DEF T
  <1>6. \A j \in S : t <= n - j
    BY <1>2, <1>4
  <1>7. \A j \in S : n - t >= j
    BY <1>1, <1>5, <1>6
  <1> QED
    BY <1>5, <1>7

\* Cutting a sequence between two of its positions gives a sequence over the
\* same set, whose last member is the one at the end of the cut.
LEMMA Cut ==
  ASSUME NEW S, NEW s \in Seq(S), NEW m \in 1 .. Len(s) + 1, NEW n \in 0 .. Len(s)
  PROVE  /\ SubSeq(s, m, n) \in Seq(S)
         /\ Len(SubSeq(s, m, n)) = IF m <= n THEN n - m + 1 ELSE 0
         /\ \A i \in 1 .. n - m + 1 : SubSeq(s, m, n)[i] = s[m + i - 1]
  <1>1. m \in Int /\ n \in Int /\ Len(s) \in Nat
    BY LenProperties
  <1>2. \A i \in m .. n : s[i] \in S
    BY <1>1, ElementOfSeq
  <1> QED
    BY <1>1, <1>2, SubSeqProperties

\* trim returns a sequence over the same set; when the last unit is not white
\* space it stays the last one.
LEMMA TrimProperties ==
  ASSUME NEW S, NEW s \in Seq(S)
  PROVE  /\ Trim(s) \in Seq(S)
         /\ s # <<>> /\ s[Len(s)] \notin {CR, LF}
              => Trim(s) # <<>> /\ Trim(s)[Len(Trim(s))] = s[Len(s)]
  <1> DEFINE kept == {k \in DOMAIN s : s[k] \notin {CR, LF}}
             a    == CHOOSE k \in kept : \A j \in kept : k <= j
             b    == CHOOSE k \in kept : \A j \in kept : k >= j
  <1>1. Len(s) \in Nat /\ DOMAIN s = 1 .. Len(s)
    BY LenProperties
  <1>2. CASE kept = {}
    <2>1. Trim(s) = <<>>
      BY <1>2 DEF Trim
    <2>2. s # <<>> => Len(s) \in kept \/ s[Len(s)] \in {CR, LF}
      BY <1>1, EmptySeq
    <2> QED
      BY <1>2, <2>1, <2>2, EmptySeq
  <1>3. CASE kept # {}
    <2>0. kept \in SUBSET (1 .. Len(s)) /\ kept \in SUBSET Nat
      BY <1>1
    <2> HIDE DEF kept
    <2>1. a \in kept /\ \A j \in kept : a <= j
      <3>1. \E k \in kept : \A j \in kept : k <= j
        BY <1>3, <2>0, NatMin
      <3> QED
        BY <3>1
    <2>2. b \in kept /\ \A j \in kept : b >= j
      <3>1. \E k \in kept : \A j \in kept : k >= j
        BY <1>1, <1>3, <2>0, IntervalMax
      <3> QED
        BY <3>1
    <2>3. a \in 1 .. Len(s) /\ b \in 1 .. Len(s) /\ a <= b
      BY <2>0, <2>1, <2>2
    <2>4. Trim(s) = SubSeq(s, a, b)
      BY <1>3 DEF Trim, kept
    <2> HIDE DEF a, b
    <2>5. /\ Trim(s) \in Seq(S)
          /\ Len(Trim(s)) = b - a + 1
          /\ Trim(s)[b - a + 1] = s[b]
      BY <1>1, <2>3, <2>4, Cut
    <2>6. ASSUME s # <<>>, s[Len(s)] \notin {CR, LF}
          PROVE  b = Len(s)
      <3>1. Len(s) \in kept
        BY <1>1, <2>6, EmptySeq DEF kept
      <3> QED
        BY <2>0, <2>2, <2>3, <3>1
    <2> QED
      BY <2>3, <2>5, <2>6, EmptySeq
  <1> QED
    BY <1>2, <1>3

\* Units and the characters of stored keys.
LEMMA Constants ==
  /\ BufInit \in Nat /\ ChunkMax \in Nat /\ ChunkMax <= BufInit
  /\ CR \in Unit /\ LF \in Unit /\ NUL \in Unit
  /\ ":" \notin {CR, LF}
  /\ Unit \subseteq Token
  /\ ":" \in Token
  /\ \A h \in HeaderText : Name[h] \in Token /\ Name[h] \notin {CR, LF}
  BY SessionAssumption DEF SessionAssumption, Unit, Token

-----------------------------------------------------------------------------
(* The header map. *)

EndsInColon(headers) ==
  \A h \in headers : h.key # <<>> /\ h.key[Len(h.key)] = ":"

\* A header line adds an entry whose key still has its ':'.
LEMMA StoreHeaderKeepsColon ==
  ASSUME NEW headers \in SUBSET Header, EndsInColon(headers),
         NEW line \in Seq(Unit)
  PROVE  /\ StoreHeader(headers, line) \in SUBSET Header
         /\ EndsInColon(StoreHeader(headers, line))
  <1> DEFINE colons == {k \in 1 .. Len(line) : line[k] \in HeaderText}
             k      == CHOOSE k \in colons : \A j \in colons : k <= j
             cut    == SubSeq(line, 1, k - 1) \o <<Name[line[k]], ":">>
             key    == Trim(cut)
             val    == Trim(SubSeq(line, k, Len(line)))
  <1>1. CASE colons = {}
    BY <1>1 DEF StoreHeader
  <1>2. CASE colons # {}
    <2>1. Len(line) \in Nat
      BY LenProperties
    <2>2. k \in 1 .. Len(line) /\ line[k] \in HeaderText
      <3>1. colons \in SUBSET Nat
        BY <2>1
      <3>2. \E m \in colons : \A j \in colons : m <= j
        BY <1>2, <3>1, NatMin
      <3>3. k \in colons
        BY <3>2
      <3> QED
        BY <3>3
    <2>3. StoreHeader(headers, line)
            = {h \in headers : h.key # key} \cup {[key |-> key, val |-> val]}
      BY <1>2 DEF StoreHeader
    <2> HIDE DEF k
    <2>4. val \in Seq(Unit)
      <3>1. SubSeq(line, k, Len(line)) \in Seq(Unit)
        BY <2>1, <2>2, Cut
      <3> QED
        BY <3>1, TrimProperties
    <2>5. cut \in Seq(Token) /\ cut # <<>> /\ cut[Len(cut)] = ":"
      <3> DEFINE s1 == SubSeq(line, 1, k - 1)
                 s2 == <<Name[line[k]], ":">>
      <3>1. s1 \in Seq(Token)
        <4>1. s1 \in Seq(Unit)
          BY <2>1, <2>2, Cut
        <4> QED
          BY <4>1, Constants, SeqMonotonic
      <3>2. s2 \in Seq(Token) /\ Len(s2) = 2 /\ s2[2] = ":"
        BY <2>2, Constants
      <3> HIDE DEF s1, s2
      <3>3. /\ s1 \o s2 \in Seq(Token)
            /\ Len(s1 \o s2) = Len(s1) + 2
            /\ (s1 \o s2)[Len(s1) + 2] = ":"
            /\ Len(s1) \in Nat
        <4>1. Len(s1) \in Nat
          BY <3>1, LenProperties
        <4>2. /\ s1 \o s2 \in Seq(Token)
              /\ Len(s1 \o s2) = Len(s1) + Len(s2)
              /\ \A i \in 1 .. Len(s1) + Len(s2) :
                   (s1 \o s2)[i] = IF i <= Len(s1) THEN s1[i] ELSE s2[i - Len(s1)]
          BY <3>1, <3>2, ConcatProperties, Zenon
        <4>3. /\ Len(s1) + 2 \in 1 .. Len(s1) + Len(s2)
              /\ (Len(s1) + 2) - Len(s1) = 2
              /\ ~(Len(s1) + 2 <= Len(s1))
          BY <3>2, <4>1
        <4>4. (s1 \o s2)[Len(s1) + 2] = s2[2]
          BY <4>1, <4>2, <4>3
        <4> QED
          BY <3>2, <4>1, <4>2, <4>4
      <3>4. s1 \o s2 # <<>>
        BY <3>3, EmptySeq
      <3> QED
        BY <3>3, <3>4 DEF s1, s2
    <2> HIDE DEF cut
    <2>6. key \in Seq(Token) /\ key # <<>> /\ key[Len(key)] = ":"
      BY <2>5, Constants, TrimProperties
    <2> HIDE DEF key, val
    <2>7. [key |-> key, val |-> val] \in Header
      BY <2>4, <2>6 DEF Header
    <2> QED
      BY <2>3, <2>6, <2>7 DEF EndsInColon
  <1> QED
    BY <1>1, <1>2

\* So the two look-ups of parse find nothing.
LEMMA NoLengthField ==
  ASSUME NEW headers \in SUBSET Header, EndsInColon(headers)
  PROVE  LengthField(headers) = {}
  <1>1. ASSUME NEW h \in headers, NEW name \in {"Content-Length", "content-length"},
               h.key = <<name>>
        PROVE  FALSE
    <2>1. Len(<<name>>) = 1 /\ <<name>>[1] = name
      OBVIOUS
    <2>2. name = ":"
      BY <1>1, <2>1 DEF EndsInColon
    <2> QED
      BY <2>2
  <1>2. \A h \in headers : h.key # <<"Content-Length">> /\ h.key # <<"content-length">>
    BY <1>1
  <1> QED
    BY <1>2 DEF LengthField

-----------------------------------------------------------------------------
(* The buffer. *)

\* A part of the window is a sequence of units.
LEMMA ViewType ==
  ASSUME TypeOK, IndicesInBuffer, NEW n \in 0 .. write_idx - read_idx
  PROVE  View(n) \in Seq(Unit)
  <1>1. \A i \in 1 .. n : read_idx + i - 1 \in 0 .. capacity - 1
    BY DEF TypeOK, IndicesInBuffer
  <1>2. \A i \in 1 .. n : buffer[read_idx + i - 1] \in Unit
    BY <1>1 DEF TypeOK
  <1>3. View(n) \in [1 .. n -> Unit]
    BY <1>2 DEF View
  <1>4. n \in Nat
    OBVIOUS
  <1> QED
    BY <1>3, <1>4

-----------------------------------------------------------------------------
(* Windows of a buffer that hold the end of a stream, and what appendData   *)
(* and compact do to them.                                                  *)

HoldsEnd(buf, r, w, s) ==
  /\ r <= w
  /\ w - r <= Len(s)
  /\ \A i \in r .. w - 1 : buf[i] = s[Len(s) - w + i + 1]

LEMMA WindowDefinition ==
  ASSUME TypeOK
  PROVE  IndicesInBuffer /\ WindowIsStreamTail
           <=> HoldsEnd(buffer, read_idx, write_idx, received) /\ write_idx <= capacity
  BY DEF IndicesInBuffer, WindowIsStreamTail, HoldsEnd

\* Parsing the front of the window leaves the end of the stream.
LEMMA ParseWindow ==
  ASSUME NEW buf, NEW s \in Seq(Unit), NEW r \in Nat, NEW w \in Nat,
         NEW q \in r .. w, HoldsEnd(buf, r, w, s)
  PROVE  HoldsEnd(buf, q, w, s)
  <1>1. Len(s) \in Nat
    BY LenProperties
  <1> QED
    BY <1>1 DEF HoldsEnd

\* memmove by lo cells moves the window with its contents.
LEMMA CompactWindow ==
  ASSUME NEW cap \in Nat, NEW buf \in [0 .. cap - 1 -> Unit], NEW s \in Seq(Unit),
         NEW r \in Nat, NEW w \in Nat, w <= cap, NEW lo \in 0 .. r,
         HoldsEnd(buf, r, w, s)
  PROVE  /\ Compact(buf, lo, w) \in [0 .. cap - 1 -> Unit]
         /\ HoldsEnd(Compact(buf, lo, w), r - lo, w - lo, s)
  <1>1. Len(s) \in Nat /\ r <= w /\ w - r <= Len(s)
    BY LenProperties DEF HoldsEnd
  <1>2. DOMAIN buf = 0 .. cap - 1
    OBVIOUS
  <1>3. \A i \in 0 .. cap - 1 : i < w - lo => i + lo \in 0 .. cap - 1
    OBVIOUS
  <1>4. Compact(buf, lo, w) \in [0 .. cap - 1 -> Unit]
    BY <1>2, <1>3 DEF Compact
  <1>5. r - lo <= w - lo /\ (w - lo) - (r - lo) <= Len(s)
    BY <1>1
  <1>6. ASSUME NEW i \in r - lo .. w - lo - 1
        PROVE  Compact(buf, lo, w)[i] = s[Len(s) - (w - lo) + i + 1]
    <2>1. i \in 0 .. cap - 1 /\ i < w - lo
      BY <1>1
    <2>2. i + lo \in r .. w - 1
      BY <1>1
    <2>3. Len(s) - w + (i + lo) + 1 = Len(s) - (w - lo) + i + 1
      BY <1>1
    <2>4. buf[i + lo] = s[Len(s) - w + (i + lo) + 1]
      BY <2>2 DEF HoldsEnd
    <2>5. Compact(buf, lo, w)[i] = buf[i + lo]
      BY <1>2, <2>1 DEF Compact
    <2> QED
      BY <2>3, <2>4, <2>5
  <1>7. HoldsEnd(Compact(buf, lo, w), r - lo, w - lo, s)
    BY <1>5, <1>6 DEF HoldsEnd
  <1> QED
    BY <1>4, <1>7

\* A larger vector holds the same window.
LEMMA ResizeWindow ==
  ASSUME NEW cap \in Nat, NEW buf \in [0 .. cap - 1 -> Unit], NEW s \in Seq(Unit),
         NEW r \in Nat, NEW w \in Nat, w <= cap, HoldsEnd(buf, r, w, s),
         NEW size \in Nat, cap <= size
  PROVE  /\ Resize(buf, cap, size) \in [0 .. size - 1 -> Unit]
         /\ HoldsEnd(Resize(buf, cap, size), r, w, s)
  <1>1. \A i \in 0 .. size - 1 : i < cap => i \in 0 .. cap - 1
    OBVIOUS
  <1>2. Resize(buf, cap, size) \in [0 .. size - 1 -> Unit]
    BY <1>1, Constants DEF Resize
  <1>3. \A i \in r .. w - 1 : i \in 0 .. size - 1 /\ i < cap
    OBVIOUS
  <1>4. \A i \in r .. w - 1 : Resize(buf, cap, size)[i] = buf[i]
    BY <1>3 DEF Resize
  <1>5. HoldsEnd(Resize(buf, cap, size), r, w, s)
    BY <1>4 DEF HoldsEnd
  <1> QED
    BY <1>2, <1>5

\* Copying a chunk behind the window extends the window as it extends the
\* stream.
LEMMA CopyInWindow ==
  ASSUME NEW cap \in Nat, NEW buf \in [0 .. cap - 1 -> Unit], NEW s \in Seq(Unit),
         NEW r \in Nat, NEW w \in Nat, HoldsEnd(buf, r, w, s),
         NEW chunk \in Seq(Unit), w + Len(chunk) <= cap
  PROVE  /\ CopyIn(buf, chunk, w) \in [0 .. cap - 1 -> Unit]
         /\ HoldsEnd(CopyIn(buf, chunk, w), r, w + Len(chunk), s \o chunk)
  <1> DEFINE t   == s \o chunk
             new == CopyIn(buf, chunk, w)
  <1>1. Len(s) \in Nat /\ Len(chunk) \in Nat /\ r <= w /\ w - r <= Len(s)
    BY LenProperties DEF HoldsEnd
  <1>2. DOMAIN buf = 0 .. cap - 1
    OBVIOUS
  <1>3. \A i \in w .. w + Len(chunk) - 1 : chunk[i - w + 1] \in Unit
    <2>1. \A i \in w .. w + Len(chunk) - 1 : i - w + 1 \in 1 .. Len(chunk)
      BY <1>1
    <2> QED
      BY <2>1, ElementOfSeq
  <1>4. new \in [0 .. cap - 1 -> Unit]
    BY <1>2, <1>3 DEF CopyIn
  <1>5. Len(t) = Len(s) + Len(chunk)
    BY ConcatProperties
  <1>6. \A i \in 1 .. Len(s) + Len(chunk) :
          t[i] = IF i <= Len(s) THEN s[i] ELSE chunk[i - Len(s)]
    BY ConcatProperties
  <1> HIDE DEF t
  <1>7. ASSUME NEW i \in r .. w + Len(chunk) - 1
        PROVE  new[i] = t[Len(t) - (w + Len(chunk)) + i + 1]
    <2>1. i \in 0 .. cap - 1
      BY <1>1
    <2>2. new[i] = IF i \in w .. w + Len(chunk) - 1 THEN chunk[i - w + 1] ELSE buf[i]
      BY <1>2, <2>1 DEF CopyIn
    <2> HIDE DEF new
    <2>3. Len(t) - (w + Len(chunk)) + i + 1 = Len(s) - w + i + 1
      BY <1>1, <1>5
    <2>4. Len(s) - w + i + 1 \in 1 .. Len(s) + Len(chunk)
      BY <1>1
    <2>5. CASE i < w
      <3>1. i \in r .. w - 1 /\ ~(i \in w .. w + Len(chunk) - 1)
        BY <1>1, <2>5
      <3>2. Len(s) - w + i + 1 <= Len(s)
        BY <1>1, <2>5
      <3>3. buf[i] = s[Len(s) - w + i + 1]
        BY <3>1 DEF HoldsEnd
      <3>4. t[Len(s) - w + i + 1] = s[Len(s) - w + i + 1]
        BY <1>6, <2>4, <3>2
      <3> QED
        BY <2>2, <2>3, <3>1, <3>3, <3>4
    <2>6. CASE ~(i < w)
      <3>1. i \in w .. w + Len(chunk) - 1
        BY <1>1, <2>6
      <3>2. ~(Len(s) - w + i + 1 <= Len(s))
        BY <1>1, <2>6
      <3>3. (Len(s) - w + i + 1) - Len(s) = i - w + 1
        BY <1>1
      <3>4. t[Len(s) - w + i + 1] = chunk[(Len(s) - w + i + 1) - Len(s)]
        BY <1>6, <2>4, <3>2
      <3> QED
        BY <2>2, <2>3, <3>1, <3>3, <3>4
    <2> QED
      BY <2>5, <2>6
  <1> HIDE DEF new
  <1>8. r <= w + Len(chunk) /\ (w + Len(chunk)) - r <= Len(t)
    BY <1>1, <1>5
  <1>9. HoldsEnd(new, r, w + Len(chunk), t)
    BY <1>7, <1>8 DEF HoldsEnd
  <1> QED
    BY <1>4, <1>9 DEF new, t

\* appendData stays inside the vector and keeps the window, because a chunk
\* is never longer than a new session's buffer.
LEMMA AppendDataWindow ==
  ASSUME TypeOK, IndicesInBuffer, WindowIsStreamTail, capacity >= BufInit,
         NEW chunk \in Seq(Unit), Len(chunk) \in 1 .. ChunkMax,
         AppendData(chunk)
  PROVE  /\ capacity' \in Nat /\ capacity' >= BufInit
         /\ buffer' \in [0 .. capacity' - 1 -> Unit]
         /\ read_idx' \in Nat /\ write_idx' \in Nat
         /\ write_idx' <= capacity'
         /\ HoldsEnd(buffer', read_idx', write_idx', received \o chunk)
  <1> DEFINE full == write_idx + Len(chunk) > capacity
             lo   == IF full THEN read_idx ELSE 0
             w    == write_idx - lo
             size == IF full /\ w + Len(chunk) > capacity THEN capacity * 2 ELSE capacity
             buf1 == Compact(buffer, lo, write_idx)
             buf2 == Resize(buf1, capacity, size)
  <1>1. /\ buffer' = CopyIn(buf2, chunk, w)
        /\ capacity' = size
        /\ read_idx' = IF full THEN 0 ELSE read_idx
        /\ write_idx' = w + Len(chunk)
    BY DEF AppendData, Overflows
  <1>2. /\ capacity \in Nat /\ read_idx \in Nat /\ write_idx \in Nat
        /\ read_idx <= write_idx /\ write_idx <= capacity
        /\ buffer \in [0 .. capacity - 1 -> Unit]
        /\ received \in Seq(Unit)
        /\ Len(chunk) \in Nat /\ Len(chunk) <= capacity
        /\ BufInit \in Nat
    BY Constants DEF TypeOK, IndicesInBuffer
  <1>3. HoldsEnd(buffer, read_idx, write_idx, received)
    BY WindowDefinition
  <1>4. /\ lo \in 0 .. read_idx /\ w \in Nat /\ w <= capacity
        /\ size \in Nat /\ capacity <= size
        /\ w + Len(chunk) <= size
    BY <1>2
  <1>5. w = write_idx - lo /\ read_idx' = read_idx - lo /\ read_idx - lo \in Nat
    BY <1>1, <1>2
  <1> HIDE DEF full, lo, w, size
  <1>6. /\ buf1 \in [0 .. capacity - 1 -> Unit]
        /\ HoldsEnd(buf1, read_idx - lo, w, received)
    <2>1. buf1 \in [0 .. capacity - 1 -> Unit]
      BY <1>2, <1>3, <1>4, CompactWindow
    <2>2. HoldsEnd(buf1, read_idx - lo, write_idx - lo, received)
      BY <1>2, <1>3, <1>4, CompactWindow
    <2> QED
      BY <1>5, <2>1, <2>2
  <1> HIDE DEF buf1
  <1>7. buf2 \in [0 .. size - 1 -> Unit]
    BY <1>2, <1>4, <1>5, <1>6, ResizeWindow
  <1>8. HoldsEnd(buf2, read_idx - lo, w, received)
    BY <1>2, <1>4, <1>5, <1>6, ResizeWindow
  <1> HIDE DEF buf2
  <1>9. CopyIn(buf2, chunk, w) \in [0 .. size - 1 -> Unit]
    BY <1>2, <1>4, <1>5, <1>7, <1>8, CopyInWindow
  <1>10. HoldsEnd(CopyIn(buf2, chunk, w), read_idx - lo, w + Len(chunk), received \o chunk)
    BY <1>2, <1>4, <1>5, <1>7, <1>8, CopyInWindow
  <1>11. capacity' >= BufInit /\ write_idx' <= capacity' /\ write_idx' \in Nat
    BY <1>1, <1>2, <1>4
  <1> QED
    BY <1>1, <1>4, <1>5, <1>9, <1>10, <1>11

-----------------------------------------------------------------------------
(* The inductive invariant.  The indices need the buffer never to get      *)
(* smaller than it was; NoBodies needs every key of the request under      *)
(* construction to end in ':', and its body to be empty still.             *)

\* What follows from HttpSession.cpp:81 as it stands, and is no requirement:
\* the parser never gets to BODY.  Where the next message begins, which
\* ChunkingInvisible speaks of, depends on it.
NoBodies ==
  /\ state # "BODY"
  /\ \A k \in DOMAIN requests : requests[k].body = <<>>

IInv ==
  /\ TypeOK
  /\ IndicesInBuffer
  /\ WindowIsStreamTail
  /\ NoBodies
  /\ capacity >= BufInit
  /\ EndsInColon(request.headers)
  /\ request.body = <<>>

LEMMA EmptyRequestType ==
  EmptyRequest \in Request /\ EndsInColon(EmptyRequest.headers) /\ EmptyRequest.body = <<>>
  BY EmptySeq DEF EmptyRequest, Request, EndsInColon

\* A new session satisfies it.
LEMMA InitIInv == Init => IInv
  <1> SUFFICES ASSUME Init PROVE IInv
    OBVIOUS
  <1> USE DEF Init
  <1>1. TypeOK
    <2>1. buffer \in [0 .. capacity - 1 -> Unit] /\ capacity \in Nat
      BY Constants
    <2>2. input \in Seq(Unit)
      BY SessionAssumption DEF SessionAssumption
    <2>3. received \in Seq(Unit) /\ requests \in Seq(Request)
      BY EmptySeq
    <2> QED
      BY <2>1, <2>2, <2>3, EmptyRequestType DEF TypeOK, ParseState
  <1>2. IndicesInBuffer
    BY Constants DEF IndicesInBuffer
  <1>3. WindowIsStreamTail
    BY EmptySeq DEF WindowIsStreamTail
  <1>4. NoBodies
    BY EmptySeq DEF NoBodies
  <1> QED
    BY <1>1, <1>2, <1>3, <1>4, Constants, EmptyRequestType DEF IInv

\* appendData: the window grows by the chunk, as the stream does.
LEMMA RecvIInv ==
  ASSUME IInv, Recv
  PROVE  IInv'
  <1> USE DEF IInv
  <1>1. PICK n \in 1 .. ChunkMax :
          /\ n <= Len(input)
          /\ AppendData(SubSeq(input, 1, n))
          /\ received' = received \o SubSeq(input, 1, n)
          /\ input' = SubSeq(input, n + 1, Len(input))
    BY DEF Recv
  <1> DEFINE chunk == SubSeq(input, 1, n)
  <1>2. input \in Seq(Unit) /\ Len(input) \in Nat /\ n \in Nat /\ n >= 1
    BY LenProperties, Constants DEF TypeOK
  <1>3. chunk \in Seq(Unit) /\ Len(chunk) = n
    <2>1. 1 \in 1 .. Len(input) + 1 /\ n \in 0 .. Len(input)
      BY <1>1, <1>2
    <2>2. chunk \in Seq(Unit)
      BY <1>2, <2>1, Cut
    <2>3. Len(chunk) = IF 1 <= n THEN n - 1 + 1 ELSE 0
      BY <1>2, <2>1, Cut
    <2> QED
      BY <1>2, <2>2, <2>3
  <1>4. input' \in Seq(Unit)
    <2>1. n + 1 \in 1 .. Len(input) + 1 /\ Len(input) \in 0 .. Len(input)
      BY <1>1, <1>2
    <2> QED
      BY <1>1, <1>2, <2>1, Cut
  <1>5. AppendData(chunk)
    BY <1>1
  <1> HIDE DEF chunk
  <1>6. /\ capacity' \in Nat /\ capacity' >= BufInit
        /\ buffer' \in [0 .. capacity' - 1 -> Unit]
        /\ read_idx' \in Nat /\ write_idx' \in Nat
        /\ write_idx' <= capacity'
        /\ HoldsEnd(buffer', read_idx', write_idx', received \o chunk)
    BY <1>1, <1>3, <1>5, AppendDataWindow
  <1>7. received' = received \o chunk
    BY <1>1 DEF chunk
  <1>8. received' \in Seq(Unit)
    BY <1>3, <1>7, ConcatProperties DEF TypeOK
  <1>9. UNCHANGED parser /\ pc' = "parse"
    BY DEF Recv
  <1>10. TypeOK'
    BY <1>4, <1>6, <1>8, <1>9 DEF TypeOK, parser
  <1>11. (IndicesInBuffer /\ WindowIsStreamTail)'
    BY <1>6, <1>7 DEF IndicesInBuffer, WindowIsStreamTail, HoldsEnd
  <1> QED
    BY <1>6, <1>9, <1>10, <1>11 DEF IInv, NoBodies, parser

\* parse returns false: only pc changes.
LEMMA NeedMoreIInv ==
  ASSUME IInv, NeedMore, UNCHANGED <<input, received>>
  PROVE  IInv'
  BY DEF IInv, NeedMore, store, parser, TypeOK, IndicesInBuffer, WindowIsStreamTail,
         NoBodies

\* parse moves over the front of the window: it stays the end of the stream.
LEMMA ParsedWindow ==
  ASSUME IInv, NEW r \in read_idx .. write_idx
  PROVE  /\ r \in Nat /\ write_idx - r \in Nat
         /\ HoldsEnd(buffer, r, write_idx, received)
  <1>1. HoldsEnd(buffer, read_idx, write_idx, received)
    BY WindowDefinition DEF IInv
  <1>2. read_idx \in Nat /\ write_idx \in Nat /\ received \in Seq(Unit)
    BY DEF IInv, TypeOK
  <1>3. r \in Nat /\ write_idx - r \in Nat
    BY <1>2
  <1> QED
    BY <1>1, <1>2, <1>3, ParseWindow

\* COMPLETE: the request is handed out and the window compacted.
LEMMA CompleteIInv ==
  ASSUME IInv, NEW req \in Request, req.body = <<>>, NEW r \in read_idx .. write_idx,
         Complete(req, r), UNCHANGED <<input, received>>
  PROVE  IInv'
  <1>1. /\ buffer \in [0 .. capacity - 1 -> Unit] /\ capacity \in Nat
        /\ write_idx \in Nat /\ write_idx <= capacity
        /\ received \in Seq(Unit) /\ requests \in Seq(Request)
    BY DEF IInv, TypeOK, IndicesInBuffer
  <1>2. r \in Nat /\ write_idx - r \in Nat /\ HoldsEnd(buffer, r, write_idx, received)
    BY ParsedWindow
  <1>3. r \in 0 .. r /\ r - r = 0
    BY <1>2
  <1>4. Compact(buffer, r, write_idx) \in [0 .. capacity - 1 -> Unit]
    BY <1>1, <1>2, <1>3, CompactWindow
  <1>5. HoldsEnd(Compact(buffer, r, write_idx), r - r, write_idx - r, received)
    BY <1>1, <1>2, <1>3, CompactWindow
  <1>6. requests' = Append(requests, req)
    BY DEF Complete
  <1>7. requests' \in Seq(Request) /\ Len(requests') = Len(requests) + 1
    BY <1>1, <1>6, AppendProperties
  <1>8. \A k \in DOMAIN requests' : requests'[k].body = <<>>
    <2>1. DOMAIN requests' = 1 .. Len(requests) + 1 /\ Len(requests) \in Nat
      BY <1>1, <1>7, LenProperties
    <2>2. ASSUME NEW k \in 1 .. Len(requests)
          PROVE  requests'[k] = requests[k] /\ requests[k].body = <<>>
      <3>1. requests'[k] = requests[k]
        BY <1>1, <1>6, AppendProperties
      <3>2. k \in DOMAIN requests
        BY <1>1, LenProperties
      <3> QED
        BY <3>1, <3>2 DEF IInv, NoBodies
    <2>3. requests'[Len(requests) + 1] = req
      BY <1>1, <1>6, AppendProperties
    <2> QED
      BY <2>1, <2>2, <2>3
  <1>9. TypeOK'
    BY <1>1, <1>2, <1>4, <1>7, EmptyRequestType
       DEF Complete, IInv, TypeOK, ParseState
  <1>10. write_idx - r <= capacity
    BY <1>1, <1>2
  <1>11. (IndicesInBuffer /\ WindowIsStreamTail)'
    BY <1>3, <1>5, <1>10 DEF Complete, IndicesInBuffer, WindowIsStreamTail, HoldsEnd
  <1>12. NoBodies'
    BY <1>8 DEF Complete, NoBodies
  <1> QED
    BY <1>9, <1>11, <1>12, EmptyRequestType DEF IInv, Complete

\* A line break found in the window leaves room for its two units.
LEMMA BreakInWindow ==
  ASSUME IInv, NEW p \in Crlfs
  PROVE  /\ p + 2 \in read_idx .. write_idx
         /\ p - read_idx \in 0 .. write_idx - read_idx
         /\ View(p - read_idx) \in Seq(Unit)
  <1>1. read_idx \in Nat /\ write_idx \in Nat /\ p \in read_idx .. write_idx - 2
    BY DEF IInv, TypeOK, Crlfs
  <1>2. p + 2 \in read_idx .. write_idx /\ p - read_idx \in 0 .. write_idx - read_idx
    BY <1>1
  <1>3. View(p - read_idx) \in Seq(Unit)
    BY <1>2, ViewType DEF IInv
  <1> QED
    BY <1>2, <1>3

\* A line is taken: the request changes and read_idx moves behind the line.
LEMMA LineIInv ==
  ASSUME IInv, NEW p \in Crlfs, read_idx' = p + 2,
         request' \in Request, EndsInColon(request'.headers), request'.body = <<>>,
         state' \in ParseState, state' # "BODY",
         UNCHANGED <<buffer, capacity, write_idx, content_length, requests, pc,
                     input, received>>
  PROVE  IInv'
  <1>1. p + 2 \in read_idx .. write_idx
    BY BreakInWindow
  <1>2. p + 2 \in Nat /\ HoldsEnd(buffer, p + 2, write_idx, received)
    BY <1>1, ParsedWindow
  <1>3. TypeOK'
    BY <1>2 DEF IInv, TypeOK
  <1>4. (IndicesInBuffer /\ WindowIsStreamTail)'
    BY <1>2 DEF IInv, IndicesInBuffer, WindowIsStreamTail, HoldsEnd
  <1> QED
    BY <1>3, <1>4 DEF IInv, NoBodies

LEMMA ParseRequestLineIInv ==
  ASSUME IInv, ParseRequestLine, UNCHANGED <<input, received>>
  PROVE  IInv'
  <1>1. CASE NeedMore
    BY <1>1, NeedMoreIInv
  <1>2. CASE ~NeedMore
    <2>1. PICK p \in Crlfs :
            /\ request' = [request EXCEPT !.line = View(p - read_idx)]
            /\ read_idx' = p + 2
            /\ state' = "HEADERS"
            /\ UNCHANGED <<buffer, capacity, write_idx, content_length, requests, pc>>
      BY <1>2 DEF ParseRequestLine
    <2>2. /\ request' \in Request
          /\ request'.headers = request.headers /\ request'.body = request.body
      BY <2>1, BreakInWindow DEF IInv, TypeOK, Request
    <2> QED
      BY <2>1, <2>2, LineIInv DEF IInv, ParseState
  <1> QED
    BY <1>1, <1>2

LEMMA ParseHeadersIInv ==
  ASSUME IInv, ParseHeaders, UNCHANGED <<input, received>>
  PROVE  IInv'
  <1>1. CASE NeedMore
    BY <1>1, NeedMoreIInv
  <1>2. CASE ~NeedMore
    <2>1. PICK p \in Crlfs :
            IF p = read_idx
            THEN EndOfHeaders
            ELSE /\ request' = [request EXCEPT
                                  !.headers = StoreHeader(@, View(p - read_idx))]
                 /\ read_idx' = p + 2
                 /\ UNCHANGED <<buffer, capacity, write_idx, state,
                                content_length, requests, pc>>
      BY <1>2 DEF ParseHeaders
    <2>2. request \in Request /\ request.headers \in SUBSET Header
      BY DEF IInv, TypeOK, Request
    <2>3. CASE p = read_idx
      <3>1. LengthField(request.headers) = {}
        BY <2>2, NoLengthField DEF IInv
      <3>2. Complete(request, read_idx + 2)
        BY <2>1, <2>3, <3>1 DEF EndOfHeaders
      <3>3. read_idx + 2 \in read_idx .. write_idx
        BY <2>3, BreakInWindow
      <3> QED
        BY <2>2, <3>2, <3>3, CompleteIInv DEF IInv
    <2>4. CASE p # read_idx
      <3> DEFINE new == StoreHeader(request.headers, View(p - read_idx))
      <3>1. View(p - read_idx) \in Seq(Unit)
        BY BreakInWindow
      <3>2. new \in SUBSET Header /\ EndsInColon(new)
        BY <2>2, <3>1, StoreHeaderKeepsColon DEF IInv
      <3>3. request' = [request EXCEPT !.headers = new]
        BY <2>1, <2>4
      <3> HIDE DEF new
      <3>4. request' \in Request /\ request'.headers = new /\ request'.body = request.body
        BY <2>2, <3>2, <3>3 DEF Request
      <3>5. state' \in ParseState /\ state' # "BODY"
        BY <2>1, <2>4 DEF IInv, TypeOK, NoBodies
      <3> QED
        BY <2>1, <2>4, <3>2, <3>4, <3>5, LineIInv DEF IInv
    <2> QED
      BY <2>3, <2>4
  <1> QED
    BY <1>1, <1>2

\* Every step keeps the invariant.
LEMMA NextIInv == IInv /\ [Next]_vars => IInv'
  <1> SUFFICES ASSUME IInv, [Next]_vars PROVE IInv'
    OBVIOUS
  <1>1. CASE Recv
    BY <1>1, RecvIInv
  <1>2. CASE Parse
    <2>1. UNCHANGED <<input, received>>
      BY <1>2 DEF Parse
    <2>2. state \in {"REQUEST_LINE", "HEADERS"}
      BY DEF IInv, TypeOK, ParseState, NoBodies
    <2>3. CASE state = "REQUEST_LINE"
      <3>1. ParseRequestLine
        BY <1>2, <2>3 DEF Parse
      <3> QED
        BY <2>1, <3>1, ParseRequestLineIInv
    <2>4. CASE state = "HEADERS"
      <3>1. ParseHeaders
        BY <1>2, <2>4 DEF Parse
      <3> QED
        BY <2>1, <3>1, ParseHeadersIInv
    <2> QED
      BY <2>2, <2>3, <2>4
  <1>3. CASE UNCHANGED vars
    BY <1>3 DEF vars, store, parser, IInv, TypeOK, IndicesInBuffer,
                WindowIsStreamTail, NoBodies
  <1> QED
    BY <1>1, <1>2, <1>3 DEF Next

LEMMA AlwaysIInv == Spec => []IInv
  BY InitIInv, NextIInv, PTL DEF Spec

-----------------------------------------------------------------------------
(* Where the lines and messages of a stream end. *)

\* The least member of a set of positions.
LEMMA MinOf ==
  ASSUME NEW S \in SUBSET Nat, S # {}
  PROVE  Min(S) \in S /\ \A j \in S : Min(S) <= j
  <1>1. \E k \in S : \A j \in S : k <= j
    BY NatMin
  <1> QED
    BY <1>1 DEF Min

LEMMA MinIs ==
  ASSUME NEW S \in SUBSET Nat, NEW k \in S, \A j \in S : k <= j
  PROVE  Min(S) = k
  <1>1. Min(S) \in S /\ Min(S) <= k
    BY MinOf
  <1>2. k <= Min(S) /\ k \in Nat /\ Min(S) \in Nat
    BY <1>1
  <1> QED
    BY <1>1, <1>2

\* The end of the line that starts at i, and the empty line of the message
\* that starts at i.
End(s, i)   == Min(BreaksFrom(s, i))
Blank(s, i) == Min(BlanksFrom(s, End(s, i)))

\* The message that starts at i has come in whole.
Whole(s, i) == BreaksFrom(s, i) # {} /\ BlanksFrom(s, End(s, i)) # {}

LEMMA BreakSets ==
  ASSUME NEW s \in Seq(Unit), NEW i \in Nat
  PROVE  /\ BreaksFrom(s, i) \in SUBSET Nat
         /\ \A j \in BreaksFrom(s, i) :
              /\ j \in i .. Len(s) - 1 /\ s[j] = CR /\ s[j + 1] = LF
              /\ \A k \in Nat : k <= j => j \in BreaksFrom(s, k)
         /\ BlanksFrom(s, i) \in SUBSET BreaksFrom(s, i)
         /\ \A j \in BlanksFrom(s, i) : j \in i + 2 .. Len(s) - 1 /\ j - 2 \in BreaksFrom(s, i)
  <1>1. Len(s) \in Nat
    BY LenProperties
  <1>2. \A k \in Nat : BreaksFrom(s, k) = {j \in k .. Len(s) - 1 : s[j] = CR /\ s[j + 1] = LF}
    BY DEF BreaksFrom
  <1>3. i + 2 \in Nat /\ \A j \in i + 2 .. Len(s) - 1 : j \in i .. Len(s) - 1
    BY <1>1
  <1>4. BlanksFrom(s, i) = {j \in BreaksFrom(s, i + 2) : j - 2 \in BreaksFrom(s, i)}
    BY DEF BlanksFrom
  <1> QED
    BY <1>1, <1>2, <1>3, <1>4

LEMMA EndOf ==
  ASSUME NEW s \in Seq(Unit), NEW i \in Nat, BreaksFrom(s, i) # {}
  PROVE  /\ End(s, i) \in BreaksFrom(s, i) /\ End(s, i) \in i .. Len(s) - 1
         /\ \A j \in BreaksFrom(s, i) : End(s, i) <= j
  <1>1. BreaksFrom(s, i) \in SUBSET Nat
    BY BreakSets
  <1>2. End(s, i) \in BreaksFrom(s, i) /\ \A j \in BreaksFrom(s, i) : End(s, i) <= j
    BY <1>1, MinOf DEF End
  <1> QED
    BY <1>2, BreakSets

LEMMA BlankOf ==
  ASSUME NEW s \in Seq(Unit), NEW i \in Nat, Whole(s, i)
  PROVE  /\ Blank(s, i) \in BlanksFrom(s, End(s, i))
         /\ \A j \in BlanksFrom(s, End(s, i)) : Blank(s, i) <= j
         /\ Blank(s, i) \in End(s, i) + 2 .. Len(s) - 1
         /\ Blank(s, i) - 2 \in BreaksFrom(s, End(s, i))
         /\ Blank(s, i) + 2 \in i + 2 .. Len(s) + 1
  <1>1. End(s, i) \in i .. Len(s) - 1 /\ Len(s) \in Nat
    BY EndOf, LenProperties DEF Whole
  <1>2. End(s, i) \in Nat
    BY <1>1
  <1>3. BlanksFrom(s, End(s, i)) \in SUBSET Nat
    BY <1>2, BreakSets
  <1>4. /\ Blank(s, i) \in BlanksFrom(s, End(s, i))
        /\ \A j \in BlanksFrom(s, End(s, i)) : Blank(s, i) <= j
    BY <1>3, MinOf DEF Blank, Whole
  <1>5. /\ Blank(s, i) \in End(s, i) + 2 .. Len(s) - 1
        /\ Blank(s, i) - 2 \in BreaksFrom(s, End(s, i))
    BY <1>2, <1>4, BreakSets
  <1> QED
    BY <1>1, <1>4, <1>5

\* Two line breaks do not overlap.
LEMMA BreaksApart ==
  ASSUME NEW s \in Seq(Unit), NEW i \in Nat, NEW j \in BreaksFrom(s, i)
  PROVE  j + 1 \notin BreaksFrom(s, i)
  <1>1. s[j + 1] = LF
    BY BreakSets
  <1>2. CR # LF
    BY SessionAssumption
  <1> QED
    BY <1>1, <1>2, BreakSets

-----------------------------------------------------------------------------
(* What has come in keeps its meaning when more comes in. *)

Extends(t, s) == Len(s) <= Len(t) /\ \A k \in 1 .. Len(s) : t[k] = s[k]

LEMMA ExtendsConcat ==
  ASSUME NEW s \in Seq(Unit), NEW u \in Seq(Unit)
  PROVE  s \o u \in Seq(Unit) /\ Extends(s \o u, s)
  <1>1. /\ s \o u \in Seq(Unit) /\ Len(s \o u) = Len(s) + Len(u)
        /\ \A k \in 1 .. Len(s) + Len(u) :
             (s \o u)[k] = IF k <= Len(s) THEN s[k] ELSE u[k - Len(s)]
    BY ConcatProperties
  <1>2. Len(s) \in Nat /\ Len(u) \in Nat
    BY LenProperties
  <1> QED
    BY <1>1, <1>2 DEF Extends

LEMMA BreaksStay ==
  ASSUME NEW s \in Seq(Unit), NEW t \in Seq(Unit), Extends(t, s), NEW i \in Nat \ {0}
  PROVE  /\ BreaksFrom(s, i) = {j \in BreaksFrom(t, i) : j < Len(s)}
         /\ BlanksFrom(s, i) = {j \in BlanksFrom(t, i) : j < Len(s)}
  <1>1. Len(s) \in Nat /\ Len(t) \in Nat /\ Len(s) <= Len(t)
    BY LenProperties DEF Extends
  <1>2. ASSUME NEW k \in Nat \ {0}
        PROVE  BreaksFrom(s, k) = {j \in BreaksFrom(t, k) : j < Len(s)}
    <2>1. \A j \in k .. Len(s) - 1 : j \in 1 .. Len(s) /\ j + 1 \in 1 .. Len(s)
      BY <1>1
    <2>2. \A j \in k .. Len(s) - 1 : t[j] = s[j] /\ t[j + 1] = s[j + 1]
      BY <2>1 DEF Extends
    <2>3. \A j : j \in k .. Len(s) - 1 <=> j \in k .. Len(t) - 1 /\ j < Len(s)
      BY <1>1
    <2> QED
      BY <2>2, <2>3 DEF BreaksFrom
  <1>3. BlanksFrom(s, i) = {j \in BlanksFrom(t, i) : j < Len(s)}
    <2>1. i + 2 \in Nat \ {0}
      OBVIOUS
    <2>2. /\ BreaksFrom(s, i) = {j \in BreaksFrom(t, i) : j < Len(s)}
          /\ BreaksFrom(s, i + 2) = {j \in BreaksFrom(t, i + 2) : j < Len(s)}
      BY <1>2, <2>1
    <2>3. \A j \in BreaksFrom(t, i + 2) : j \in Nat
      BY <2>1, BreakSets
    <2>4. \A j \in BreaksFrom(t, i + 2) : j < Len(s) => j - 2 < Len(s)
      BY <1>1, <2>3
    <2> QED
      BY <2>2, <2>4 DEF BlanksFrom
  <1> QED
    BY <1>2, <1>3

LEMMA EndStays ==
  ASSUME NEW s \in Seq(Unit), NEW t \in Seq(Unit), Extends(t, s), NEW i \in Nat \ {0},
         BreaksFrom(s, i) # {}
  PROVE  BreaksFrom(t, i) # {} /\ End(t, i) = End(s, i)
  <1>1. BreaksFrom(s, i) = {j \in BreaksFrom(t, i) : j < Len(s)} /\ Len(s) \in Nat
    BY BreaksStay, LenProperties
  <1>2. /\ End(s, i) \in BreaksFrom(s, i) /\ End(s, i) \in Nat
        /\ \A j \in BreaksFrom(s, i) : End(s, i) <= j
    BY EndOf
  <1>3. BreaksFrom(t, i) \in SUBSET Nat
    BY BreakSets
  <1>4. End(s, i) \in BreaksFrom(t, i) /\ End(s, i) < Len(s)
    BY <1>1, <1>2
  <1>5. \A j \in BreaksFrom(t, i) : End(s, i) <= j
    BY <1>1, <1>2, <1>3, <1>4
  <1> QED
    BY <1>3, <1>4, <1>5, MinIs DEF End

LEMMA BlankStays ==
  ASSUME NEW s \in Seq(Unit), NEW t \in Seq(Unit), Extends(t, s), NEW i \in Nat \ {0}, Whole(s, i)
  PROVE  Whole(t, i) /\ Blank(t, i) = Blank(s, i) /\ End(t, i) = End(s, i)
  <1>1. BreaksFrom(t, i) # {} /\ End(t, i) = End(s, i)
    BY EndStays DEF Whole
  <1>2. End(s, i) \in Nat \ {0} /\ Len(s) \in Nat
    BY EndOf, LenProperties DEF Whole
  <1>3. BlanksFrom(s, End(s, i)) = {j \in BlanksFrom(t, End(s, i)) : j < Len(s)}
    BY <1>2, BreaksStay
  <1>4. /\ Blank(s, i) \in BlanksFrom(s, End(s, i))
        /\ \A j \in BlanksFrom(s, End(s, i)) : Blank(s, i) <= j
        /\ Blank(s, i) \in End(s, i) + 2 .. Len(s) - 1
    BY BlankOf
  <1>5. BlanksFrom(t, End(s, i)) \in SUBSET Nat
    BY <1>2, BreakSets
  <1>6. Blank(s, i) \in BlanksFrom(t, End(s, i)) /\ Blank(s, i) < Len(s) /\ Blank(s, i) \in Nat
    BY <1>2, <1>3, <1>4
  <1>7. \A j \in BlanksFrom(t, End(s, i)) : Blank(s, i) <= j
    BY <1>2, <1>3, <1>4, <1>5, <1>6
  <1> QED
    BY <1>1, <1>5, <1>6, <1>7, MinIs DEF Blank, Whole

-----------------------------------------------------------------------------
(* The fields of a header block, line by line. *)

LineAt(s, a) == SubSeq(s, a, End(s, a) - 1)
Colons(l)    == {k \in DOMAIN l : l[k] \in HeaderText}
KeyOf(l)     == Trim(SubSeq(l, 1, Min(Colons(l)) - 1) \o <<Name[l[Min(Colons(l))]]>>)
ValOf(l)     == Trim(SubSeq(l, Min(Colons(l)), Len(l)))
FieldOf(l)   == [name |-> KeyOf(l), val |-> ValOf(l)]

\* The fields F and then the one of line l, if it is one.
Adding(F, l) ==
  IF Colons(l) = {} THEN F ELSE {f \in F : f.name # KeyOf(l)} \cup {FieldOf(l)}

Starts(s, e, b) == {j + 2 : j \in {k \in BreaksFrom(s, e) : k < b - 2}}

NamedLines(s, A) == {a \in A : Colons(LineAt(s, a)) # {}}

LastOfName(s, A, x) ==
  \A y \in NamedLines(s, A) : y > x => KeyOf(LineAt(s, y)) # KeyOf(LineAt(s, x))

FieldsAt(s, A) == {FieldOf(LineAt(s, a)) : a \in {x \in NamedLines(s, A) : LastOfName(s, A, x)}}

LEMMA FieldsAre == ASSUME NEW s, NEW e, NEW b PROVE Fields(s, e, b) = FieldsAt(s, Starts(s, e, b))
  BY DEF Fields, FieldsAt, NamedLines, LastOfName, Starts, FieldOf, KeyOf, ValOf, Colons, LineAt, End

\* A line that comes after the others.
LEMMA FieldsAdd ==
  ASSUME NEW s, NEW A \in SUBSET Nat, NEW p \in Nat, \A a \in A : a < p
  PROVE  FieldsAt(s, A \cup {p}) = Adding(FieldsAt(s, A), LineAt(s, p))
  <1> DEFINE B == A \cup {p}
             l == LineAt(s, p)
  <1>1. p \notin A /\ \A a \in A : p > a /\ ~(a > p)
    OBVIOUS
  <1>2. CASE Colons(l) = {}
    <2>1. NamedLines(s, B) = NamedLines(s, A)
      BY <1>2 DEF NamedLines
    <2>2. \A x : LastOfName(s, B, x) <=> LastOfName(s, A, x)
      BY <2>1 DEF LastOfName
    <2> QED
      BY <1>2, <2>1, <2>2 DEF FieldsAt, Adding
  <1>3. CASE Colons(l) # {}
    <2>1. NamedLines(s, B) = NamedLines(s, A) \cup {p}
      BY <1>3 DEF NamedLines
    <2>2. \A x \in NamedLines(s, A) :
            LastOfName(s, B, x) <=> LastOfName(s, A, x) /\ KeyOf(LineAt(s, x)) # KeyOf(l)
      <3>1. \A x \in NamedLines(s, A) : p > x
        BY <1>1 DEF NamedLines
      <3> QED
        BY <2>1, <3>1 DEF LastOfName
    <2>3. LastOfName(s, B, p)
      <3>1. \A y \in NamedLines(s, B) : ~(y > p)
        BY <1>1, <2>1 DEF NamedLines
      <3> QED
        BY <3>1 DEF LastOfName
    <2>4. {x \in NamedLines(s, B) : LastOfName(s, B, x)}
            = {x \in NamedLines(s, A) : LastOfName(s, A, x) /\ KeyOf(LineAt(s, x)) # KeyOf(l)} \cup {p}
      BY <2>1, <2>2, <2>3
    <2>5. FieldsAt(s, B)
            = {FieldOf(LineAt(s, x)) :
                 x \in {y \in NamedLines(s, A) : LastOfName(s, A, y) /\ KeyOf(LineAt(s, y)) # KeyOf(l)}}
              \cup {FieldOf(l)}
      BY <2>4 DEF FieldsAt
    <2>6. \A x : FieldOf(LineAt(s, x)).name = KeyOf(LineAt(s, x))
      BY DEF FieldOf
    <2>7. {f \in FieldsAt(s, A) : f.name # KeyOf(l)}
            = {FieldOf(LineAt(s, x)) :
                 x \in {y \in NamedLines(s, A) : LastOfName(s, A, y) /\ KeyOf(LineAt(s, y)) # KeyOf(l)}}
      BY <2>6 DEF FieldsAt
    <2> QED
      BY <1>3, <2>5, <2>7 DEF Adding
  <1> QED
    BY <1>2, <1>3

\* Between the end of the request line and the line at p the lines start
\* where a break ends.
LEMMA StartsAdd ==
  ASSUME NEW s \in Seq(Unit), NEW e \in Nat, NEW p \in Nat, p - 2 \in BreaksFrom(s, e),
         NEW q \in BreaksFrom(s, p), \A j \in BreaksFrom(s, p) : q <= j
  PROVE  /\ Starts(s, e, q + 2) = Starts(s, e, p) \cup {p}
         /\ Starts(s, e, p) \in SUBSET Nat /\ \A a \in Starts(s, e, p) : a < p
         /\ q \in BreaksFrom(s, e) /\ \A j \in BreaksFrom(s, e) : j < q => j <= p - 2
  <1>1. BreaksFrom(s, e) \in SUBSET Nat /\ q \in Nat /\ p <= q /\ Len(s) \in Nat
    BY BreakSets, LenProperties
  <1>2. p - 2 \in Nat /\ e <= p - 2 /\ e <= p
    BY <1>1, BreakSets
  <1>3. q \in BreaksFrom(s, e)
    BY <1>2, BreakSets
  <1>4. ASSUME NEW j \in BreaksFrom(s, e), j < q PROVE j <= p - 2
    <2>1. j \in Nat /\ (p - 2) + 1 \notin BreaksFrom(s, e)
      BY <1>1, BreaksApart
    <2>2. j # p - 1
      BY <1>2, <2>1
    <2>3. ~(p <= j)
      <3>1. p <= j => j \in BreaksFrom(s, p)
        BY BreakSets
      <3> QED
        BY <1>1, <1>4, <2>1, <3>1
    <2> QED
      BY <1>2, <2>1, <2>2, <2>3
  <1>5. {k \in BreaksFrom(s, e) : k < (q + 2) - 2} = {k \in BreaksFrom(s, e) : k < p - 2} \cup {p - 2}
    <2>1. \A k \in BreaksFrom(s, e) : k < (q + 2) - 2 <=> k < q
      BY <1>1
    <2>2. \A k \in BreaksFrom(s, e) : k < q <=> k < p - 2 \/ k = p - 2
      BY <1>1, <1>2, <1>4
    <2> QED
      BY <2>1, <2>2
  <1>6. Starts(s, e, q + 2) = Starts(s, e, p) \cup {p}
    <2>1. (p - 2) + 2 = p
      OBVIOUS
    <2> QED
      BY <1>5, <2>1 DEF Starts
  <1>7. \A j \in BreaksFrom(s, e) : j + 2 \in Nat /\ (j < p - 2 => j + 2 < p)
    BY <1>1
  <1> QED
    BY <1>3, <1>4, <1>6, <1>7 DEF Starts

\* So a line of the block adds its field,
LEMMA FieldsOfLine ==
  ASSUME NEW s \in Seq(Unit), NEW e \in Nat, NEW p \in Nat, p - 2 \in BreaksFrom(s, e),
         BreaksFrom(s, p) # {}
  PROVE  Fields(s, e, End(s, p) + 2) = Adding(Fields(s, e, p), LineAt(s, p))
  <1>1. End(s, p) \in BreaksFrom(s, p) /\ \A j \in BreaksFrom(s, p) : End(s, p) <= j
    BY EndOf
  <1>2. /\ Starts(s, e, End(s, p) + 2) = Starts(s, e, p) \cup {p}
        /\ Starts(s, e, p) \in SUBSET Nat /\ \A a \in Starts(s, e, p) : a < p
    BY <1>1, StartsAdd
  <1> QED
    BY <1>2, FieldsAdd, FieldsAre

\* there are none before the first,
LEMMA FieldsNone ==
  ASSUME NEW s \in Seq(Unit), NEW e \in Nat
  PROVE  Fields(s, e, e + 2) = {}
  <1>1. \A k \in BreaksFrom(s, e) : ~(k < (e + 2) - 2)
    BY BreakSets
  <1>2. Starts(s, e, e + 2) = {}
    BY <1>1 DEF Starts
  <1> QED
    BY <1>2, FieldsAre DEF FieldsAt, NamedLines

\* What lies before the end of s is the same in t.
LEMMA SameCut ==
  ASSUME NEW s \in Seq(Unit), NEW t \in Seq(Unit), Extends(t, s),
         NEW a \in Nat \ {0}, NEW e \in a .. Len(s) - 1
  PROVE  SubSeq(t, a, e - 1) = SubSeq(s, a, e - 1)
  <1>1. Len(s) \in Nat /\ Len(t) \in Nat /\ Len(s) <= Len(t) /\ \A k \in 1 .. Len(s) : t[k] = s[k]
    BY LenProperties DEF Extends
  <1> DEFINE z == e - 1
  <1>2. /\ z \in 0 .. Len(s) /\ z \in 0 .. Len(t) /\ a \in 1 .. Len(s) + 1 /\ a \in 1 .. Len(t) + 1
        /\ z \in Nat
    BY <1>1
  <1> HIDE DEF z
  <1>3. /\ SubSeq(s, a, z) \in Seq(Unit)
        /\ Len(SubSeq(s, a, z)) = IF a <= z THEN z - a + 1 ELSE 0
        /\ \A i \in 1 .. z - a + 1 : SubSeq(s, a, z)[i] = s[a + i - 1]
    BY <1>2, Cut
  <1>4. /\ SubSeq(t, a, z) \in Seq(Unit)
        /\ Len(SubSeq(t, a, z)) = IF a <= z THEN z - a + 1 ELSE 0
        /\ \A i \in 1 .. z - a + 1 : SubSeq(t, a, z)[i] = t[a + i - 1]
    BY <1>2, Cut
  <1>5. \A i \in 1 .. z - a + 1 : a + i - 1 \in 1 .. Len(s)
    BY <1>1, <1>2
  <1>6. \A i \in 1 .. z - a + 1 : t[a + i - 1] = s[a + i - 1]
    BY <1>1, <1>5
  <1>7. \A i \in 1 .. Len(SubSeq(s, a, z)) : i \in 1 .. z - a + 1
    BY <1>2, <1>3
  <1>8. SubSeq(t, a, z) = SubSeq(s, a, z)
    BY <1>3, <1>4, <1>6, <1>7, SeqEqual
  <1> QED
    BY <1>8 DEF z

\* and they remain what they are when more comes in.
LEMMA FieldsStay ==
  ASSUME NEW s \in Seq(Unit), NEW t \in Seq(Unit), Extends(t, s), NEW e \in Nat \ {0},
         NEW p \in Nat, p - 2 \in BreaksFrom(s, e)
  PROVE  Fields(t, e, p) = Fields(s, e, p)
  <1>0. Len(s) \in Nat /\ Len(t) \in Nat /\ Len(s) <= Len(t) /\ \A k \in 1 .. Len(s) : t[k] = s[k]
    BY LenProperties DEF Extends
  <1>1. BreaksFrom(s, e) = {j \in BreaksFrom(t, e) : j < Len(s)}
    BY BreaksStay
  <1>2. p - 2 \in Nat /\ p - 2 < Len(s) /\ e <= p - 2
    BY <1>0, BreakSets
  <1>3. Starts(t, e, p) = Starts(s, e, p)
    <2>1. \A j \in BreaksFrom(t, e) : j \in Nat
      BY BreakSets
    <2>2. {k \in BreaksFrom(t, e) : k < p - 2} = {k \in BreaksFrom(s, e) : k < p - 2}
      BY <1>0, <1>1, <1>2, <2>1
    <2> QED
      BY <2>2 DEF Starts
  <1>4. ASSUME NEW a \in Starts(s, e, p) PROVE LineAt(t, a) = LineAt(s, a)
    <2>1. PICK j \in BreaksFrom(s, e) : a = j + 2 /\ j < p - 2
      BY DEF Starts
    <2>2. j \in Nat /\ a \in Nat \ {0} /\ j + 1 \notin BreaksFrom(s, e)
      <3>1. j \in Nat
        BY BreakSets
      <3> QED
        BY <2>1, <3>1, BreaksApart
    <2>3. a <= p - 2
      BY <1>2, <2>1, <2>2
    <2>4. p - 2 \in BreaksFrom(s, a)
      BY <2>2, <2>3, BreakSets
    <2>5. /\ End(t, a) = End(s, a)
          /\ End(s, a) \in a .. Len(s) - 1
      BY <2>2, <2>4, EndStays, EndOf
    <2>6. SubSeq(t, a, End(s, a) - 1) = SubSeq(s, a, End(s, a) - 1)
      BY <2>2, <2>5, SameCut
    <2> QED
      BY <2>5, <2>6 DEF LineAt
  <1>5. NamedLines(t, Starts(s, e, p)) = NamedLines(s, Starts(s, e, p))
    BY <1>4 DEF NamedLines
  <1>6. \A x \in NamedLines(s, Starts(s, e, p)) :
          /\ LineAt(t, x) = LineAt(s, x)
          /\ LastOfName(t, Starts(s, e, p), x) <=> LastOfName(s, Starts(s, e, p), x)
    BY <1>4, <1>5 DEF NamedLines, LastOfName
  <1>7. FieldsAt(t, Starts(s, e, p)) = FieldsAt(s, Starts(s, e, p))
    BY <1>5, <1>6 DEF FieldsAt
  <1> QED
    BY <1>3, <1>7, FieldsAre

-----------------------------------------------------------------------------
(* The parser's header map is the fields with a ':' on every name.          *)

Kept(s) == {k \in DOMAIN s : s[k] \notin {CR, LF}}

\* A sequence that ends in no white space is trimmed on the left only.
LEMMA TrimLeft ==
  ASSUME NEW S, NEW s \in Seq(S), Len(s) \in Kept(s), NEW a \in Kept(s), \A j \in Kept(s) : a <= j
  PROVE  Trim(s) = SubSeq(s, a, Len(s))
  <1>1. Kept(s) \in SUBSET Nat /\ \A j \in Kept(s) : Len(s) >= j
    BY LenProperties DEF Kept
  <1>2. (CHOOSE k \in Kept(s) : \A j \in Kept(s) : k <= j) = a
    <2>1. \A k \in Kept(s) : (\A j \in Kept(s) : k <= j) => k = a
      BY <1>1
    <2> QED
      BY <2>1
  <1>3. (CHOOSE k \in Kept(s) : \A j \in Kept(s) : k >= j) = Len(s)
    <2>1. \A k \in Kept(s) : (\A j \in Kept(s) : k >= j) => k = Len(s)
      BY <1>1
    <2> QED
      BY <1>1, <2>1
  <1> QED
    BY <1>2, <1>3 DEF Trim, Kept

\* One more token.
LEMMA OneMore ==
  ASSUME NEW S, NEW x \in Seq(S), NEW d \in S
  PROVE  /\ x \o <<d>> \in Seq(S) /\ Len(x \o <<d>>) = Len(x) + 1 /\ Len(x) \in Nat
         /\ \A k \in 1 .. Len(x) : (x \o <<d>>)[k] = x[k]
         /\ (x \o <<d>>)[Len(x) + 1] = d
  <1> DEFINE w == <<d>>
  <1>1. w \in Seq(S) /\ Len(w) = 1 /\ w[1] = d
    OBVIOUS
  <1> HIDE DEF w
  <1>2. Len(x) \in Nat
    BY LenProperties
  <1>3. /\ x \o w \in Seq(S)
        /\ Len(x \o w) = Len(x) + Len(w)
        /\ \A i \in 1 .. Len(x) + Len(w) :
             (x \o w)[i] = IF i <= Len(x) THEN x[i] ELSE w[i - Len(x)]
    BY <1>1, ConcatProperties
  <1>4. \A k \in 1 .. Len(x) : (x \o w)[k] = x[k]
    BY <1>1, <1>2, <1>3
  <1>5. (x \o w)[Len(x) + 1] = w[(Len(x) + 1) - Len(x)]
    BY <1>1, <1>2, <1>3
  <1>6. (x \o w)[Len(x) + 1] = d
    BY <1>1, <1>2, <1>5
  <1> QED
    BY <1>1, <1>2, <1>3, <1>4, <1>6 DEF w

\* A ':' behind a name stays behind it.
LEMMA TrimBeforeColon ==
  ASSUME NEW u \in Seq(Token), u # <<>>, u[Len(u)] \notin {CR, LF}
  PROVE  Trim(u \o <<":">>) = Trim(u) \o <<":">>
  <1> DEFINE v == u \o <<":">>
             L == Len(u)
  <1>1. ":" \in Token /\ ":" \notin {CR, LF}
    BY Constants
  <1>2. /\ v \in Seq(Token) /\ Len(v) = L + 1 /\ L \in Nat
        /\ \A k \in 1 .. L : v[k] = u[k]
        /\ v[L + 1] = ":"
    BY <1>1, OneMore
  <1>3. DOMAIN u = 1 .. L /\ DOMAIN v = 1 .. L + 1 /\ L # 0
    BY <1>2, LenProperties, EmptySeq
  <1> HIDE DEF v
  <1>4. L \in Kept(u)
    BY <1>2, <1>3 DEF Kept
  <1>5. Kept(v) = Kept(u) \cup {L + 1}
    BY <1>1, <1>2, <1>3 DEF Kept
  <1>6. Kept(u) \in SUBSET Nat /\ \A j \in Kept(u) : j <= L
    BY <1>2, <1>3 DEF Kept
  <1>7. PICK a \in Kept(u) : \A j \in Kept(u) : a <= j
    BY <1>4, <1>6, NatMin
  <1>8. Trim(u) = SubSeq(u, a, L)
    BY <1>4, <1>7, TrimLeft
  <1>9. Trim(v) = SubSeq(v, a, L + 1)
    <2>1. Len(v) \in Kept(v) /\ a \in Kept(v)
      BY <1>2, <1>5
    <2>2. \A j \in Kept(v) : a <= j
      BY <1>2, <1>5, <1>6, <1>7
    <2>3. Trim(v) = SubSeq(v, a, Len(v))
      BY <1>2, <2>1, <2>2, TrimLeft
    <2> QED
      BY <1>2, <2>3
  <1>10. a \in 1 .. L /\ a \in Nat
    BY <1>3, <1>6 DEF Kept
  <1>11. /\ SubSeq(u, a, L) \in Seq(Token) /\ Len(SubSeq(u, a, L)) = L - a + 1
         /\ \A i \in 1 .. L - a + 1 : SubSeq(u, a, L)[i] = u[a + i - 1]
    <2>1. a \in 1 .. Len(u) + 1 /\ L \in 0 .. Len(u) /\ a <= L
      BY <1>2, <1>10
    <2> QED
      BY <2>1, Cut
  <1>12. /\ SubSeq(v, a, L + 1) \in Seq(Token) /\ Len(SubSeq(v, a, L + 1)) = L - a + 2
         /\ \A i \in 1 .. L - a + 2 : SubSeq(v, a, L + 1)[i] = v[a + i - 1]
    <2>1. a \in 1 .. Len(v) + 1 /\ L + 1 \in 0 .. Len(v) /\ a <= L + 1 /\ (L + 1) - a + 1 = L - a + 2
      BY <1>2, <1>10
    <2> QED
      BY <1>2, <2>1, Cut
  <1> DEFINE x == SubSeq(u, a, L)
             y == SubSeq(v, a, L + 1)
  <1> HIDE DEF x, y, L
  <1>13. x \in Seq(Token)
    BY <1>11 DEF x
  <1>14. /\ x \o <<":">> \in Seq(Token) /\ Len(x \o <<":">>) = Len(x) + 1
         /\ \A k \in 1 .. Len(x) : (x \o <<":">>)[k] = x[k]
         /\ (x \o <<":">>)[Len(x) + 1] = ":"
    BY <1>1, <1>13, OneMore
  <1>15. Len(y) = Len(x \o <<":">>)
    BY <1>2, <1>10, <1>11, <1>12, <1>14 DEF x, y
  <1>16. ASSUME NEW k \in 1 .. Len(y) PROVE y[k] = (x \o <<":">>)[k]
    <2>1. y[k] = v[a + k - 1] /\ k \in 1 .. L - a + 2
      BY <1>12 DEF y
    <2>2. CASE k = L - a + 2
      BY <1>2, <1>10, <1>11, <1>14, <2>1, <2>2 DEF x
    <2>3. CASE k # L - a + 2
      <3>1. k \in 1 .. L - a + 1 /\ a + k - 1 \in 1 .. L
        BY <1>2, <1>10, <2>1, <2>3
      <3> QED
        BY <1>2, <1>11, <1>14, <2>1, <3>1 DEF x
    <2> QED
      BY <2>2, <2>3
  <1>17. y = x \o <<":">>
    BY <1>12, <1>14, <1>15, <1>16, SeqEqual DEF y
  <1> QED
    BY <1>8, <1>9, <1>17 DEF v, x, y

LEMMA TwoMore ==
  ASSUME NEW S, NEW x \in Seq(S), NEW n \in S, NEW d \in S
  PROVE  (x \o <<n>>) \o <<d>> = x \o <<n, d>>
  <1> DEFINE w == <<n, d>>
             y == x \o <<n>>
  <1>1. w \in Seq(S) /\ Len(w) = 2 /\ w[1] = n /\ w[2] = d
    OBVIOUS
  <1>2. /\ y \in Seq(S) /\ Len(y) = Len(x) + 1 /\ Len(x) \in Nat
        /\ \A k \in 1 .. Len(x) : y[k] = x[k]
        /\ y[Len(x) + 1] = n
    BY OneMore
  <1> HIDE DEF w, y
  <1>3. /\ y \o <<d>> \in Seq(S) /\ Len(y \o <<d>>) = Len(y) + 1
        /\ \A k \in 1 .. Len(y) : (y \o <<d>>)[k] = y[k]
        /\ (y \o <<d>>)[Len(y) + 1] = d
    BY <1>2, OneMore
  <1>4. /\ x \o w \in Seq(S)
        /\ Len(x \o w) = Len(x) + Len(w)
        /\ \A i \in 1 .. Len(x) + Len(w) :
             (x \o w)[i] = IF i <= Len(x) THEN x[i] ELSE w[i - Len(x)]
    BY <1>1, ConcatProperties
  <1>5. ASSUME NEW k \in 1 .. Len(x) + 2 PROVE (y \o <<d>>)[k] = (x \o w)[k]
    <2>1. CASE k <= Len(x)
      <3>1. k \in 1 .. Len(x) /\ k \in 1 .. Len(y) /\ k \in 1 .. Len(x) + Len(w)
        BY <1>1, <1>2, <2>1
      <3> QED
        BY <1>2, <1>3, <1>4, <2>1, <3>1
    <2>2. CASE k = Len(x) + 1
      <3>1. k \in 1 .. Len(y) /\ k \in 1 .. Len(x) + Len(w) /\ ~(k <= Len(x)) /\ k - Len(x) = 1
        BY <1>1, <1>2, <2>2
      <3>2. (y \o <<d>>)[k] = n
        BY <1>2, <1>3, <2>2, <3>1
      <3>3. (x \o w)[k] = w[1]
        BY <1>4, <3>1
      <3> QED
        BY <1>1, <3>2, <3>3
    <2>3. CASE k = Len(x) + 2
      <3>1. k = Len(y) + 1 /\ k \in 1 .. Len(x) + Len(w) /\ ~(k <= Len(x)) /\ k - Len(x) = 2
        BY <1>1, <1>2, <2>3
      <3>2. (y \o <<d>>)[k] = d
        BY <1>3, <3>1
      <3>3. (x \o w)[k] = w[2]
        BY <1>4, <3>1
      <3> QED
        BY <1>1, <3>2, <3>3
    <2>4. k <= Len(x) \/ k = Len(x) + 1 \/ k = Len(x) + 2
      BY <1>2
    <2> QED
      BY <2>1, <2>2, <2>3, <2>4, Zenon
  <1>6. Len(y \o <<d>>) = Len(x) + 2 /\ Len(x \o w) = Len(x) + 2
    BY <1>1, <1>2, <1>3, <1>4
  <1>7. y \o <<d>> = x \o w
    BY <1>3, <1>4, <1>5, <1>6, SeqEqual
  <1> QED
    BY <1>7 DEF w, y

\* The keys the session stores for a set of fields.
WithColon(f) == [key |-> f.name \o <<":">>, val |-> f.val]

Stored(F) == {WithColon(f) : f \in F}

Field == [name : Seq(Token), val : Seq(Unit)]

\* Cutting the ':' off again gives the fields back.
LEMMA StoredSeen ==
  ASSUME NEW F \in SUBSET Field
  PROVE  {[name |-> SubSeq(h.key, 1, Len(h.key) - 1), val |-> h.val] : h \in Stored(F)} = F
  <1>1. ASSUME NEW f \in Field
        PROVE  [name |-> SubSeq(WithColon(f).key, 1, Len(WithColon(f).key) - 1),
                val |-> WithColon(f).val] = f
    <2> DEFINE x == f.name
               v == x \o <<":">>
    <2>1. x \in Seq(Token) /\ ":" \in Token /\ f = [name |-> f.name, val |-> f.val]
      BY Constants DEF Field
    <2>2. WithColon(f).key = v /\ WithColon(f).val = f.val
      BY DEF WithColon
    <2> HIDE DEF x
    <2>3. /\ v \in Seq(Token) /\ Len(v) = Len(x) + 1 /\ Len(x) \in Nat
          /\ \A k \in 1 .. Len(x) : v[k] = x[k]
      BY <2>1, OneMore
    <2> HIDE DEF v
    <2>4. 1 \in 1 .. Len(v) + 1 /\ Len(x) \in 0 .. Len(v) /\ Len(v) - 1 = Len(x)
      BY <2>3
    <2>5. /\ SubSeq(v, 1, Len(x)) \in Seq(Token)
          /\ Len(SubSeq(v, 1, Len(x))) = IF 1 <= Len(x) THEN Len(x) - 1 + 1 ELSE 0
          /\ \A i \in 1 .. Len(x) - 1 + 1 : SubSeq(v, 1, Len(x))[i] = v[1 + i - 1]
      BY <2>3, <2>4, Cut
    <2>6. /\ Len(SubSeq(v, 1, Len(x))) = Len(x)
          /\ \A i \in 1 .. Len(x) : SubSeq(v, 1, Len(x))[i] = x[i]
      BY <2>3, <2>5
    <2>7. SubSeq(v, 1, Len(x)) = x
      BY <2>1, <2>5, <2>6, SeqEqual
    <2> QED
      BY <2>1, <2>2, <2>4, <2>7 DEF x
  <1>2. \A f \in F : f \in Field
    OBVIOUS
  <1> QED
    BY <1>1, <1>2 DEF Stored

LEMMA FieldOfType ==
  ASSUME NEW l \in Seq(Unit), Colons(l) # {}
  PROVE  /\ FieldOf(l) \in Field
         /\ Min(Colons(l)) \in 1 .. Len(l) /\ l[Min(Colons(l))] \in HeaderText
  <1>1. Len(l) \in Nat /\ DOMAIN l = 1 .. Len(l)
    BY LenProperties
  <1>2. Colons(l) \in SUBSET Nat
    BY <1>1 DEF Colons
  <1>3. Min(Colons(l)) \in Colons(l)
    BY <1>2, MinOf
  <1>4. Min(Colons(l)) \in 1 .. Len(l) /\ l[Min(Colons(l))] \in HeaderText
    BY <1>1, <1>3 DEF Colons
  <1> DEFINE k == Min(Colons(l))
  <1> HIDE DEF k
  <1>5. k \in 1 .. Len(l) /\ l[k] \in HeaderText
    BY <1>4 DEF k
  <1>6. SubSeq(l, k, Len(l)) \in Seq(Unit)
    <2>1. k \in 1 .. Len(l) + 1 /\ Len(l) \in 0 .. Len(l)
      BY <1>1, <1>5
    <2> QED
      BY <2>1, Cut
  <1>7. SubSeq(l, 1, k - 1) \in Seq(Token)
    <2>1. 1 \in 1 .. Len(l) + 1 /\ k - 1 \in 0 .. Len(l)
      BY <1>1, <1>5
    <2>2. SubSeq(l, 1, k - 1) \in Seq(Unit)
      BY <2>1, Cut
    <2> QED
      BY <2>2, Constants, SeqMonotonic
  <1>8. Name[l[k]] \in Token
    BY <1>5, Constants
  <1>9. SubSeq(l, 1, k - 1) \o <<Name[l[k]]>> \in Seq(Token)
    BY <1>7, <1>8, OneMore
  <1>10. Trim(SubSeq(l, k, Len(l))) \in Seq(Unit)
    BY <1>6, TrimProperties
  <1>11. Trim(SubSeq(l, 1, k - 1) \o <<Name[l[k]]>>) \in Seq(Token)
    BY <1>9, TrimProperties
  <1>12. KeyOf(l) \in Seq(Token) /\ ValOf(l) \in Seq(Unit)
    BY <1>10, <1>11 DEF KeyOf, ValOf, k
  <1> QED
    BY <1>4, <1>12 DEF FieldOf, Field

\* Storing a header line adds its field.
LEMMA StoreHeaderStored ==
  ASSUME NEW F \in SUBSET Field, NEW l \in Seq(Unit)
  PROVE  /\ StoreHeader(Stored(F), l) = Stored(Adding(F, l))
         /\ Adding(F, l) \in SUBSET Field
  <1>1. Len(l) \in Nat /\ DOMAIN l = 1 .. Len(l)
    BY LenProperties
  <1>2. Colons(l) = {k \in 1 .. Len(l) : l[k] \in HeaderText}
    BY <1>1 DEF Colons
  <1>3. CASE Colons(l) = {}
    BY <1>2, <1>3 DEF StoreHeader, Adding
  <1>4. CASE Colons(l) # {}
    <2> DEFINE k   == Min(Colons(l))
               key == Trim(SubSeq(l, 1, k - 1) \o <<Name[l[k]], ":">>)
               u   == SubSeq(l, 1, k - 1) \o <<Name[l[k]]>>
    <2>1. (CHOOSE m \in Colons(l) : \A j \in Colons(l) : m <= j) = k
      BY DEF Min
    <2>2. StoreHeader(Stored(F), l)
            = {h \in Stored(F) : h.key # key} \cup {[key |-> key, val |-> ValOf(l)]}
      BY <1>2, <1>4, <2>1 DEF StoreHeader, ValOf
    <2>3. FieldOf(l) \in Field /\ k \in 1 .. Len(l) /\ l[k] \in HeaderText
      BY <1>4, FieldOfType
    <2>4. KeyOf(l) = Trim(u)
      BY DEF KeyOf
    <2> HIDE DEF k
    <2>5. SubSeq(l, 1, k - 1) \in Seq(Token)
      <3>1. 1 \in 1 .. Len(l) + 1 /\ k - 1 \in 0 .. Len(l)
        BY <1>1, <2>3
      <3>2. SubSeq(l, 1, k - 1) \in Seq(Unit)
        BY <3>1, Cut
      <3> QED
        BY <3>2, Constants, SeqMonotonic
    <2>6. Name[l[k]] \in Token /\ Name[l[k]] \notin {CR, LF}
      BY <2>3, Constants
    <2> DEFINE x == SubSeq(l, 1, k - 1)
               n == Name[l[k]]
    <2> HIDE DEF x, n
    <2>7. /\ x \o <<n>> \in Seq(Token) /\ Len(x \o <<n>>) = Len(x) + 1 /\ Len(x) \in Nat
          /\ (x \o <<n>>)[Len(x) + 1] = n
      BY <2>5, <2>6, OneMore DEF x, n
    <2>8. x \o <<n>> # <<>>
      BY <2>7, EmptySeq
    <2>9. Trim((x \o <<n>>) \o <<":">>) = Trim(x \o <<n>>) \o <<":">>
      BY <2>6, <2>7, <2>8, TrimBeforeColon DEF n
    <2>10. (x \o <<n>>) \o <<":">> = x \o <<n, ":">>
      <3>1. n \in Token /\ ":" \in Token /\ x \in Seq(Token)
        BY <2>5, <2>6, Constants DEF n, x
      <3> QED
        BY <3>1, TwoMore
    <2>11. key = KeyOf(l) \o <<":">>
      <3>1. key = Trim(x \o <<n, ":">>) /\ KeyOf(l) = Trim(x \o <<n>>)
        BY <2>4 DEF x, n
      <3> QED
        BY <2>9, <2>10, <3>1
    <2>12. KeyOf(l) \in Seq(Token) /\ <<":">> \in Seq(Token)
      BY <2>3, Constants DEF FieldOf, Field
    <2>13. \A f \in F : f.name \in Seq(Token) /\ (f.name \o <<":">> = KeyOf(l) \o <<":">> => f.name = KeyOf(l))
      <3>1. \A f \in F : f.name \in Seq(Token)
        BY DEF Field
      <3> QED
        BY <2>12, <3>1, ConcatSimplifications
    <2>14. {h \in Stored(F) : h.key # key} = Stored({f \in F : f.name # KeyOf(l)})
      <3>1. \A f \in F : WithColon(f).key # key <=> f.name # KeyOf(l)
        BY <2>11, <2>13 DEF WithColon
      <3> QED
        BY <3>1 DEF Stored
    <2>15. [key |-> key, val |-> ValOf(l)] = WithColon(FieldOf(l))
      BY <2>11 DEF WithColon, FieldOf
    <2>16. Adding(F, l) = {f \in F : f.name # KeyOf(l)} \cup {FieldOf(l)}
      BY <1>4 DEF Adding
    <2>17. Stored(Adding(F, l)) = Stored({f \in F : f.name # KeyOf(l)}) \cup {WithColon(FieldOf(l))}
      BY <2>16 DEF Stored
    <2>18. Adding(F, l) \in SUBSET Field
      BY <2>3, <2>16
    <2> QED
      BY <2>2, <2>14, <2>15, <2>17, <2>18
  <1> QED
    BY <1>3, <1>4

-----------------------------------------------------------------------------
(* The window as a part of the stream.                                      *)

\* The position in the stream of the cell at read_idx.
Pos == Len(received) - (write_idx - read_idx) + 1

\* parse finds the line breaks of the stream, and takes its lines.
LEMMA WindowBreaks ==
  ASSUME IInv
  PROVE  /\ Pos \in 1 .. Len(received) + 1
         /\ \A j : j \in BreaksFrom(received, Pos) <=> j - Pos + read_idx \in Crlfs /\ j \in Nat
         /\ \A p \in Crlfs : Pos + (p - read_idx) \in BreaksFrom(received, Pos)
  <1>1. /\ read_idx \in Nat /\ write_idx \in Nat /\ received \in Seq(Unit) /\ Len(received) \in Nat
        /\ read_idx <= write_idx /\ write_idx - read_idx <= Len(received)
        /\ \A i \in read_idx .. write_idx - 1 : buffer[i] = received[Len(received) - write_idx + i + 1]
    BY LenProperties DEF IInv, TypeOK, IndicesInBuffer, WindowIsStreamTail
  <1> DEFINE L == Len(received)
             w == write_idx
             r == read_idx
             P == L - (w - r) + 1
  <1>2. Pos = P /\ P \in 1 .. L + 1 /\ P \in Nat
    BY <1>1 DEF Pos
  <1>3. ASSUME NEW p \in Int
        PROVE  /\ p \in r .. w - 2 <=> P + (p - r) \in P .. L - 1
               /\ p \in r .. w - 2 => /\ buffer[p] = received[P + (p - r)]
                                      /\ buffer[p + 1] = received[P + (p - r) + 1]
    <2>1. p \in r .. w - 2 <=> P + (p - r) \in P .. L - 1
      BY <1>1, <1>2
    <2>2. ASSUME p \in r .. w - 2
          PROVE  /\ buffer[p] = received[P + (p - r)]
                 /\ buffer[p + 1] = received[P + (p - r) + 1]
      <3>1. /\ p \in r .. w - 1 /\ L - w + p + 1 = P + (p - r)
            /\ p + 1 \in r .. w - 1 /\ L - w + (p + 1) + 1 = P + (p - r) + 1
        BY <1>1, <2>2
      <3>2. /\ buffer[p] = received[L - w + p + 1]
            /\ buffer[p + 1] = received[L - w + (p + 1) + 1]
        BY <1>1, <3>1
      <3> QED
        BY <3>1, <3>2
    <2> QED
      BY <2>1, <2>2
  <1>4. ASSUME NEW p \in Int
        PROVE  p \in Crlfs <=> P + (p - r) \in BreaksFrom(received, P)
    BY <1>3, <1>4 DEF Crlfs, BreaksFrom
  <1>5. \A p \in Crlfs : p \in Int
    BY <1>1 DEF Crlfs
  <1>6. \A j \in BreaksFrom(received, P) : j \in Nat
    BY <1>1, <1>2 DEF BreaksFrom
  <1> HIDE DEF P
  <1>7. ASSUME NEW j
        PROVE  j \in BreaksFrom(received, P) <=> j - P + r \in Crlfs /\ j \in Nat
    <2>1. CASE j \in Nat
      <3>1. j - P + r \in Int /\ P + ((j - P + r) - r) = j
        BY <1>1, <1>2, <2>1
      <3> QED
        BY <1>4, <2>1, <3>1
    <2> QED
      BY <1>6, <2>1
  <1> QED
    BY <1>2, <1>4, <1>5, <1>7

LEMMA FirstBreak ==
  ASSUME IInv
  PROVE  /\ Crlfs = {} => BreaksFrom(received, Pos) = {}
         /\ \A p \in Crlfs : FirstCrlf(p) =>
              /\ BreaksFrom(received, Pos) # {}
              /\ End(received, Pos) = Pos + (p - read_idx)
              /\ View(p - read_idx) = LineAt(received, Pos)
  <1>1. /\ read_idx \in Nat /\ write_idx \in Nat /\ received \in Seq(Unit) /\ Len(received) \in Nat
        /\ read_idx <= write_idx /\ write_idx - read_idx <= Len(received)
        /\ \A i \in read_idx .. write_idx - 1 : buffer[i] = received[Len(received) - write_idx + i + 1]
    BY LenProperties DEF IInv, TypeOK, IndicesInBuffer, WindowIsStreamTail
  <1>2. Pos \in 1 .. Len(received) + 1 /\ Pos \in Nat /\ BreaksFrom(received, Pos) \in SUBSET Nat
    <2>1. Pos \in 1 .. Len(received) + 1
      BY WindowBreaks
    <2>2. Pos \in Nat
      BY <1>1, <2>1
    <2> QED
      BY <1>1, <2>1, <2>2, BreakSets
  <1>3. Crlfs = {} => BreaksFrom(received, Pos) = {}
    BY WindowBreaks
  <1>4. ASSUME NEW p \in Crlfs, FirstCrlf(p)
        PROVE  /\ BreaksFrom(received, Pos) # {}
               /\ End(received, Pos) = Pos + (p - read_idx)
               /\ View(p - read_idx) = LineAt(received, Pos)
    <2>1. Pos + (p - read_idx) \in BreaksFrom(received, Pos)
      BY WindowBreaks
    <2>2. p \in read_idx .. write_idx - 2
      BY DEF Crlfs
    <2>3. ASSUME NEW j \in BreaksFrom(received, Pos) PROVE Pos + (p - read_idx) <= j
      <3>1. j - Pos + read_idx \in Crlfs /\ j \in Nat
        BY WindowBreaks
      <3>2. p <= j - Pos + read_idx
        BY <1>4, <3>1 DEF FirstCrlf
      <3> QED
        BY <1>1, <1>2, <2>2, <3>1, <3>2
    <2>4. End(received, Pos) = Pos + (p - read_idx)
      BY <1>2, <2>1, <2>3, MinIs DEF End
    <2> DEFINE n == p - read_idx
    <2>5. n \in Nat /\ n \in 0 .. write_idx - read_idx /\ Pos + n - 1 \in 0 .. Len(received)
      BY <1>1, <1>2, <2>2 DEF Pos
    <2>6. View(n) \in Seq(Unit)
      BY <2>5, ViewType DEF IInv
    <2>7. /\ SubSeq(received, Pos, Pos + n - 1) \in Seq(Unit)
          /\ Len(SubSeq(received, Pos, Pos + n - 1)) =
               IF Pos <= Pos + n - 1 THEN (Pos + n - 1) - Pos + 1 ELSE 0
          /\ \A i \in 1 .. (Pos + n - 1) - Pos + 1 :
               SubSeq(received, Pos, Pos + n - 1)[i] = received[Pos + i - 1]
      <3> DEFINE z == Pos + n - 1
      <3>1. z \in 0 .. Len(received)
        BY <2>5
      <3> HIDE DEF z
      <3>2. /\ SubSeq(received, Pos, z) \in Seq(Unit)
            /\ Len(SubSeq(received, Pos, z)) = IF Pos <= z THEN z - Pos + 1 ELSE 0
            /\ \A i \in 1 .. z - Pos + 1 : SubSeq(received, Pos, z)[i] = received[Pos + i - 1]
        BY <1>1, <1>2, <3>1, Cut
      <3> QED
        BY <3>2 DEF z
    <2>8. (Pos + n - 1) - Pos + 1 = n /\ (Pos <= Pos + n - 1 <=> n # 0)
      BY <1>2, <2>5
    <2>9. Len(View(n)) = n /\ \A i \in 1 .. n : View(n)[i] = buffer[read_idx + i - 1]
      BY <2>5 DEF View
    <2>10. ASSUME NEW i \in 1 .. n
           PROVE  buffer[read_idx + i - 1] = received[Pos + i - 1]
      <3>1. /\ read_idx + i - 1 \in read_idx .. write_idx - 1
            /\ Len(received) - write_idx + (read_idx + i - 1) + 1 = Pos + i - 1
        BY <1>1, <2>5 DEF Pos
      <3> QED
        BY <1>1, <3>1
    <2> HIDE DEF n
    <2>11. Len(SubSeq(received, Pos, Pos + n - 1)) = n
      BY <2>5, <2>7, <2>8
    <2>12. View(n) = SubSeq(received, Pos, Pos + n - 1)
      BY <2>6, <2>7, <2>8, <2>9, <2>10, <2>11, SeqEqual
    <2>13. LineAt(received, Pos) = SubSeq(received, Pos, Pos + n - 1)
      <3>1. End(received, Pos) - 1 = Pos + n - 1
        BY <1>1, <1>2, <2>2, <2>4 DEF n
      <3>2. LineAt(received, Pos) = SubSeq(received, Pos, End(received, Pos) - 1)
        BY DEF LineAt
      <3> QED
        BY <3>1, <3>2
    <2>14. View(n) = LineAt(received, Pos)
      BY <2>12, <2>13
    <2>15. View(p - read_idx) = LineAt(received, Pos)
      BY <2>14 DEF n
    <2> QED
      BY <2>1, <2>4, <2>15
  <1> QED
    BY <1>3, <1>4

-----------------------------------------------------------------------------
(* The second inductive invariant.  The requests handed out are the first   *)
(* messages of the stream, each starting where the one before it ends, and  *)
(* the parser is in the message that starts where the last of them ends:    *)
(* before its line, or behind a line break of its header block with the     *)
(* fields up to there stored and no empty line passed.  Between two reads   *)
(* the window holds no line break.                                          *)

\* The message that starts at i, and where it ends: its body has length 0.
Stop(s, i) == Blank(s, i) + 2 + 0

Message(s, i) ==
  [line   |-> SubSeq(s, i, End(s, i) - 1),
   fields |-> Fields(s, End(s, i), Blank(s, i)),
   body   |-> SubSeq(s, Blank(s, i) + 2, Stop(s, i) - 1)]

\* m[k] is where the k-th message starts.
Framed(m, s, reqs) ==
  /\ m \in [1 .. Len(reqs) + 1 -> Nat \ {0}]
  /\ m[1] = 1
  /\ \A k \in 1 .. Len(reqs) :
       /\ Whole(s, m[k])
       /\ m[k + 1] = Blank(s, m[k]) + 2
       /\ Seen(reqs[k]) = Message(s, m[k])

\* The parser stands at p with req under construction in state st, in the
\* message that starts at i.
InLine(i, s, p, st, req) ==
  /\ st = "REQUEST_LINE"
  /\ p = i
  /\ req = EmptyRequest

InBlock(i, s, p, st, req) ==
  /\ st = "HEADERS"
  /\ BreaksFrom(s, i) # {}
  /\ p - 2 \in BreaksFrom(s, End(s, i))
  /\ \A b \in BlanksFrom(s, End(s, i)) : p <= b
  /\ req.line = SubSeq(s, i, End(s, i) - 1)
  /\ Fields(s, End(s, i), p) \in SUBSET Field
  /\ req.headers = Stored(Fields(s, End(s, i), p))

Within(i, s, p, st, req) == InLine(i, s, p, st, req) \/ InBlock(i, s, p, st, req)

Frames(s, reqs, p, st, req) ==
  \E m : Framed(m, s, reqs) /\ Within(m[Len(reqs) + 1], s, p, st, req)

FramesInv ==
  /\ Frames(received, requests, Pos, state, request)
  /\ pc = "recv" => BreaksFrom(received, Pos) = {}

LEMMA InitFrames == Init => FramesInv
  <1> SUFFICES ASSUME Init PROVE FramesInv
    OBVIOUS
  <1>1. Len(received) = 0 /\ Len(requests) = 0 /\ Pos = 1
    BY EmptySeq DEF Init, Pos
  <1> DEFINE m == [k \in 1 .. 1 |-> 1]
  <1>2. m \in [1 .. 1 -> Nat \ {0}] /\ m[1] = 1
    OBVIOUS
  <1> HIDE DEF m
  <1>3. Framed(m, received, requests)
    BY <1>1, <1>2 DEF Framed
  <1>4. Within(m[Len(requests) + 1], received, Pos, state, request)
    BY <1>1, <1>2 DEF Within, InLine, Init
  <1>5. BreaksFrom(received, Pos) = {}
    BY <1>1 DEF BreaksFrom
  <1> QED
    BY <1>3, <1>4, <1>5 DEF FramesInv, Frames

\* More bytes change neither the messages nor the parser's place.
LEMMA MessageStays ==
  ASSUME NEW s \in Seq(Unit), NEW t \in Seq(Unit), Extends(t, s), NEW i \in Nat \ {0}, Whole(s, i)
  PROVE  Message(t, i) = Message(s, i)
  <1>1. Blank(t, i) = Blank(s, i) /\ End(t, i) = End(s, i)
    BY BlankStays
  <1>2. End(s, i) \in i .. Len(s) - 1 /\ End(s, i) \in BreaksFrom(s, i)
    BY EndOf DEF Whole
  <1>3. Len(s) \in Nat /\ Len(t) \in Nat /\ Len(s) <= Len(t) /\ End(s, i) \in Nat \ {0}
    BY <1>2, LenProperties DEF Extends
  <1>4. /\ Blank(s, i) \in End(s, i) + 2 .. Len(s) - 1
        /\ Blank(s, i) - 2 \in BreaksFrom(s, End(s, i))
    BY BlankOf
  <1>5. Fields(t, End(s, i), Blank(s, i)) = Fields(s, End(s, i), Blank(s, i))
    BY <1>3, <1>4, FieldsStay
  <1>6. SubSeq(t, i, End(s, i) - 1) = SubSeq(s, i, End(s, i) - 1)
    BY <1>2, SameCut
  <1>7. /\ SubSeq(t, Blank(s, i) + 2, Stop(s, i) - 1) = <<>>
        /\ SubSeq(s, Blank(s, i) + 2, Stop(s, i) - 1) = <<>>
    <2>1. Blank(s, i) + 2 \in Int /\ Stop(s, i) - 1 \in Int /\ Stop(s, i) - 1 < Blank(s, i) + 2
      BY <1>3, <1>4 DEF Stop
    <2> QED
      BY <2>1, SubSeqEmpty
  <1> QED
    BY <1>1, <1>5, <1>6, <1>7 DEF Message, Stop

LEMMA WithinStays ==
  ASSUME NEW s \in Seq(Unit), NEW t \in Seq(Unit), Extends(t, s), NEW i \in Nat \ {0},
         NEW p \in 1 .. Len(s) + 1, NEW st, NEW req, Within(i, s, p, st, req)
  PROVE  Within(i, t, p, st, req)
  <1>1. CASE InLine(i, s, p, st, req)
    BY <1>1 DEF Within, InLine
  <1>2. CASE InBlock(i, s, p, st, req)
    <2>1. /\ st = "HEADERS"
          /\ BreaksFrom(s, i) # {}
          /\ p - 2 \in BreaksFrom(s, End(s, i))
          /\ \A b \in BlanksFrom(s, End(s, i)) : p <= b
          /\ req.line = SubSeq(s, i, End(s, i) - 1)
          /\ Fields(s, End(s, i), p) \in SUBSET Field
          /\ req.headers = Stored(Fields(s, End(s, i), p))
      BY <1>2 DEF InBlock
    <2>2. BreaksFrom(t, i) # {} /\ End(t, i) = End(s, i)
      BY <2>1, EndStays
    <2>3. Len(s) \in Nat /\ End(s, i) \in i .. Len(s) - 1
      BY <2>1, EndOf, LenProperties
    <2>4. End(s, i) \in Nat \ {0} /\ p \in Nat
      BY <2>3
    <2> DEFINE e == End(s, i)
    <2> HIDE DEF e
    <2>5. BlanksFrom(s, e) = {j \in BlanksFrom(t, e) : j < Len(s)}
          /\ BreaksFrom(s, e) = {j \in BreaksFrom(t, e) : j < Len(s)}
      BY <2>4, BreaksStay DEF e
    <2>6. p - 2 \in BreaksFrom(t, e)
      BY <2>1, <2>5 DEF e
    <2>7. (p - 2) + 1 \notin BreaksFrom(t, e)
      BY <2>4, <2>6, BreaksApart DEF e
    <2>8. ASSUME NEW b \in BlanksFrom(t, e) PROVE p <= b
      <3>1. b \in BreaksFrom(t, e) /\ b \in Nat
        BY <2>4, BreakSets DEF e
      <3>2. CASE b < Len(s)
        BY <2>1, <2>5, <3>2 DEF e
      <3>3. CASE ~(b < Len(s))
        <4>1. (p - 2) + 1 = p - 1 /\ b # p - 1
          BY <2>4, <2>7, <3>1
        <4> QED
          BY <2>3, <2>4, <3>1, <3>3, <4>1
      <3> QED
        BY <3>2, <3>3
    <2>9. SubSeq(t, i, e - 1) = SubSeq(s, i, e - 1)
      BY <2>3, SameCut DEF e
    <2>10. Fields(t, e, p) = Fields(s, e, p)
      BY <2>1, <2>4, FieldsStay DEF e
    <2>11. InBlock(i, t, p, st, req)
      BY <2>1, <2>2, <2>6, <2>8, <2>9, <2>10 DEF InBlock, e
    <2> QED
      BY <2>11 DEF Within
  <1> QED
    BY <1>1, <1>2 DEF Within

LEMMA FramesStay ==
  ASSUME NEW s \in Seq(Unit), NEW t \in Seq(Unit), Extends(t, s), NEW reqs \in Seq(Request),
         NEW p \in 1 .. Len(s) + 1, NEW st, NEW req, Frames(s, reqs, p, st, req)
  PROVE  Frames(t, reqs, p, st, req)
  <1>1. PICK m : Framed(m, s, reqs) /\ Within(m[Len(reqs) + 1], s, p, st, req)
    BY DEF Frames
  <1>2. Len(reqs) \in Nat
    BY LenProperties
  <1>3. /\ m \in [1 .. Len(reqs) + 1 -> Nat \ {0}] /\ m[1] = 1
        /\ \A k \in 1 .. Len(reqs) : /\ Whole(s, m[k])
                                     /\ m[k + 1] = Blank(s, m[k]) + 2
                                     /\ Seen(reqs[k]) = Message(s, m[k])
    BY <1>1 DEF Framed
  <1>4. m[Len(reqs) + 1] \in Nat \ {0} /\ \A k \in 1 .. Len(reqs) : m[k] \in Nat \ {0}
    <2>1. Len(reqs) + 1 \in 1 .. Len(reqs) + 1 /\ \A k \in 1 .. Len(reqs) : k \in 1 .. Len(reqs) + 1
      BY <1>2
    <2>2. \A k \in 1 .. Len(reqs) + 1 : m[k] \in Nat \ {0}
      BY <1>3
    <2> QED
      BY <2>1, <2>2
  <1>5. Within(m[Len(reqs) + 1], t, p, st, req)
    <2> DEFINE i == m[Len(reqs) + 1]
    <2>1. i \in Nat \ {0} /\ Within(i, s, p, st, req)
      BY <1>1, <1>4
    <2> HIDE DEF i
    <2>2. Within(i, t, p, st, req)
      BY <2>1, WithinStays
    <2> QED
      BY <2>2 DEF i
  <1>6. ASSUME NEW k \in 1 .. Len(reqs)
        PROVE  Whole(t, m[k]) /\ Blank(t, m[k]) = Blank(s, m[k]) /\ Message(t, m[k]) = Message(s, m[k])
    <2> DEFINE i == m[k]
    <2>1. i \in Nat \ {0} /\ Whole(s, i)
      BY <1>3, <1>4
    <2> HIDE DEF i
    <2>2. Whole(t, i) /\ Blank(t, i) = Blank(s, i) /\ Message(t, i) = Message(s, i)
      BY <2>1, BlankStays, MessageStays
    <2> QED
      BY <2>2 DEF i
  <1>7. Framed(m, t, reqs)
    BY <1>3, <1>6 DEF Framed
  <1> QED
    BY <1>5, <1>7 DEF Frames

\* appendData moves the place in the buffer, not the place in the stream.
LEMMA RecvFrames ==
  ASSUME IInv, FramesInv, Recv
  PROVE  FramesInv'
  <1>1. PICK n \in 1 .. ChunkMax :
          /\ n <= Len(input)
          /\ AppendData(SubSeq(input, 1, n))
          /\ received' = received \o SubSeq(input, 1, n)
    BY DEF Recv
  <1> DEFINE chunk == SubSeq(input, 1, n)
  <1>2. /\ input \in Seq(Unit) /\ Len(input) \in Nat /\ n \in Nat /\ n >= 1
        /\ received \in Seq(Unit) /\ Len(received) \in Nat
        /\ read_idx \in Nat /\ write_idx \in Nat /\ requests \in Seq(Request)
    BY LenProperties, Constants DEF TypeOK, IInv
  <1>3. chunk \in Seq(Unit) /\ Len(chunk) = n
    <2>1. 1 \in 1 .. Len(input) + 1 /\ n \in 0 .. Len(input)
      BY <1>1, <1>2
    <2>2. chunk \in Seq(Unit)
      BY <1>2, <2>1, Cut
    <2>3. Len(chunk) = IF 1 <= n THEN n - 1 + 1 ELSE 0
      BY <1>2, <2>1, Cut
    <2> QED
      BY <1>2, <2>2, <2>3
  <1>4. AppendData(chunk) /\ received' = received \o chunk
    BY <1>1
  <1> HIDE DEF chunk
  <1>5. write_idx' - read_idx' = write_idx - read_idx + Len(chunk)
    <2>1. CASE Overflows(write_idx, Len(chunk))
      <3>1. read_idx' = 0 /\ write_idx' = (write_idx - read_idx) + Len(chunk)
        BY <1>4, <2>1 DEF AppendData
      <3> QED
        BY <1>2, <1>3, <3>1
    <2>2. CASE ~Overflows(write_idx, Len(chunk))
      <3>1. read_idx' = read_idx /\ write_idx' = (write_idx - 0) + Len(chunk)
        BY <1>4, <2>2 DEF AppendData
      <3> QED
        BY <1>2, <1>3, <3>1
    <2> QED
      BY <2>1, <2>2
  <1>6. received' \in Seq(Unit) /\ Extends(received', received)
    BY <1>2, <1>3, <1>4, ExtendsConcat
  <1>7. Len(received') = Len(received) + Len(chunk)
    BY <1>2, <1>3, <1>4, ConcatProperties
  <1>8. Pos' = Pos
    BY <1>2, <1>3, <1>5, <1>7 DEF Pos
  <1>9. Pos \in 1 .. Len(received) + 1
    BY WindowBreaks
  <1>10. Frames(received', requests, Pos, state, request)
    BY <1>2, <1>6, <1>9, FramesStay DEF FramesInv
  <1>11. requests' = requests /\ state' = state /\ request' = request /\ pc' = "parse"
    BY DEF Recv, parser
  <1> QED
    BY <1>8, <1>10, <1>11 DEF FramesInv

LEMMA NeedMoreFrames ==
  ASSUME IInv, FramesInv, Crlfs = {}, NeedMore, UNCHANGED received
  PROVE  FramesInv'
  <1>1. BreaksFrom(received, Pos) = {}
    BY FirstBreak
  <1>2. Pos' = Pos
    BY DEF NeedMore, store, Pos
  <1> QED
    BY <1>1, <1>2 DEF NeedMore, parser, FramesInv

\* read_idx moves behind the line break at p, or back to 0 with the window.
LEMMA PosAfter ==
  ASSUME IInv, NEW p \in Crlfs, UNCHANGED received,
         \/ read_idx' = p + 2 /\ write_idx' = write_idx
         \/ read_idx' = 0 /\ write_idx' = write_idx - (p + 2)
  PROVE  Pos' = Pos + (p - read_idx) + 2
  <1>1. /\ received \in Seq(Unit) /\ Len(received) \in Nat
        /\ read_idx \in Nat /\ write_idx \in Nat /\ p \in Int
    BY LenProperties DEF TypeOK, IInv, Crlfs
  <1> QED
    BY <1>1 DEF Pos

\* The request line is taken.
LEMMA RequestLineFrames ==
  ASSUME IInv, FramesInv, state = "REQUEST_LINE", Crlfs # {}, ParseRequestLine,
         UNCHANGED <<input, received>>
  PROVE  FramesInv'
  <1>1. PICK p \in Crlfs :
          /\ FirstCrlf(p)
          /\ request' = [request EXCEPT !.line = View(p - read_idx)]
          /\ read_idx' = p + 2
          /\ state' = "HEADERS"
          /\ UNCHANGED <<buffer, capacity, write_idx, content_length, requests, pc>>
    BY DEF ParseRequestLine
  <1>2. /\ BreaksFrom(received, Pos) # {}
        /\ End(received, Pos) = Pos + (p - read_idx)
        /\ View(p - read_idx) = LineAt(received, Pos)
    BY <1>1, FirstBreak
  <1>3. Pos' = End(received, Pos) + 2
    <2>1. Pos' = Pos + (p - read_idx) + 2
      BY <1>1, PosAfter
    <2> QED
      BY <1>2, <2>1
  <1>4. PICK m : Framed(m, received, requests)
                 /\ Within(m[Len(requests) + 1], received, Pos, state, request)
    BY DEF FramesInv, Frames
  <1> DEFINE i == m[Len(requests) + 1]
             s == received
             e == End(s, i)
  <1>5. Pos = i /\ request = EmptyRequest
    BY <1>4 DEF Within, InLine, InBlock
  <1>6. s \in Seq(Unit) /\ Pos \in 1 .. Len(s) + 1 /\ Len(s) \in Nat
    BY WindowBreaks, LenProperties DEF IInv, TypeOK
  <1>7. i \in Nat \ {0}
    BY <1>5, <1>6
  <1> HIDE DEF i
  <1>8. BreaksFrom(s, i) # {} /\ Pos' = e + 2
    BY <1>2, <1>3, <1>5
  <1>9. e \in BreaksFrom(s, i) /\ e \in i .. Len(s) - 1
    BY <1>6, <1>7, <1>8, EndOf
  <1>10. e \in Nat /\ e \in BreaksFrom(s, e)
    <2>1. e \in Nat
      BY <1>7, <1>9
    <2> QED
      BY <1>6, <1>7, <1>9, <2>1, BreakSets
  <1> HIDE DEF e, s
  <1>11. \A b \in BlanksFrom(s, e) : e + 2 <= b
    BY <1>6, <1>10, BreakSets
  <1>12. Fields(s, e, e + 2) = {}
    BY <1>6, <1>10, FieldsNone
  <1>13. request'.line = LineAt(s, i) /\ request'.headers = {}
    BY <1>1, <1>2, <1>5 DEF EmptyRequest, s
  <1>14. InBlock(i, s, e + 2, "HEADERS", request')
    <2>1. (e + 2) - 2 = e
      BY <1>10
    <2>2. Stored({}) = {}
      BY DEF Stored
    <2>3. request'.line = SubSeq(s, i, End(s, i) - 1)
      BY <1>13 DEF LineAt
    <2> QED
      BY <1>8, <1>10, <1>11, <1>12, <1>13, <2>1, <2>2, <2>3 DEF InBlock, e
  <1>15. Frames(s, requests, e + 2, "HEADERS", request')
    BY <1>4, <1>14 DEF Frames, Within, i, s
  <1>16. pc' # "recv"
    BY <1>1, <1>2 DEF FramesInv
  <1>17. Frames(received', requests', Pos', state', request')
    BY <1>1, <1>8, <1>15 DEF s
  <1> QED
    BY <1>16, <1>17 DEF FramesInv

\* A line of the header block is stored.
LEMMA HeaderLineFrames ==
  ASSUME IInv, FramesInv, state = "HEADERS", UNCHANGED <<input, received>>,
         NEW p \in Crlfs, FirstCrlf(p), p # read_idx,
         request' = [request EXCEPT !.headers = StoreHeader(@, View(p - read_idx))],
         read_idx' = p + 2,
         UNCHANGED <<buffer, capacity, write_idx, state, content_length, requests, pc>>
  PROVE  FramesInv'
  <1>1. /\ BreaksFrom(received, Pos) # {}
        /\ End(received, Pos) = Pos + (p - read_idx)
        /\ View(p - read_idx) = LineAt(received, Pos)
    BY FirstBreak
  <1>2. Pos' = End(received, Pos) + 2
    <2>1. Pos' = Pos + (p - read_idx) + 2
      BY PosAfter
    <2> QED
      BY <1>1, <2>1
  <1>3. PICK m : Framed(m, received, requests)
                 /\ Within(m[Len(requests) + 1], received, Pos, state, request)
    BY DEF FramesInv, Frames
  <1> DEFINE i == m[Len(requests) + 1]
             s == received
             e == End(s, i)
             x == Pos
             q == End(s, x)
             F == Fields(s, e, x)
  <1>4. /\ BreaksFrom(s, i) # {}
        /\ x - 2 \in BreaksFrom(s, e)
        /\ \A b \in BlanksFrom(s, e) : x <= b
        /\ request.line = SubSeq(s, i, e - 1)
        /\ F \in SUBSET Field
        /\ request.headers = Stored(F)
    BY <1>3 DEF Within, InLine, InBlock
  <1>5. s \in Seq(Unit) /\ x \in 1 .. Len(s) + 1 /\ Len(s) \in Nat /\ x \in Nat
        /\ read_idx \in Nat /\ p \in read_idx .. write_idx - 2
    <2>1. s \in Seq(Unit) /\ read_idx \in Nat /\ p \in read_idx .. write_idx - 2
      BY DEF IInv, TypeOK, Crlfs
    <2>2. Len(s) \in Nat
      BY <2>1, LenProperties
    <2>3. x \in 1 .. Len(s) + 1
      BY WindowBreaks
    <2> QED
      BY <2>1, <2>2, <2>3
  <1>6. i \in Nat \ {0}
    <2>1. Len(requests) + 1 \in 1 .. Len(requests) + 1
      BY LenProperties DEF IInv, TypeOK
    <2> QED
      BY <1>3, <2>1 DEF Framed
  <1> HIDE DEF i
  <1>7. e \in i .. Len(s) - 1 /\ e \in Nat
    <2>1. e \in i .. Len(s) - 1
      BY <1>4, <1>5, <1>6, EndOf
    <2> QED
      BY <1>6, <2>1
  <1>8. BreaksFrom(s, x) # {} /\ q = x + (p - read_idx) /\ View(p - read_idx) = LineAt(s, x)
        /\ Pos' = q + 2
    BY <1>1, <1>2
  <1>9. /\ q \in BreaksFrom(s, x) /\ q \in x .. Len(s) - 1
         /\ \A j \in BreaksFrom(s, x) : q <= j
    BY <1>5, <1>8, EndOf
  <1>10. q \in Nat /\ q # x
    BY <1>5, <1>8, <1>9
  <1> HIDE DEF e, s, x, q
  <1>11. q \in BreaksFrom(s, e) /\ \A j \in BreaksFrom(s, e) : j < q => j <= x - 2
    BY <1>4, <1>5, <1>7, <1>9, StartsAdd
  <1>12. Fields(s, e, q + 2) = Adding(F, LineAt(s, x))
    BY <1>4, <1>5, <1>7, <1>8, FieldsOfLine DEF q
  <1>13. LineAt(s, x) \in Seq(Unit)
    BY <1>8, BreakInWindow
  <1> HIDE DEF F
  <1>14. /\ StoreHeader(Stored(F), LineAt(s, x)) = Stored(Adding(F, LineAt(s, x)))
         /\ Adding(F, LineAt(s, x)) \in SUBSET Field
    BY <1>4, <1>13, StoreHeaderStored
  <1>15. ASSUME NEW b \in BlanksFrom(s, e) PROVE q + 2 <= b
    <2>1. b \in BreaksFrom(s, e) /\ b \in Nat /\ b - 2 \in BreaksFrom(s, e) /\ x <= b
      BY <1>4, <1>5, <1>7, BreakSets
    <2>2. b \in BreaksFrom(s, x)
      BY <1>5, <1>7, <2>1, BreakSets
    <2>3. q <= b
      BY <1>9, <2>2
    <2>4. b # q
      <3>1. b = q => b - 2 <= x - 2
        BY <1>10, <1>11, <2>1
      <3> QED
        BY <1>5, <1>9, <1>10, <2>1, <3>1
    <2>5. b # q + 1
      BY <1>5, <1>7, <1>11, <2>1, BreaksApart
    <2> QED
      BY <1>10, <2>1, <2>3, <2>4, <2>5
  <1>16. request'.line = request.line /\ request'.headers = Stored(Adding(F, LineAt(s, x)))
    <2>1. request \in [line : Seq(Unit), headers : SUBSET Header, body : Seq(Unit)]
      BY DEF IInv, TypeOK, Request
    <2>2. request'.line = request.line /\ request'.headers = StoreHeader(request.headers, View(p - read_idx))
      BY <2>1
    <2> QED
      BY <1>4, <1>8, <1>14, <2>2
  <1>17. InBlock(i, s, q + 2, "HEADERS", request')
    <2>1. (q + 2) - 2 = q
      BY <1>10
    <2> QED
      BY <1>4, <1>11, <1>12, <1>14, <1>15, <1>16, <2>1 DEF InBlock, e
  <1>18. Frames(s, requests, q + 2, "HEADERS", request')
    BY <1>3, <1>17 DEF Frames, Within, i, s
  <1>19. pc' # "recv"
    BY <1>1 DEF FramesInv
  <1>20. Frames(received', requests', Pos', state', request')
    BY <1>8, <1>18 DEF s
  <1> QED
    BY <1>19, <1>20 DEF FramesInv

\* The empty line is found: the message is complete and handed out.
LEMMA EmptyLineFrames ==
  ASSUME IInv, FramesInv, state = "HEADERS", UNCHANGED <<input, received>>,
         read_idx \in Crlfs, FirstCrlf(read_idx), Complete(request, read_idx + 2)
  PROVE  FramesInv'
  <1>1. /\ BreaksFrom(received, Pos) # {}
        /\ End(received, Pos) = Pos + (read_idx - read_idx)
    BY FirstBreak
  <1>2. Pos' = Pos + (read_idx - read_idx) + 2
    <2>1. read_idx' = 0 /\ write_idx' = write_idx - (read_idx + 2)
      BY DEF Complete
    <2> QED
      BY <2>1, PosAfter
  <1>3. PICK m : Framed(m, received, requests)
                 /\ Within(m[Len(requests) + 1], received, Pos, state, request)
    BY DEF FramesInv, Frames
  <1> DEFINE n == Len(requests)
             i == m[n + 1]
             s == received
             e == End(s, i)
             x == Pos
             F == Fields(s, e, x)
  <1>4. /\ BreaksFrom(s, i) # {}
        /\ x - 2 \in BreaksFrom(s, e)
        /\ \A b \in BlanksFrom(s, e) : x <= b
        /\ request.line = SubSeq(s, i, e - 1)
        /\ F \in SUBSET Field
        /\ request.headers = Stored(F)
    BY <1>3 DEF Within, InLine, InBlock
  <1>5. /\ s \in Seq(Unit) /\ x \in 1 .. Len(s) + 1 /\ Len(s) \in Nat /\ x \in Nat
        /\ read_idx \in Nat /\ n \in Nat /\ requests \in Seq(Request)
    BY WindowBreaks, LenProperties DEF IInv, TypeOK
  <1>6. /\ m \in [1 .. n + 1 -> Nat \ {0}] /\ m[1] = 1
        /\ \A k \in 1 .. n : /\ Whole(s, m[k])
                             /\ m[k + 1] = Blank(s, m[k]) + 2
                             /\ Seen(requests[k]) = Message(s, m[k])
    BY <1>3 DEF Framed
  <1>7. i \in Nat \ {0}
    <2>1. n + 1 \in 1 .. n + 1
      BY <1>5
    <2> QED
      BY <1>6, <2>1
  <1>8. e \in i .. Len(s) - 1 /\ e \in Nat
    <2>1. e \in i .. Len(s) - 1
      BY <1>4, <1>5, <1>7, EndOf
    <2> QED
      BY <1>7, <2>1
  <1>9. Pos' = x + 2 /\ x \in BreaksFrom(s, x)
    <2>1. End(s, x) = x /\ Pos' = x + 2
      BY <1>1, <1>2, <1>5
    <2> QED
      BY <1>1, <1>5, <2>1, EndOf
  <1> HIDE DEF n, i, e, s, x
  <1>10. x \in BlanksFrom(s, e)
    <2>1. x - 2 \in Nat /\ e <= x - 2 /\ e + 2 \in Nat
      BY <1>4, <1>5, <1>8, BreakSets
    <2>2. x \in BreaksFrom(s, e + 2)
      BY <1>5, <1>8, <1>9, <2>1, BreakSets
    <2> QED
      BY <1>4, <2>2 DEF BlanksFrom
  <1>11. Blank(s, i) = x
    <2>1. BlanksFrom(s, e) \in SUBSET Nat
      BY <1>5, <1>8, BreakSets
    <2> QED
      BY <1>4, <1>10, <2>1, MinIs DEF Blank, e
  <1>12. Whole(s, i)
    BY <1>4, <1>10 DEF Whole, e
  <1>13. Seen(request) = Message(s, i)
    <2>1. request.body = <<>>
      BY DEF IInv
    <2>2. SubSeq(s, x + 2, Stop(s, i) - 1) = <<>>
      <3>1. x + 2 \in Int /\ Stop(s, i) - 1 \in Int /\ Stop(s, i) - 1 < x + 2
        BY <1>5, <1>11 DEF Stop
      <3> QED
        BY <3>1, SubSeqEmpty
    <2>3. {[name |-> SubSeq(h.key, 1, Len(h.key) - 1), val |-> h.val] : h \in request.headers} = F
      BY <1>4, StoredSeen
    <2> QED
      BY <1>4, <1>11, <2>1, <2>2, <2>3 DEF Seen, Message, e
  <1> DEFINE m2 == [k \in 1 .. n + 2 |-> IF k <= n + 1 THEN m[k] ELSE x + 2]
  <1>14. requests' = Append(requests, request) /\ request \in Request
    BY DEF Complete, IInv, TypeOK
  <1>15. /\ Len(requests') = n + 1 /\ requests'[n + 1] = request
         /\ \A k \in 1 .. n : requests'[k] = requests[k]
    BY <1>5, <1>14, AppendProperties DEF n
  <1>16. /\ m2 \in [1 .. n + 2 -> Nat \ {0}]
         /\ \A k \in 1 .. n + 1 : m2[k] = m[k]
         /\ m2[n + 2] = x + 2
    <2>1. \A k \in 1 .. n + 2 : k <= n + 1 => k \in 1 .. n + 1
      BY <1>5
    <2>2. \A k \in 1 .. n + 1 : k \in 1 .. n + 2 /\ k <= n + 1
      BY <1>5
    <2>3. n + 2 \in 1 .. n + 2 /\ ~(n + 2 <= n + 1) /\ x + 2 \in Nat \ {0}
      BY <1>5
    <2> QED
      BY <1>6, <2>1, <2>2, <2>3
  <1> HIDE DEF m2
  <1>17. Framed(m2, s, requests')
    <2>1. Len(requests') + 1 = n + 2
      BY <1>5, <1>15
    <2>2. m2[1] = 1
      BY <1>5, <1>6, <1>16
    <2>3. ASSUME NEW k \in 1 .. n + 1
          PROVE  /\ Whole(s, m2[k])
                 /\ m2[k + 1] = Blank(s, m2[k]) + 2
                 /\ Seen(requests'[k]) = Message(s, m2[k])
      <3>1. CASE k = n + 1
        <4>1. m2[k] = i /\ m2[k + 1] = x + 2 /\ requests'[k] = request
          <5>1. (n + 1) + 1 = n + 2 /\ n + 1 \in 1 .. n + 1
            BY <1>5
          <5> QED
            BY <1>15, <1>16, <3>1, <5>1 DEF i
        <4> QED
          BY <1>11, <1>12, <1>13, <4>1
      <3>2. CASE k # n + 1
        <4>1. k \in 1 .. n /\ k + 1 \in 1 .. n + 1
          BY <1>5, <3>2
        <4>2. m2[k] = m[k] /\ m2[k + 1] = m[k + 1] /\ requests'[k] = requests[k]
          BY <1>15, <1>16, <4>1
        <4> QED
          BY <1>6, <4>1, <4>2
      <3> QED
        BY <3>1, <3>2
    <2> QED
      BY <1>15, <1>16, <2>1, <2>2, <2>3 DEF Framed
  <1>18. state' = "REQUEST_LINE" /\ request' = EmptyRequest /\ pc' = pc
    BY DEF Complete
  <1>19. Within(m2[Len(requests') + 1], s, x + 2, state', request')
    <2>1. Len(requests') + 1 = n + 2
      BY <1>5, <1>15
    <2> QED
      BY <1>16, <1>18, <2>1 DEF Within, InLine
  <1>20. Frames(received', requests', Pos', state', request')
    <2>1. received' = s /\ Pos' = x + 2
      BY <1>9 DEF s
    <2>2. Frames(s, requests', x + 2, state', request')
      BY <1>17, <1>19 DEF Frames
    <2> QED
      BY <2>1, <2>2
  <1>21. pc' # "recv"
    BY <1>1, <1>18 DEF FramesInv
  <1> QED
    BY <1>20, <1>21 DEF FramesInv

LEMMA ParseFrames ==
  ASSUME IInv, FramesInv, Parse
  PROVE  FramesInv'
  <1>1. UNCHANGED <<input, received>>
    BY DEF Parse
  <1>2. state \in {"REQUEST_LINE", "HEADERS"}
    BY DEF IInv, TypeOK, ParseState, NoBodies
  <1>3. CASE state = "REQUEST_LINE"
    <2>1. ParseRequestLine
      BY <1>3 DEF Parse
    <2>2. CASE Crlfs = {}
      <3>1. NeedMore
        BY <2>1, <2>2 DEF ParseRequestLine
      <3> QED
        BY <1>1, <2>2, <3>1, NeedMoreFrames
    <2> QED
      BY <1>1, <1>3, <2>1, <2>2, RequestLineFrames
  <1>4. CASE state = "HEADERS"
    <2>1. ParseHeaders
      BY <1>4 DEF Parse
    <2>2. CASE Crlfs = {}
      <3>1. NeedMore
        BY <2>1, <2>2 DEF ParseHeaders
      <3> QED
        BY <1>1, <2>2, <3>1, NeedMoreFrames
    <2>3. CASE Crlfs # {}
      <3>1. PICK p \in Crlfs :
              /\ FirstCrlf(p)
              /\ IF p = read_idx
                 THEN EndOfHeaders
                 ELSE /\ request' = [request EXCEPT
                                       !.headers = StoreHeader(@, View(p - read_idx))]
                      /\ read_idx' = p + 2
                      /\ UNCHANGED <<buffer, capacity, write_idx, state,
                                     content_length, requests, pc>>
        <4>1. \/ Crlfs = {}
              \/ \E p \in Crlfs :
                   /\ FirstCrlf(p)
                   /\ IF p = read_idx
                      THEN EndOfHeaders
                      ELSE /\ request' = [request EXCEPT
                                            !.headers = StoreHeader(@, View(p - read_idx))]
                           /\ read_idx' = p + 2
                           /\ UNCHANGED <<buffer, capacity, write_idx, state,
                                          content_length, requests, pc>>
          BY <2>1 DEF ParseHeaders
        <4> QED
          BY <2>3, <4>1
      <3>2. CASE p = read_idx
        <4>1. request.headers \in SUBSET Header
          BY DEF IInv, TypeOK, Request
        <4>2. LengthField(request.headers) = {}
          BY <4>1, NoLengthField DEF IInv
        <4>3. Complete(request, read_idx + 2)
          BY <3>1, <3>2, <4>2 DEF EndOfHeaders
        <4> QED
          BY <1>1, <1>4, <3>1, <3>2, <4>3, EmptyLineFrames
      <3>3. CASE p # read_idx
        BY <1>1, <1>4, <3>1, <3>3, HeaderLineFrames
      <3> QED
        BY <3>2, <3>3
    <2> QED
      BY <2>2, <2>3
  <1> QED
    BY <1>2, <1>3, <1>4

LEMMA NextFrames == IInv /\ FramesInv /\ [Next]_vars => FramesInv'
  <1> SUFFICES ASSUME IInv, FramesInv, [Next]_vars PROVE FramesInv'
    OBVIOUS
  <1>1. CASE Recv
    BY <1>1, RecvFrames
  <1>2. CASE Parse
    BY <1>2, ParseFrames
  <1>3. CASE UNCHANGED vars
    <2>1. UNCHANGED <<received, requests, read_idx, write_idx, state, request, pc>>
      BY <1>3 DEF vars, store, parser
    <2> QED
      BY <2>1 DEF FramesInv, Pos
  <1> QED
    BY <1>1, <1>2, <1>3 DEF Next

LEMMA AlwaysFrames == Spec => []FramesInv
  BY InitFrames, AlwaysIInv, NextFrames, PTL DEF Spec

-----------------------------------------------------------------------------
(* What the reading of a whole stream is.                                   *)

Reads(g, s) ==
  g = [i \in 1 .. Len(s) + 1 |->
         IF BreaksFrom(s, i) = {} \/ BlanksFrom(s, End(s, i)) = {} \/ Stop(s, i) > Len(s) + 1
         THEN <<>>
         ELSE <<Message(s, i)>> \o g[Stop(s, i)]]

LEMMA DecodeReads ==
  ASSUME NEW s
  PROVE  Decode(s, BodyIgnored) = (CHOOSE g : Reads(g, s))[1]
  BY DEF Decode, BodyIgnored, Reads, Message, Stop, Blank, End

\* At i stands the message that starts there, if it is whole.
ReadAt(g, s, i) == IF Whole(s, i) THEN <<Message(s, i)>> \o g[Blank(s, i) + 2] ELSE <<>>

LEMMA NextStart ==
  ASSUME NEW s \in Seq(Unit), NEW i \in Nat \ {0}, Whole(s, i)
  PROVE  /\ Blank(s, i) + 2 \in i + 1 .. Len(s) + 1
         /\ Stop(s, i) = Blank(s, i) + 2
  <1>1. /\ Blank(s, i) + 2 \in i + 2 .. Len(s) + 1
        /\ Blank(s, i) \in End(s, i) + 2 .. Len(s) - 1
        /\ End(s, i) \in i .. Len(s) - 1 /\ Len(s) \in Nat
    BY BlankOf, EndOf, LenProperties DEF Whole
  <1>2. Blank(s, i) \in Nat
    BY <1>1
  <1> QED
    BY <1>1, <1>2 DEF Stop

LEMMA ReadsIs ==
  ASSUME NEW g, NEW s \in Seq(Unit)
  PROVE  Reads(g, s) <=> g = [i \in 1 .. Len(s) + 1 |-> ReadAt(g, s, i)]
  <1> DEFINE D      == 1 .. Len(s) + 1
             halts(i) == BreaksFrom(s, i) = {} \/ BlanksFrom(s, End(s, i)) = {} \/ Stop(s, i) > Len(s) + 1
             read(i)  == IF halts(i) THEN <<>> ELSE <<Message(s, i)>> \o g[Stop(s, i)]
  <1>1. ASSUME NEW i \in D PROVE read(i) = ReadAt(g, s, i)
    <2>1. i \in Nat \ {0} /\ Len(s) \in Nat
      BY LenProperties
    <2>2. CASE Whole(s, i)
      <3>1. /\ Blank(s, i) + 2 \in i + 1 .. Len(s) + 1
            /\ Stop(s, i) = Blank(s, i) + 2
        BY <2>1, <2>2, NextStart
      <3>2. ~(Stop(s, i) > Len(s) + 1)
        BY <2>1, <3>1
      <3>3. ~halts(i)
        BY <2>2, <3>2 DEF Whole
      <3>4. read(i) = <<Message(s, i)>> \o g[Stop(s, i)]
        BY <3>3
      <3> HIDE DEF read
      <3> QED
        BY <2>2, <3>1, <3>4 DEF ReadAt
    <2>3. CASE ~Whole(s, i)
      <3>1. halts(i)
        BY <2>3 DEF Whole
      <3> QED
        BY <2>3, <3>1 DEF ReadAt
    <2> QED
      BY <2>2, <2>3
  <1>2. Reads(g, s) <=> g = [i \in D |-> read(i)]
    BY DEF Reads
  <1> HIDE DEF read, D
  <1>3. [i \in D |-> read(i)] = [i \in D |-> ReadAt(g, s, i)]
    BY <1>1
  <1> QED
    BY <1>2, <1>3 DEF D

\* There is a reading: defined from the end of the stream backwards, because
\* every message ends behind its start.
LEMMA ReadingExists ==
  ASSUME NEW s \in Seq(Unit)
  PROVE  \E g : Reads(g, s)
  <1> DEFINE L    == Len(s)
             D    == 1 .. L + 1
             S    == {n \in 1 .. L + 2 :
                        \E g : /\ g = [i \in D |-> g[i]]
                               /\ \A i \in D : i >= n => g[i] = ReadAt(g, s, i)}
  <1>1. L \in Nat
    BY LenProperties
  <1>2. L + 2 \in S
    <2> DEFINE g == [i \in D |-> 0]
    <2>1. g = [i \in D |-> g[i]]
      OBVIOUS
    <2>2. \A i \in D : ~(i >= L + 2)
      BY <1>1
    <2>3. L + 2 \in 1 .. L + 2
      BY <1>1
    <2> QED
      BY <2>1, <2>2, <2>3
  <1>3. S \in SUBSET Nat
    OBVIOUS
  <1>4. ASSUME NEW n \in S, n # 1 PROVE n - 1 \in S
    <2>1. PICK g : /\ g = [i \in D |-> g[i]]
                   /\ \A i \in D : i >= n => g[i] = ReadAt(g, s, i)
      OBVIOUS
    <2>2. n \in 1 .. L + 2 /\ n \in Nat /\ n - 1 \in D /\ n - 1 \in 1 .. L + 2
      BY <1>1, <1>4
    <2> DEFINE h == [i \in D |-> IF i = n - 1 THEN ReadAt(g, s, i) ELSE g[i]]
    <2>3. h = [i \in D |-> h[i]] /\ \A i \in D : i # n - 1 => h[i] = g[i]
      OBVIOUS
    <2>4. h[n - 1] = ReadAt(g, s, n - 1)
      BY <2>2
    <2> HIDE DEF h
    <2>5. ASSUME NEW i \in D, i >= n - 1
          PROVE  ReadAt(h, s, i) = ReadAt(g, s, i)
      <3>1. i \in Nat \ {0}
        BY <1>1
      <3>2. CASE ~Whole(s, i)
        BY <3>2 DEF ReadAt
      <3>3. CASE Whole(s, i)
        <4>1. Blank(s, i) + 2 \in D /\ Blank(s, i) + 2 # n - 1
          <5>1. Blank(s, i) + 2 \in i + 1 .. L + 1
            BY <3>1, <3>3, NextStart
          <5> QED
            BY <1>1, <2>2, <2>5, <3>1, <5>1
        <4>2. h[Blank(s, i) + 2] = g[Blank(s, i) + 2]
          BY <2>3, <4>1
        <4> QED
          BY <4>2 DEF ReadAt
      <3> QED
        BY <3>2, <3>3
    <2>6. ASSUME NEW i \in D, i >= n - 1
          PROVE  h[i] = ReadAt(h, s, i)
      <3>1. CASE i = n - 1
        BY <2>4, <2>5, <2>6, <3>1
      <3>2. CASE i # n - 1
        <4>1. i >= n
          BY <1>1, <2>2, <2>6, <3>2
        <4> QED
          BY <2>1, <2>3, <2>5, <2>6, <3>2, <4>1
      <3> QED
        BY <3>1, <3>2
    <2> QED
      BY <2>2, <2>3, <2>6
  <1> HIDE DEF S
  <1>5. PICK n \in S : \A j \in S : n <= j
    BY <1>2, <1>3, NatMin
  <1>6. n = 1
    <2>1. n \in Nat /\ ~(n <= n - 1)
      BY <1>3
    <2> QED
      BY <1>4, <1>5, <2>1
  <1>7. PICK g : /\ g = [i \in D |-> g[i]]
                 /\ \A i \in D : i >= 1 => g[i] = ReadAt(g, s, i)
    BY <1>6 DEF S
  <1>8. \A i \in D : i >= 1
    BY <1>1
  <1>9. [i \in D |-> g[i]] = [i \in D |-> ReadAt(g, s, i)]
    BY <1>7, <1>8
  <1>10. Reads(g, s)
    BY <1>7, <1>9, ReadsIs
  <1> QED
    BY <1>10

LEMMA TabledSeq ==
  ASSUME NEW S, NEW n \in Nat, NEW f \in [1 .. n -> S]
  PROVE  f \in Seq(S) /\ Len(f) = n
  OBVIOUS

MessagesAt(s, m, n) == [j \in 1 .. n |-> Message(s, m[j])]

\* From the last mark on there is nothing complete, so the messages between
\* the marks are all that is read from the first.
LEMMA ReadMarks ==
  ASSUME NEW s \in Seq(Unit), NEW g, Reads(g, s), NEW n \in Nat,
         NEW m \in [1 .. n + 1 -> Nat \ {0}], m[1] = 1,
         \A k \in 1 .. n : Whole(s, m[k]) /\ m[k + 1] = Blank(s, m[k]) + 2,
         ~Whole(s, m[n + 1]), m[n + 1] \in 1 .. Len(s) + 1
  PROVE  g[1] = MessagesAt(s, m, n)
  <1> DEFINE Msg  == {Message(s, i) : i \in Nat}
             T(k) == [j \in 1 .. n + 1 - k |-> Message(s, m[k + j - 1])]
             S    == {k \in 1 .. n + 1 : g[m[k]] = T(k)}
  <1>1. g = [i \in 1 .. Len(s) + 1 |-> ReadAt(g, s, i)] /\ Len(s) \in Nat
    BY ReadsIs, LenProperties
  <1>2. ASSUME NEW k \in 1 .. n + 1
        PROVE  m[k] \in 1 .. Len(s) + 1
    <2>1. CASE k = n + 1
      BY <2>1
    <2>2. CASE k # n + 1
      <3>1. k \in 1 .. n /\ m[k] \in Nat \ {0}
        BY <2>2
      <3> DEFINE i == m[k]
      <3>2. i \in Nat \ {0} /\ Whole(s, i)
        BY <3>1
      <3> HIDE DEF i
      <3>3. Blank(s, i) + 2 \in i + 1 .. Len(s) + 1
        BY <3>2, NextStart
      <3>4. i \in 1 .. Len(s) + 1
        BY <1>1, <3>2, <3>3
      <3> QED
        BY <3>4 DEF i
    <2> QED
      BY <2>1, <2>2
  <1>3. \A k \in 1 .. n + 1 : g[m[k]] = ReadAt(g, s, m[k])
    BY <1>1, <1>2
  <1>4. ASSUME NEW k \in 1 .. n + 1
        PROVE  /\ T(k) \in Seq(Msg) /\ Len(T(k)) = n + 1 - k
               /\ \A j \in 1 .. n + 1 - k : T(k)[j] = Message(s, m[k + j - 1])
    <2>1. n + 1 - k \in Nat
      OBVIOUS
    <2>2. \A j \in 1 .. n + 1 - k : k + j - 1 \in 1 .. n + 1
      OBVIOUS
    <2>3. \A j \in 1 .. n + 1 - k : m[k + j - 1] \in Nat
      BY <2>2
    <2>4. \A j \in 1 .. n + 1 - k : Message(s, m[k + j - 1]) \in Msg
      BY <2>3
    <2> HIDE DEF Msg
    <2>5. T(k) \in [1 .. n + 1 - k -> Msg]
      BY <2>4
    <2>6. \A j \in 1 .. n + 1 - k : T(k)[j] = Message(s, m[k + j - 1])
      OBVIOUS
    <2> HIDE DEF T
    <2>7. T(k) \in Seq(Msg) /\ Len(T(k)) = n + 1 - k
      BY <2>1, <2>5, TabledSeq
    <2> QED
      BY <2>6, <2>7
  <1>5. n + 1 \in S
    <2>1. g[m[n + 1]] = <<>>
      <3>1. n + 1 \in 1 .. n + 1
        OBVIOUS
      <3>2. g[m[n + 1]] = ReadAt(g, s, m[n + 1])
        BY <1>3, <3>1
      <3> QED
        BY <3>2 DEF ReadAt
    <2>2. n + 1 \in 1 .. n + 1 /\ n + 1 - (n + 1) = 0
      OBVIOUS
    <2>3. T(n + 1) \in Seq(Msg) /\ Len(T(n + 1)) = 0
      BY <1>4, <2>2
    <2> HIDE DEF T, Msg
    <2>4. T(n + 1) = <<>>
      BY <2>3, EmptySeq
    <2> QED
      BY <2>1, <2>2, <2>4
  <1>6. ASSUME NEW k \in 1 .. n, g[m[k + 1]] = T(k + 1)
        PROVE  g[m[k]] = T(k)
    <2>1. k \in 1 .. n + 1 /\ k + 1 \in 1 .. n + 1 /\ n + 1 - (k + 1) = n - k /\ n - k \in Nat
          /\ n + 1 - k = (n - k) + 1
      OBVIOUS
    <2> DEFINE a == Message(s, m[k])
               b == <<a>>
    <2>2. g[m[k]] = b \o T(k + 1)
      <3>1. g[m[k]] = b \o g[Blank(s, m[k]) + 2]
        BY <1>3, <2>1 DEF ReadAt
      <3> QED
        BY <1>6, <3>1
    <2>3. /\ T(k + 1) \in Seq(Msg) /\ Len(T(k + 1)) = n - k
          /\ \A j \in 1 .. n - k : T(k + 1)[j] = Message(s, m[(k + 1) + j - 1])
      BY <1>4, <2>1
    <2>4. /\ T(k) \in Seq(Msg) /\ Len(T(k)) = (n - k) + 1
          /\ \A j \in 1 .. (n - k) + 1 : T(k)[j] = Message(s, m[k + j - 1])
      BY <1>4, <2>1
    <2>5. a \in Msg
      BY <2>1
    <2> HIDE DEF T, Msg, a
    <2>6. b \in Seq(Msg) /\ Len(b) = 1 /\ b[1] = a
      BY <2>5
    <2> HIDE DEF b
    <2>7. /\ b \o T(k + 1) \in Seq(Msg) /\ Len(b \o T(k + 1)) = 1 + (n - k)
          /\ \A j \in 1 .. 1 + (n - k) :
               (b \o T(k + 1))[j] = IF j <= 1 THEN b[j] ELSE T(k + 1)[j - 1]
      <3> DEFINE c == T(k + 1)
      <3>1. c \in Seq(Msg) /\ Len(c) = n - k
        BY <2>3
      <3> HIDE DEF c
      <3>2. /\ b \o c \in Seq(Msg) /\ Len(b \o c) = Len(b) + Len(c)
            /\ \A j \in 1 .. Len(b) + Len(c) :
                 (b \o c)[j] = IF j <= Len(b) THEN b[j] ELSE c[j - Len(b)]
        <4>1. b \in Seq(Msg) /\ c \in Seq(Msg)
          BY <2>6, <3>1
        <4> QED
          BY <4>1, ConcatProperties
      <3> QED
        BY <2>6, <3>1, <3>2 DEF c
    <2>8. ASSUME NEW j \in 1 .. 1 + (n - k)
          PROVE  (b \o T(k + 1))[j] = T(k)[j]
      <3>1. CASE j = 1
        <4>1. T(k)[j] = Message(s, m[k])
          <5>1. j \in 1 .. (n - k) + 1 /\ k + j - 1 = k
            BY <2>1, <3>1
          <5>2. T(k)[j] = Message(s, m[k + j - 1])
            BY <2>4, <5>1
          <5> QED
            BY <5>1, <5>2
        <4>2. (b \o T(k + 1))[j] = b[j]
          <5>1. j <= 1
            BY <3>1
          <5> QED
            BY <2>7, <5>1
        <4> QED
          BY <2>6, <3>1, <4>1, <4>2 DEF a
      <3>2. CASE j # 1
        <4>1. j - 1 \in 1 .. n - k /\ ~(j <= 1) /\ (k + 1) + (j - 1) - 1 = k + j - 1
              /\ j \in 1 .. (n - k) + 1
          BY <2>1, <3>2
        <4>2. (b \o T(k + 1))[j] = T(k + 1)[j - 1]
          BY <2>7, <4>1
        <4>3. T(k + 1)[j - 1] = Message(s, m[(k + 1) + (j - 1) - 1])
          BY <2>3, <4>1
        <4> QED
          BY <2>4, <4>1, <4>2, <4>3
      <3> QED
        BY <3>1, <3>2
    <2>9. Len(b \o T(k + 1)) = Len(T(k)) /\ \A j \in 1 .. Len(T(k)) : j \in 1 .. 1 + (n - k)
      BY <2>1, <2>4, <2>7
    <2>10. b \o T(k + 1) = T(k)
      BY <2>4, <2>7, <2>8, <2>9, SeqEqual
    <2> QED
      BY <2>2, <2>10
  <1> HIDE DEF T
  <1>7. S \in SUBSET Nat
    OBVIOUS
  <1>8. PICK k \in S : \A j \in S : k <= j
    <2> HIDE DEF S
    <2> QED
      BY <1>5, <1>7, NatMin
  <1>9. k = 1
    <2>1. k \in 1 .. n + 1 /\ g[m[k]] = T(k)
      OBVIOUS
    <2>2. ASSUME k # 1 PROVE FALSE
      <3>1. k - 1 \in 1 .. n /\ (k - 1) + 1 = k /\ ~(k <= k - 1) /\ k - 1 \in 1 .. n + 1
        BY <2>1, <2>2
      <3>2. g[m[k - 1]] = T(k - 1)
        BY <1>6, <2>1, <3>1
      <3>3. k - 1 \in S
        BY <3>1, <3>2
      <3> QED
        BY <1>8, <3>1, <3>3
    <2> QED
      BY <2>2
  <1>10. g[1] = T(1)
    BY <1>9
  <1>11. T(1) = MessagesAt(s, m, n)
    <2>1. n + 1 - 1 = n /\ \A j \in 1 .. n : 1 + j - 1 = j
      OBVIOUS
    <2> QED
      BY <2>1 DEF T, MessagesAt
  <1> QED
    BY <1>10, <1>11

\* Between two reads no message is complete where the parser stands.
LEMMA FramesRead == IInv /\ FramesInv => ChunkingInvisible
  <1> SUFFICES ASSUME IInv, FramesInv, pc = "recv"
               PROVE  AllSeen = Decode(received, BodyIgnored)
    BY DEF ChunkingInvisible
  <1> DEFINE s == received
             n == Len(requests)
  <1>1. PICK m : Framed(m, s, requests) /\ Within(m[n + 1], s, Pos, state, request)
    BY DEF FramesInv, Frames
  <1>2. /\ s \in Seq(Unit) /\ Len(s) \in Nat /\ requests \in Seq(Request) /\ n \in Nat
        /\ DOMAIN requests = 1 .. n /\ Pos \in 1 .. Len(s) + 1
    BY WindowBreaks, LenProperties DEF IInv, TypeOK
  <1>3. BreaksFrom(s, Pos) = {}
    BY DEF FramesInv
  <1> HIDE DEF s, n
  <1>4. /\ m \in [1 .. n + 1 -> Nat \ {0}] /\ m[1] = 1
        /\ \A k \in 1 .. n : /\ Whole(s, m[k])
                             /\ m[k + 1] = Blank(s, m[k]) + 2
                             /\ Seen(requests[k]) = Message(s, m[k])
    BY <1>1 DEF Framed, n
  <1> DEFINE i == m[n + 1]
  <1>5. i \in Nat \ {0} /\ Pos \in Nat
    <2>1. n + 1 \in 1 .. n + 1
      BY <1>2
    <2> QED
      BY <1>2, <1>4, <2>1
  <1>6. Within(i, s, Pos, state, request)
    BY <1>1
  <1> HIDE DEF i
  <1>7. ~Whole(s, i) /\ i \in 1 .. Len(s) + 1
    <2>1. CASE InLine(i, s, Pos, state, request)
      BY <1>2, <1>3, <2>1 DEF InLine, Whole
    <2>2. CASE InBlock(i, s, Pos, state, request)
      <3>1. /\ BreaksFrom(s, i) # {}
            /\ \A b \in BlanksFrom(s, End(s, i)) : Pos <= b
        BY <2>2 DEF InBlock
      <3>2. End(s, i) \in i .. Len(s) - 1
        BY <1>2, <1>5, <3>1, EndOf
      <3>3. End(s, i) \in Nat
        BY <1>5, <3>2
      <3>4. \A b \in BlanksFrom(s, End(s, i)) : b \in BreaksFrom(s, Pos)
        BY <1>2, <1>5, <3>1, <3>3, BreakSets
      <3> QED
        BY <1>2, <1>3, <1>5, <3>2, <3>4 DEF Whole
    <2> QED
      BY <1>6, <2>1, <2>2 DEF Within
  <1> DEFINE g == CHOOSE g : Reads(g, s)
  <1>8. Reads(g, s)
    BY <1>2, ReadingExists
  <1>9. Decode(s, BodyIgnored) = g[1]
    BY DecodeReads
  <1> HIDE DEF g
  <1>10. g[1] = MessagesAt(s, m, n)
    <2>1. \A k \in 1 .. n : Whole(s, m[k]) /\ m[k + 1] = Blank(s, m[k]) + 2
      BY <1>4
    <2>2. ~Whole(s, m[n + 1]) /\ m[n + 1] \in 1 .. Len(s) + 1
      BY <1>7 DEF i
    <2>3. m \in [1 .. n + 1 -> Nat \ {0}] /\ m[1] = 1
      BY <1>4
    <2> QED
      BY <1>2, <1>8, <2>1, <2>2, <2>3, ReadMarks
  <1>11. AllSeen = MessagesAt(s, m, n)
    BY <1>2, <1>4 DEF AllSeen, MessagesAt
  <1> QED
    BY <1>9, <1>10, <1>11 DEF s

-----------------------------------------------------------------------------
(* The theorems. *)

\* The types of the session's state, for every stream.
THEOREM TypeCorrect == Spec => []TypeOK
  <1>1. IInv => TypeOK
    BY DEF IInv
  <1> QED
    BY <1>1, AlwaysIInv, PTL

\* appendData and parse never leave the vector: that a chunk is no longer
\* than a new session's buffer is all that HttpSession.cpp:33-42 needs.
THEOREM NeverOutOfBounds == Spec => []IndicesInBuffer
  <1>1. IInv => IndicesInBuffer
    BY DEF IInv
  <1> QED
    BY <1>1, AlwaysIInv, PTL

\* The window is always the end of the stream received: no append,
\* reallocation or compaction (HttpSession.cpp:23-42) loses or moves a byte.
THEOREM NoByteLost == Spec => []WindowIsStreamTail
  <1>1. IInv => WindowIsStreamTail
    BY DEF IInv
  <1> QED
    BY <1>1, AlwaysIInv, PTL

\* However recv cuts the stream into chunks, between two reads the callback
\* has been given exactly the messages that are complete in what arrived, in
\* order and with their fields.
THEOREM ChunksDoNotMatter == Spec => []ChunkingInvisible
  BY AlwaysIInv, AlwaysFrames, FramesRead, PTL
=============================================================================
