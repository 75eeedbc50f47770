--------------------------- MODULE FramingProofs ----------------------------
(***************************************************************************)
(* For buffers of any size, compressed files of any content and reads of   *)
(* any length, a line and a compressed file are handed over whole or the   *)
(* connection is reported as lost.                                         *)
(***************************************************************************)
EXTENDS Framing, SequenceTheorems, TLAPS

\* The reply with line t and file s as one sequence of bytes: its length, and its
\* k-th byte.
Total(s) == IF s = <<>> THEN 3 ELSE Len(s) + 6

ByteOf(t, s, k) ==
  IF k <= 2 THEN Line(t)[k]
  ELSE IF k = 3 THEN NL
  ELSE IF k <= Len(s) + 3 THEN s[k - 3]
  ELSE IF k <= Len(s) + 5 THEN EndLine[k - Len(s) - 3]
  ELSE NL

\* w is the part of it from byte f + 1 to byte g.
Spells(w, t, s, f, g) == Len(w) = g - f /\ \A j \in 1..Len(w) : w[j] = ByteOf(t, s, f + j)

\* How much of the reply the client has consumed, and how much waits in the
\* buffer.
Consumed ==
  IF pc = "line" THEN Len(rec)
  ELSE IF pc = "body" THEN 3 + Len(body)
  ELSE 3 + Len(sent) + Len(rec)
Waiting == IF b.i < b.dim THEN b.dim - b.i ELSE 0

\* Where a child that is killed leaves off: the header is written as a whole, and
\* END too unless CutEnd.
Boundary(w) == w \notin 1..2 /\ (~CutEnd => w \notin {Len(sent) + 4, Len(sent) + 5})

\* What the child has still to write after w bytes.
Left(w) ==
  /\ w = 0 =>
       /\ Spells(wr[1], turn, sent, 0, 3)
       /\ IF sent = <<>> THEN Len(wr) = 1
          ELSE /\ Len(wr) = 3
               /\ Spells(wr[2], turn, sent, 3, Len(sent) + 3)
               /\ Spells(wr[3], turn, sent, Len(sent) + 3, Len(sent) + 6)
  /\ w \in 3..(Len(sent) + 2) =>
       /\ Len(wr) = 2
       /\ Spells(wr[1], turn, sent, w, Len(sent) + 3)
       /\ Spells(wr[2], turn, sent, Len(sent) + 3, Len(sent) + 6)
  /\ sent # <<>> /\ w \in (Len(sent) + 3)..(Len(sent) + 5) =>
       /\ Len(wr) = 1
       /\ Spells(wr[1], turn, sent, w, Len(sent) + 6)
  /\ w = Total(sent) => wr = <<>>

\* The client has received a part of the reply, from its beginning ...
Taking ==
  /\ pc = "line" => Len(rec) <= 2 /\ body = <<>> /\ \A k \in 1..Len(rec) : rec[k] = Line(turn)[k]
  /\ pc = "body" => /\ sent # <<>> /\ rec = Line(turn)
                    /\ Len(body) < Len(sent) /\ \A k \in 1..Len(body) : body[k] = sent[k]
  /\ pc = "end" => /\ sent # <<>> /\ body = sent
                   /\ Len(rec) <= 2 /\ \A k \in 1..Len(rec) : rec[k] = EndLine[k]

\* ... and the bytes after the c it has consumed are in the buffer or under way,
\* or, after the w that the child has written, still to come.
Coming(c) ==
  /\ \A j \in b.i..(b.dim - 1) : b.buffer[j] = ByteOf(turn, sent, c + j - b.i + 1)
  /\ \A k \in 1..Len(net) : net[k] = ByteOf(turn, sent, c + Waiting + k)

Sending(w) ==
  /\ w <= Total(sent)
  /\ Boundary(w) \/ fin = "reset"
  /\ fin = "open" => Left(w)
  /\ fin # "open" => wr = <<>>
  /\ fin = "reset" => net = <<>>

InSync ==
  /\ Taking
  /\ \E c \in Nat, w \in Nat : c = Consumed /\ w = c + Waiting + Len(net) /\ Coming(c) /\ Sending(w)

\* Nothing is left to receive and the connection is lost: a line stays empty, and
\* what body holds will not be used.
Gone ==
  /\ fin # "open" /\ net = <<>> /\ wr = <<>>
  /\ b.i >= b.dim
  /\ pc \in {"line", "end"} => rec = <<>>
  /\ pc # "line" => sent # <<>>
  /\ pc = "body" => rec = Line(turn) /\ Len(body) < Len(sent)

\* Between two calls the buffer is used up, also after a loss: control_buffer
\* survives the connection.
Between ==
  /\ b.i >= b.dim
  /\ pc = "send" \/ ret = 0 => net = <<>> /\ wr = <<>>
  /\ pc = "ret" /\ ret = 0 => body = sent /\ (sent = <<>> => rec = Line(turn))
  /\ pc = "ret" /\ ~CutEnd => ret # -4

BufferForm == b \in [dim : -1..BUFSIZ, i : 0..BUFSIZ, buffer : [0..BUFSIZ -> Bytes]]

Reading == pc \in {"line", "body", "end"}

\* The inductive invariant.
FrameInv ==
  /\ TypeOK /\ BufferForm
  /\ Reading => InSync \/ Gone
  /\ ~Reading => Between

-----------------------------------------------------------------------------
(* Bytes and sequences.                                                    *)

LEMMA Sizes ==
  /\ BUFSIZ \in Nat /\ BUFSIZ >= 1
  /\ Bodies \subseteq Seq(Bytes) /\ <<>> \notin Bodies /\ CutEnd \in BOOLEAN
  /\ NUL \in Bytes /\ NL \in Bytes /\ EOF \notin Bytes /\ NUL = 0 /\ NL = 10 /\ EOF = -1
  /\ Bytes \subseteq Int
  BY FramingAssumption DEF NUL, NL, EOF, Bytes

LEMMA Lines ==
  ASSUME NEW t \in 0..1
  PROVE  Line(t) \in Seq(Bytes) /\ Len(Line(t)) = 2 /\ Line(t)[1] = 65 /\ Line(t)[2] = 66 + t
  BY DEF Line, Bytes

LEMMA EndFacts == EndLine \in Seq(Bytes) /\ Len(EndLine) = 2 /\ EndLine[1] = 69 /\ EndLine[2] = 68
  BY DEF EndLine, Bytes

LEMMA ByteFacts ==
  ASSUME NEW t \in 0..1, NEW s \in Seq(Bytes)
  PROVE  /\ ByteOf(t, s, 1) = 65 /\ ByteOf(t, s, 2) = 66 + t /\ ByteOf(t, s, 3) = 10
         /\ \A k \in 1..Len(s) : ByteOf(t, s, 3 + k) = s[k]
         /\ ByteOf(t, s, Len(s) + 4) = 69 /\ ByteOf(t, s, Len(s) + 5) = 68 /\ ByteOf(t, s, Len(s) + 6) = 10
<1>1. Len(s) \in Nat
  BY LenProperties
<1> QED
  BY <1>1, Lines, EndFacts DEF ByteOf, NL

LEMMA HeadBytes ==
  ASSUME NEW t \in 0..1, NEW s \in Seq(Bytes)
  PROVE  ByteOf(t, s, 1) = 65 /\ ByteOf(t, s, 2) = 66 + t /\ ByteOf(t, s, 3) = 10
  BY ByteFacts

LEMMA BodyByte ==
  ASSUME NEW t \in 0..1, NEW s \in Seq(Bytes), NEW k \in 1..Len(s)
  PROVE  ByteOf(t, s, 3 + k) = s[k]
  BY ByteFacts

\* A sequence that agrees with a line is that line.
LEMMA TwoBytes ==
  ASSUME NEW t \in 0..1, NEW r \in Seq(Bytes), Len(r) = 2
  PROVE  /\ (\A k \in 1..Len(r) : r[k] = Line(t)[k]) => r = Line(t)
         /\ (\A k \in 1..Len(r) : r[k] = EndLine[k]) => r = EndLine
<1>1. ASSUME \A k \in 1..Len(r) : r[k] = Line(t)[k] PROVE r = Line(t)
  <2>1. Line(t) \in Seq(Bytes) /\ Len(r) = Len(Line(t))
    BY Lines
  <2> QED
    BY <1>1, <2>1, SeqEqual
<1>2. ASSUME \A k \in 1..Len(r) : r[k] = EndLine[k] PROVE r = EndLine
  <2>1. EndLine \in Seq(Bytes) /\ Len(r) = Len(EndLine)
    BY EndFacts
  <2> QED
    BY <1>2, <2>1, SeqEqual
<1> QED
  BY <1>1, <1>2

\* A line with its newline.
LEMMA WithNewline ==
  ASSUME NEW w \in Seq(Bytes), Len(w) = 2, NEW l, l = w \o <<NL>>
  PROVE  l \in Seq(Bytes) /\ l # <<>> /\ Len(l) = 3 /\ l[1] = w[1] /\ l[2] = w[2] /\ l[3] = 10
<1>1. <<NL>> \in Seq(Bytes) /\ Len(<<NL>>) = 1 /\ <<NL>>[1] = 10
  BY Sizes
<1>2. /\ l \in Seq(Bytes) /\ Len(l) = 3
      /\ \A i \in 1..3 : l[i] = IF i <= 2 THEN w[i] ELSE <<NL>>[i - 2]
  BY <1>1, ConcatProperties
<1>3. l # <<>>
  BY <1>2, EmptySeq
<1> QED
  BY <1>1, <1>2, <1>3

\* The three writes of a reply.
LEMMA WritesFacts ==
  ASSUME NEW t \in 0..1, NEW s \in Bodies \cup {<<>>}
  PROVE  /\ Writes(t, s) \in Seq(Seq(Bytes) \ {<<>>})
         /\ Len(Writes(t, s)) = IF s = <<>> THEN 1 ELSE 3
         /\ Spells(Writes(t, s)[1], t, s, 0, 3)
         /\ s # <<>> => /\ Spells(Writes(t, s)[2], t, s, 3, Len(s) + 3)
                        /\ Spells(Writes(t, s)[3], t, s, Len(s) + 3, Len(s) + 6)
<1>1. s \in Seq(Bytes) /\ Len(s) \in Nat
  BY Sizes, LenProperties, EmptySeq
<1> DEFINE l == Line(t) \o <<NL>>
           e == EndLine \o <<NL>>
           Chunks == Seq(Bytes) \ {<<>>}
<1>2. l \in Chunks /\ Len(l) = 3 /\ l[1] = 65 /\ l[2] = 66 + t /\ l[3] = 10
  <2>1. Line(t) \in Seq(Bytes) /\ Len(Line(t)) = 2 /\ Line(t)[1] = 65 /\ Line(t)[2] = 66 + t
    BY Lines
  <2>2. l = Line(t) \o <<NL>>
    OBVIOUS
  <2> HIDE DEF l
  <2>3. l \in Seq(Bytes) /\ l # <<>> /\ Len(l) = 3 /\ l[1] = Line(t)[1] /\ l[2] = Line(t)[2] /\ l[3] = 10
    BY <2>1, <2>2, WithNewline, SMTT(30)
  <2> QED
    BY <2>1, <2>3
<1>3. e \in Chunks /\ Len(e) = 3 /\ e[1] = 69 /\ e[2] = 68 /\ e[3] = 10
  <2>1. e = EndLine \o <<NL>>
    OBVIOUS
  <2> HIDE DEF e
  <2>2. e \in Seq(Bytes) /\ e # <<>> /\ Len(e) = 3 /\ e[1] = EndLine[1] /\ e[2] = EndLine[2] /\ e[3] = 10
    BY <2>1, EndFacts, WithNewline, SMTT(30)
  <2> QED
    BY <2>2, EndFacts
<1>4. Writes(t, s) = <<l>> \o IF s = <<>> THEN <<>> ELSE <<s, e>>
  BY DEF Writes
<1> HIDE DEF l, e, Chunks
<1>5. Spells(l, t, s, 0, 3)
  <2>1. \A j \in 1..3 : l[j] = ByteOf(t, s, 0 + j)
    <3>1. l[1] = ByteOf(t, s, 0 + 1) /\ l[2] = ByteOf(t, s, 0 + 2) /\ l[3] = ByteOf(t, s, 0 + 3)
      BY <1>1, <1>2, ByteFacts
    <3> QED
      BY <3>1
  <2> QED
    BY <1>2, <2>1 DEF Spells
<1>6. Spells(e, t, s, Len(s) + 3, Len(s) + 6)
  <2>1. \A j \in 1..3 : e[j] = ByteOf(t, s, (Len(s) + 3) + j)
    <3>1. (Len(s) + 3) + 1 = Len(s) + 4 /\ (Len(s) + 3) + 2 = Len(s) + 5 /\ (Len(s) + 3) + 3 = Len(s) + 6
      BY <1>1
    <3>2. /\ e[1] = ByteOf(t, s, (Len(s) + 3) + 1) /\ e[2] = ByteOf(t, s, (Len(s) + 3) + 2)
          /\ e[3] = ByteOf(t, s, (Len(s) + 3) + 3)
      BY <1>1, <1>3, <3>1, ByteFacts
    <3> QED
      BY <3>2
  <2> QED
    BY <1>1, <1>3, <2>1 DEF Spells
<1>7. Spells(s, t, s, 3, Len(s) + 3)
  BY <1>1, ByteFacts DEF Spells
<1>8. <<l>> \in Seq(Chunks) /\ Len(<<l>>) = 1 /\ <<l>>[1] = l
  BY <1>2
<1>9. CASE s = <<>>
  <2>1. Writes(t, s) = <<l>>
    BY <1>4, <1>8, <1>9, ConcatEmptySeq
  <2> QED
    BY <1>5, <1>8, <1>9, <2>1 DEF Chunks
<1>10. CASE s # <<>>
  <2>1. <<s, e>> \in Seq(Chunks) /\ Len(<<s, e>>) = 2 /\ <<s, e>>[1] = s /\ <<s, e>>[2] = e
    <3>1. s \in Chunks
      BY <1>1, <1>10 DEF Chunks
    <3> QED
      BY <1>3, <3>1
  <2> DEFINE W == Writes(t, s)
  <2>2. /\ W \in Seq(Chunks) /\ Len(W) = 3
        /\ \A i \in 1..3 : W[i] = IF i <= 1 THEN <<l>>[i] ELSE <<s, e>>[i - 1]
    BY <1>4, <1>8, <1>10, <2>1, ConcatProperties
  <2> HIDE DEF W
  <2>3. W[1] = l /\ W[2] = s /\ W[3] = e
    BY <1>8, <2>1, <2>2
  <2> QED
    BY <1>5, <1>6, <1>7, <1>10, <2>2, <2>3 DEF Chunks, W
<1> QED
  BY <1>9, <1>10

\* A write that is taken in part.
LEMMA SpellsCut ==
  ASSUME NEW t \in 0..1, NEW s \in Seq(Bytes), NEW f \in Nat, NEW g \in Nat, NEW w \in Seq(Bytes),
         Spells(w, t, s, f, g), NEW n \in 1..Len(w)
  PROVE  /\ SubSeq(w, 1, n) \in Seq(Bytes) /\ Spells(SubSeq(w, 1, n), t, s, f, f + n)
         /\ SubSeq(w, n + 1, Len(w)) \in Seq(Bytes) /\ Spells(SubSeq(w, n + 1, Len(w)), t, s, f + n, g)
<1>1. Len(w) \in Nat /\ \A i \in 1..Len(w) : w[i] \in Bytes
  BY LenProperties, ElementOfSeq
<1>2. /\ SubSeq(w, 1, n) \in Seq(Bytes) /\ Len(SubSeq(w, 1, n)) = n
      /\ \A j \in 1..n : SubSeq(w, 1, n)[j] = w[j]
  BY <1>1, SubSeqProperties
<1>3. /\ SubSeq(w, n + 1, Len(w)) \in Seq(Bytes) /\ Len(SubSeq(w, n + 1, Len(w))) = Len(w) - n
      /\ \A j \in 1..(Len(w) - n) : SubSeq(w, n + 1, Len(w))[j] = w[n + j]
  BY <1>1, SubSeqProperties
<1> QED
  BY <1>1, <1>2, <1>3 DEF Spells

-----------------------------------------------------------------------------
(* What one call of tcp_getchar_bs or tcp_binary_getchar_bs does.          *)

\* The character was in the buffer.
Took(ch) ==
  /\ b.i < b.dim
  /\ ch = b.buffer[b.i]
  /\ b'.dim = b.dim /\ b'.i = b.i + 1 /\ b'.buffer = b.buffer
  /\ net' = net

\* It was read, with others.
Loaded(ch) ==
  /\ net # <<>>
  /\ ch = net[1]
  /\ b'.dim \in 1..Len(net) /\ b'.i = 1
  /\ \A j \in 1..(b'.dim - 1) : b'.buffer[j] = net[j + 1]
  /\ Len(net') = Len(net) - b'.dim
  /\ \A k \in 1..Len(net') : net'[k] = net[b'.dim + k]

\* The stream has ended, or the read fails.
Ended == net = <<>> /\ net' = <<>> /\ fin = "eof" /\ b'.dim = 0 /\ b'.i = 1
Failed(ch) == net = <<>> /\ net' = <<>> /\ fin = "reset" /\ ch = EOF /\ b'.dim = -1 /\ b'.i = b.i

LEMMA ReadCases ==
  ASSUME TypeOK, BufferForm, NEW n \in Read
  PROVE  \/ net # <<>> /\ n \in 1..BUFSIZ /\ n <= Len(net)
         \/ net = <<>> /\ fin = "eof" /\ n = 0
         \/ net = <<>> /\ fin = "reset" /\ n = -1
<1>1. fin \in {"open", "eof", "reset"}
  BY DEF TypeOK
<1> QED
  BY <1>1 DEF Read

\* A reload with a buffer that begins with what was read.
LEMMA ReloadCases ==
  ASSUME TypeOK, BufferForm, NEW n \in Read, n # -1, NEW ch,
         NEW buffer \in [0..BUFSIZ -> Bytes], \A j \in 0..BUFSIZ : j < n => buffer[j] = net[j + 1],
         FromNet(ch, n, buffer)
  PROVE  /\ BufferForm' /\ net' \in Seq(Bytes) /\ ch \in Bytes
         /\ Loaded(ch) \/ (Ended /\ ch = buffer[0])
<1>1. /\ n \in 0..BUFSIZ /\ n <= Len(net) /\ net \in Seq(Bytes) /\ Len(net) \in Nat /\ BUFSIZ \in Nat /\ BUFSIZ >= 1
      /\ n = 0 <=> net = <<>>
      /\ n = 0 => fin = "eof"
  BY ReadCases, Sizes, LenProperties, EmptySeq DEF TypeOK
<1>2. /\ ch = buffer[0] /\ b' = [dim |-> n, i |-> 1, buffer |-> buffer]
      /\ net' = SubSeq(net, b'.dim + 1, Len(net))
  BY DEF FromNet, Unread
<1>3. b'.dim = n /\ b'.i = 1 /\ b'.buffer = buffer /\ BufferForm' /\ ch \in Bytes
  BY <1>1, <1>2 DEF BufferForm
<1>4. \A k \in (n + 1)..Len(net) : net[k] \in Bytes
  BY <1>1, ElementOfSeq
<1>5. /\ net' \in Seq(Bytes) /\ Len(net') = Len(net) - n
      /\ \A k \in 1..(Len(net) - n) : net'[k] = net[n + k]
  BY <1>1, <1>2, <1>3, <1>4, SubSeqProperties
<1>6. CASE net = <<>>
  BY <1>1, <1>2, <1>3, <1>5, <1>6, EmptySeq DEF Ended
<1>7. CASE net # <<>>
  <2>1. n \in 1..Len(net) /\ ch = net[1]
    BY <1>1, <1>2, <1>7
  <2>2. \A j \in 1..(n - 1) : buffer[j] = net[j + 1]
    BY <1>1
  <2> QED
    BY <1>3, <1>5, <1>7, <2>1, <2>2 DEF Loaded
<1> QED
  BY <1>3, <1>5, <1>6, <1>7

LEMMA BufferCases ==
  ASSUME TypeOK, BufferForm, NEW ch, FromBuffer(ch), b.i < b.dim
  PROVE  BufferForm' /\ net' \in Seq(Bytes) /\ ch \in Bytes /\ Took(ch)
<1>1. /\ ch = b.buffer[b.i] /\ b' = [b EXCEPT !.i = b.i + 1] /\ net' = net /\ net \in Seq(Bytes)
      /\ BUFSIZ \in Nat
  BY Sizes DEF FromBuffer, TypeOK
<1> QED
  BY <1>1 DEF BufferForm, Took

LEMMA FailureCases ==
  ASSUME TypeOK, BufferForm, NEW n \in Read, n = -1, NEW ch, ch = EOF, b' = [b EXCEPT !.dim = -1], net' = net
  PROVE  BufferForm' /\ net' \in Seq(Bytes) /\ Failed(ch)
<1>1. net = <<>> /\ fin = "reset" /\ net \in Seq(Bytes)
  BY ReadCases DEF TypeOK
<1> QED
  BY <1>1, Sizes DEF BufferForm, Failed

\* A line is read: a NUL in the buffer counts as its end.
LEMMA TextChar ==
  ASSUME TypeOK, BufferForm, NEW ch, tcp_getchar_bs(ch)
  PROVE  /\ BufferForm' /\ net' \in Seq(Bytes)
         /\ \/ b.i < b.dim /\ b.buffer[b.i] # NUL /\ Took(ch) /\ ch \in Bytes
            \/ /\ b.i >= b.dim \/ b.buffer[b.i] = NUL
               /\ (Loaded(ch) /\ ch \in Bytes) \/ (Ended /\ ch = NUL) \/ Failed(ch)
<1>1. b.i \in Nat /\ b.dim \in Int
  BY Sizes DEF BufferForm
<1>2. CASE b.i >= b.dim \/ b.buffer[b.i] = NUL
  <2>1. PICK n \in Read : IF n = -1 THEN ch = EOF /\ b' = [b EXCEPT !.dim = -1] /\ UNCHANGED net
                                    ELSE FromNet(ch, n, tcp_receive(n))
    BY <1>2 DEF tcp_getchar_bs
  <2>2. CASE n = -1
    BY <1>2, <2>1, <2>2, FailureCases
  <2>3. CASE n # -1
    <3> DEFINE buffer == tcp_receive(n)
    <3>1. /\ buffer \in [0..BUFSIZ -> Bytes] /\ \A j \in 0..BUFSIZ : j < n => buffer[j] = net[j + 1]
          /\ n = 0 => buffer[0] = NUL
      <4>1. n \in 0..BUFSIZ /\ n <= Len(net) /\ net \in Seq(Bytes) /\ Len(net) \in Nat
        BY <2>3, ReadCases, Sizes, LenProperties, EmptySeq DEF TypeOK
      <4>2. \A j \in 0..BUFSIZ : j < n => net[j + 1] \in Bytes
        BY <4>1, ElementOfSeq
      <4> QED
        BY <4>1, <4>2, Sizes DEF tcp_receive, BufferForm
    <3>2. FromNet(ch, n, buffer)
      BY <2>1, <2>3
    <3> HIDE DEF buffer
    <3>3. /\ BufferForm' /\ net' \in Seq(Bytes) /\ ch \in Bytes
          /\ Loaded(ch) \/ (Ended /\ ch = buffer[0])
      BY <2>3, <3>1, <3>2, ReloadCases
    <3>4. net = <<>> => n = 0
      BY <2>3, ReadCases
    <3> QED
      BY <1>2, <3>1, <3>3, <3>4 DEF Ended
  <2> QED
    BY <2>2, <2>3
<1>3. CASE ~(b.i >= b.dim \/ b.buffer[b.i] = NUL)
  <2>1. FromBuffer(ch) /\ b.i < b.dim
    BY <1>1, <1>3 DEF tcp_getchar_bs
  <2> QED
    BY <1>3, <2>1, BufferCases
<1> QED
  BY <1>2, <1>3

\* A compressed file is read: every byte counts.
LEMMA BinaryChar ==
  ASSUME TypeOK, BufferForm, NEW ch, tcp_binary_getchar_bs(ch)
  PROVE  /\ BufferForm' /\ net' \in Seq(Bytes)
         /\ \/ b.i < b.dim /\ Took(ch) /\ ch \in Bytes
            \/ b.i >= b.dim /\ ((Loaded(ch) /\ ch \in Bytes) \/ (Ended /\ ch \in Bytes) \/ Failed(ch))
<1>1. b.i \in Nat /\ b.dim \in Int
  BY Sizes DEF BufferForm
<1>2. CASE b.i >= b.dim
  <2>1. PICK n \in Read : IF n = -1 THEN ch = EOF /\ b' = [b EXCEPT !.dim = -1] /\ UNCHANGED net
                                    ELSE FromNet(ch, n, tcp_binary_receive(n))
    BY <1>2 DEF tcp_binary_getchar_bs
  <2>2. CASE n = -1
    BY <1>2, <2>1, <2>2, FailureCases
  <2>3. CASE n # -1
    <3> DEFINE buffer == tcp_binary_receive(n)
    <3>1. buffer \in [0..BUFSIZ -> Bytes] /\ \A j \in 0..BUFSIZ : j < n => buffer[j] = net[j + 1]
      <4>1. n \in 0..BUFSIZ /\ n <= Len(net) /\ net \in Seq(Bytes) /\ Len(net) \in Nat
        BY <2>3, ReadCases, Sizes, LenProperties, EmptySeq DEF TypeOK
      <4>2. \A j \in 0..BUFSIZ : j < n => net[j + 1] \in Bytes
        BY <4>1, ElementOfSeq
      <4> QED
        BY <4>1, <4>2, Sizes DEF tcp_binary_receive, BufferForm
    <3>2. FromNet(ch, n, buffer)
      BY <2>1, <2>3
    <3> HIDE DEF buffer
    <3> QED
      BY <1>2, <2>3, <3>1, <3>2, ReloadCases
  <2> QED
    BY <2>2, <2>3
<1>3. CASE ~(b.i >= b.dim)
  <2>1. FromBuffer(ch) /\ b.i < b.dim
    BY <1>1, <1>3 DEF tcp_binary_getchar_bs
  <2> QED
    BY <2>1, BufferCases
<1> QED
  BY <1>2, <1>3

-----------------------------------------------------------------------------
(* Types: reads stay within the buffer.                                    *)

Chunks == Seq(Bytes) \ {<<>>}

\* A write: n bytes of what is to be written next.
Wrote(n) ==
  /\ n \in 1..Len(wr[1]) /\ (n = Len(wr[1]) \/ Len(wr) = 2 \/ (CutEnd /\ Len(wr) = 1 /\ sent # <<>>))
  /\ Len(net') = Len(net) + n
  /\ \A k \in 1..Len(net) : net'[k] = net[k]
  /\ \A k \in 1..n : net'[Len(net) + k] = wr[1][k]
  /\ \/ /\ n = Len(wr[1]) /\ Len(wr') = Len(wr) - 1
        /\ \A j \in 1..(Len(wr) - 1) : wr'[j] = wr[j + 1]
     \/ /\ n < Len(wr[1]) /\ Len(wr') = Len(wr)
        /\ wr'[1] = SubSeq(wr[1], n + 1, Len(wr[1]))
        /\ \A j \in 2..Len(wr) : wr'[j] = wr[j]

LEMMA SendCases ==
  ASSUME TypeOK, tcp_send
  PROVE  /\ wr' \in Seq(Chunks) /\ Len(wr') <= 3 /\ net' \in Seq(Bytes)
         /\ Len(wr) \in 1..3 /\ wr[1] \in Chunks
         /\ \E n \in Nat : Wrote(n)
<1>1. /\ wr \in Seq(Chunks) /\ wr # <<>> /\ net \in Seq(Bytes) /\ Len(net) \in Nat
      /\ Len(wr) \in 1..3 /\ Head(wr) = wr[1] /\ wr[1] \in Chunks
  <2>1. wr \in Seq(Chunks) /\ wr # <<>> /\ Len(wr) <= 3 /\ net \in Seq(Bytes)
    BY DEF TypeOK, tcp_send, Chunks
  <2>2. Len(wr) \in Nat /\ Len(wr) # 0 /\ Len(net) \in Nat
    BY <2>1, LenProperties, EmptySeq
  <2>3. wr[1] \in Chunks
    BY <2>1, <2>2, ElementOfSeq
  <2>4. Head(wr) = wr[1]
    BY <2>1
  <2>5. \A m \in Nat : m # 0 /\ m <= 3 => m \in 1..3
    OBVIOUS
  <2>6. Len(wr) \in 1..3
    BY <2>1, <2>2, <2>5, Zenon
  <2> QED
    BY <2>1, <2>2, <2>3, <2>4, <2>6, Zenon
<1>0. \A m \in 1..3 : m <= 3 /\ m - 1 <= 3
  OBVIOUS
<1> DEFINE h == wr[1]
<1>2. h \in Seq(Bytes) /\ Len(h) \in Nat /\ Len(h) >= 1 /\ \A i \in 1..Len(h) : h[i] \in Bytes
  BY <1>1, LenProperties, EmptySeq, ElementOfSeq DEF Chunks
<1>3. /\ Tail(wr) \in Seq(Chunks) /\ Len(Tail(wr)) = Len(wr) - 1
      /\ \A j \in 1..(Len(wr) - 1) : Tail(wr)[j] = wr[j + 1]
  BY <1>1, HeadTailProperties
<1>4. PICK n \in Taken(h) : /\ net' = net \o SubSeq(h, 1, n)
                            /\ wr' = IF n = Len(h) THEN Tail(wr)
                                     ELSE <<SubSeq(h, n + 1, Len(h))>> \o Tail(wr)
  BY <1>1 DEF tcp_send
<1>5. n \in 1..Len(h) /\ (n = Len(h) \/ Len(wr) = 2 \/ (CutEnd /\ Len(wr) = 1 /\ sent # <<>>))
  BY <1>2, <1>4 DEF Taken
<1> HIDE DEF h
<1>6. /\ SubSeq(h, 1, n) \in Seq(Bytes) /\ Len(SubSeq(h, 1, n)) = n
      /\ \A j \in 1..n : SubSeq(h, 1, n)[j] = h[j]
  BY <1>2, <1>5, SubSeqProperties
<1> DEFINE p == SubSeq(h, 1, n)
<1>7. p \in Seq(Bytes) /\ Len(p) = n /\ (\A j \in 1..n : p[j] = h[j]) /\ net' = net \o p
  BY <1>4, <1>6
<1> HIDE DEF p
<1>8. /\ net' \in Seq(Bytes) /\ Len(net') = Len(net) + n
      /\ \A k \in 1..(Len(net) + n) : net'[k] = IF k <= Len(net) THEN net[k] ELSE p[k - Len(net)]
  BY <1>1, <1>7, ConcatProperties
<1>9. /\ \A k \in 1..Len(net) : net'[k] = net[k]
      /\ \A k \in 1..n : net'[Len(net) + k] = h[k]
  BY <1>1, <1>5, <1>7, <1>8
<1>10. CASE n = Len(h)
  <2>1. wr' = Tail(wr)
    BY <1>4, <1>10
  <2>2. /\ Len(wr') = Len(wr) - 1 /\ \A j \in 1..(Len(wr) - 1) : wr'[j] = wr[j + 1]
        /\ wr' \in Seq(Chunks) /\ Len(wr') <= 3
    BY <1>0, <1>1, <1>3, <2>1, Zenon
  <2>3. Wrote(n)
    BY <1>5, <1>8, <1>9, <1>10, <2>2 DEF Wrote, h
  <2>4. n \in Nat
    BY <1>2, <1>5
  <2> QED
    BY <1>1, <1>8, <2>2, <2>3, <2>4
<1>11. CASE n # Len(h)
  <2> DEFINE r == SubSeq(h, n + 1, Len(h))
             q == <<r>>
  <2>1. r \in Seq(Bytes) /\ Len(r) = Len(h) - n
    BY <1>2, <1>5, SubSeqProperties
  <2>2. r \in Chunks
    <3>1. Len(r) # 0 /\ Len(<<>>) = 0
      BY <1>2, <1>5, <1>11, <2>1
    <3> QED
      BY <2>1, <3>1 DEF Chunks
  <2>3. wr' = q \o Tail(wr)
    BY <1>4, <1>11
  <2> HIDE DEF r
  <2>4. q \in Seq(Chunks) /\ Len(q) = 1 /\ q[1] = r
    BY <2>2
  <2> HIDE DEF q
  <2>5. /\ wr' \in Seq(Chunks) /\ Len(wr') = Len(wr)
        /\ \A j \in 1..Len(wr) : wr'[j] = IF j <= 1 THEN q[j] ELSE Tail(wr)[j - 1]
    <3> DEFINE y == Tail(wr)
    <3>1. y \in Seq(Chunks) /\ Len(y) = Len(wr) - 1 /\ y = Tail(wr)
      BY <1>3
    <3> HIDE DEF y
    <3>2. /\ q \o y \in Seq(Chunks) /\ Len(q \o y) = Len(q) + Len(y)
          /\ \A j \in 1..(Len(q) + Len(y)) : (q \o y)[j] = IF j <= Len(q) THEN q[j] ELSE y[j - Len(q)]
      BY <2>4, <3>1, ConcatProperties
    <3>3. Len(q) + Len(y) = Len(wr)
      BY <1>1, <2>4, <3>1
    <3> QED
      BY <2>3, <2>4, <3>1, <3>2, <3>3
  <2>6. wr'[1] = r /\ \A j \in 2..Len(wr) : wr'[j] = wr[j]
    BY <1>1, <1>3, <2>4, <2>5
  <2>7. n \in 1..Len(h) /\ n < Len(h)
    BY <1>2, <1>5, <1>11
  <2>8. Wrote(n)
    BY <1>5, <1>8, <1>9, <2>5, <2>6, <2>7 DEF Wrote, h, r
  <2>9. n \in Nat
    BY <1>2, <1>5
  <2>10. Len(wr') <= 3
    BY <1>0, <1>1, <2>5, Zenon
  <2> QED
    BY <1>1, <1>8, <2>5, <2>8, <2>9, <2>10
<1> QED
  BY <1>10, <1>11

LEMMA BufferTypes == ASSUME BufferForm PROVE b.dim \in -1..BUFSIZ /\ b.i \in 0..BUFSIZ /\ b.buffer \in [0..BUFSIZ -> Bytes]
  BY DEF BufferForm

LEMMA InitForm == Init => TypeOK /\ BufferForm
<1> SUFFICES ASSUME Init PROVE TypeOK /\ BufferForm
  OBVIOUS
<1>1. b = init_buffer_tcp /\ BufferForm
  BY Sizes DEF Init, init_buffer_tcp, BufferForm
<1>2. /\ b.dim \in -1..BUFSIZ /\ b.i \in 0..BUFSIZ /\ b.buffer \in [0..BUFSIZ -> Bytes]
  BY <1>1, BufferTypes
<1> QED
  BY <1>1, <1>2, EmptySeq DEF Init, TypeOK

LEMMA ServerForm ==
  ASSUME TypeOK, BufferForm, tcp_send \/ Die \/ Reset
  PROVE  TypeOK' /\ BufferForm'
<1>1. BufferForm' /\ b' = b
  BY DEF BufferForm, tcp_send, Die, Reset
<1>2. CASE tcp_send
  <2>1. wr' \in Seq(Chunks) /\ Len(wr') <= 3 /\ net' \in Seq(Bytes)
    BY <1>2, SendCases
  <2> QED
    BY <1>1, <1>2, <2>1 DEF TypeOK, tcp_send, Chunks
<1>3. wr' = <<>> => wr' \in Seq(Chunks) /\ Len(wr') <= 3
  BY EmptySeq
<1>4. net' = <<>> => net' \in Seq(Bytes)
  BY EmptySeq
<1>5. CASE Die
  BY <1>1, <1>3, <1>5 DEF TypeOK, Die, Chunks
<1>6. CASE Reset
  BY <1>1, <1>3, <1>4, <1>6 DEF TypeOK, Reset, Chunks
<1> QED
  BY <1>2, <1>5, <1>6

LEMMA RequestForm ==
  ASSUME TypeOK, BufferForm, TcpSendReceive
  PROVE  TypeOK' /\ BufferForm'
<1>1. BufferForm' /\ b' = b
  BY DEF BufferForm, TcpSendReceive
<1>2. <<>> \in Seq(Bytes)
  BY EmptySeq
<1>3. /\ turn' \in 0..1 /\ sent' \in Bodies \cup {<<>>} /\ wr' \in Seq(Chunks) /\ Len(wr') <= 3
      /\ pc' \in {"line", "ret"} /\ ret' \in {0, -2, -4}
  <2>1. CASE fin # "open"
    BY <2>1 DEF TypeOK, TcpSendReceive, serverVars, Chunks
  <2>2. CASE fin = "open"
    <3>1. turn' \in 0..1 /\ sent' \in Bodies \cup {<<>>} /\ wr' = Writes(turn', sent') /\ pc' = "line" /\ ret' \in {0, -2, -4}
      BY <2>2 DEF TypeOK, TcpSendReceive
    <3>2. wr' \in Seq(Chunks) /\ Len(wr') = IF sent' = <<>> THEN 1 ELSE 3
      BY <3>1, WritesFacts DEF Chunks
    <3>3. Len(wr') <= 3
      BY <3>2
    <3> QED
      BY <3>1, <3>2, <3>3
  <2> QED
    BY <2>1, <2>2
<1> QED
  BY <1>1, <1>2, <1>3 DEF TypeOK, TcpSendReceive, Chunks

LEMMA ReadlineForm ==
  ASSUME TypeOK, BufferForm, tcp_readline
  PROVE  TypeOK' /\ BufferForm'
<1>1. PICK ch \in Bytes \cup {EOF} :
        /\ tcp_getchar_bs(ch)
        /\ \/ ch = EOF /\ Return(-2) /\ UNCHANGED rec
           \/ ch \in {NL, NUL} /\ LineRead /\ UNCHANGED rec
           \/ ch \notin {EOF, NL, NUL} /\ rec' = Append(rec, ch) /\ UNCHANGED <<pc, ret>>
  BY DEF tcp_readline
<1>2. BufferForm' /\ net' \in Seq(Bytes)
  BY <1>1, TextChar
<1>3. rec' \in Seq(Bytes) /\ pc' \in {"send", "line", "body", "end", "ret"} /\ ret' \in {0, -2, -4}
  <2>1. CASE ch = EOF /\ Return(-2) /\ UNCHANGED rec
    BY <2>1 DEF Return, TypeOK
  <2>2. CASE ch \in {NL, NUL} /\ LineRead /\ UNCHANGED rec
    BY <2>2 DEF LineRead, Return, TypeOK
  <2>3. CASE ch \notin {EOF, NL, NUL} /\ rec' = Append(rec, ch) /\ UNCHANGED <<pc, ret>>
    <3>1. ch \in Bytes /\ rec \in Seq(Bytes)
      BY <2>3 DEF TypeOK
    <3>2. rec' \in Seq(Bytes)
      BY <2>3, <3>1, AppendProperties
    <3> QED
      BY <2>3, <3>2 DEF TypeOK
  <2> QED
    BY <1>1, <2>1, <2>2, <2>3
<1>4. /\ (b.dim)' \in -1..BUFSIZ /\ (b.i)' \in 0..BUFSIZ /\ (b.buffer)' \in [0..BUFSIZ -> Bytes]
  BY <1>2 DEF BufferForm
<1> QED
  BY <1>2, <1>3, <1>4 DEF TypeOK, tcp_readline, serverVars

LEMMA ReceiveForm ==
  ASSUME TypeOK, BufferForm, ReceiveAndDecompress
  PROVE  TypeOK' /\ BufferForm'
<1>1. PICK ch \in Bytes \cup {EOF} :
        /\ tcp_binary_getchar_bs(ch)
        /\ \/ ch = EOF /\ Return(-2) /\ UNCHANGED <<rec, body>>
           \/ /\ ch # EOF
              /\ body' = Append(body, ch)
              /\ IF Len(body') = Len(sent) THEN pc' = "end" /\ rec' = <<>> ELSE UNCHANGED <<pc, rec>>
              /\ UNCHANGED ret
  BY DEF ReceiveAndDecompress
<1>2. BufferForm' /\ net' \in Seq(Bytes)
  BY <1>1, BinaryChar
<1>3. /\ rec' \in Seq(Bytes) /\ body' \in Seq(Bytes)
      /\ pc' \in {"send", "line", "body", "end", "ret"} /\ ret' \in {0, -2, -4}
  <2>1. CASE ch = EOF /\ Return(-2) /\ UNCHANGED <<rec, body>>
    BY <2>1 DEF Return, TypeOK
  <2>2. CASE /\ ch # EOF
             /\ body' = Append(body, ch)
             /\ IF Len(body') = Len(sent) THEN pc' = "end" /\ rec' = <<>> ELSE UNCHANGED <<pc, rec>>
             /\ UNCHANGED ret
    <3>1. ch \in Bytes /\ body \in Seq(Bytes) /\ <<>> \in Seq(Bytes)
      BY <2>2, EmptySeq DEF TypeOK
    <3>2. body' \in Seq(Bytes)
      BY <2>2, <3>1, AppendProperties
    <3>3. (pc' = "end" /\ rec' = <<>>) \/ (pc' = pc /\ rec' = rec)
      BY <2>2
    <3> QED
      BY <2>2, <3>1, <3>2, <3>3 DEF TypeOK
  <2> QED
    BY <1>1, <2>1, <2>2
<1>4. /\ (b.dim)' \in -1..BUFSIZ /\ (b.i)' \in 0..BUFSIZ /\ (b.buffer)' \in [0..BUFSIZ -> Bytes]
  BY <1>2 DEF BufferForm
<1> QED
  BY <1>2, <1>3, <1>4 DEF TypeOK, ReceiveAndDecompress, serverVars

LEMMA ReconnectForm ==
  ASSUME TypeOK, BufferForm, Connect \/ NextRequest \/ UNCHANGED vars
  PROVE  TypeOK' /\ BufferForm'
<1>1. CASE Connect
  <2>1. BufferForm'
    <3>1. b' = b \/ b' = init_buffer_tcp
      BY <1>1 DEF Connect
    <3> QED
      BY <3>1, Sizes DEF BufferForm, init_buffer_tcp
  <2>2. /\ (b.dim)' \in -1..BUFSIZ /\ (b.i)' \in 0..BUFSIZ /\ (b.buffer)' \in [0..BUFSIZ -> Bytes]
    BY <2>1 DEF BufferForm
  <2>3. wr' \in Seq(Chunks) /\ Len(wr') <= 3 /\ net' \in Seq(Bytes)
    <3>1. wr' = <<>> /\ net' = <<>>
      BY <1>1 DEF Connect
    <3> QED
      BY <3>1, EmptySeq
  <2> QED
    BY <1>1, <2>1, <2>2, <2>3 DEF Connect, TypeOK, Chunks
<1>2. CASE NextRequest \/ UNCHANGED vars
  BY <1>2 DEF NextRequest, vars, serverVars, TypeOK, BufferForm
<1> QED
  BY <1>1, <1>2

\* No read is longer than the room in the buffer, whose last place stays for the
\* NUL that tcp_receive adds, and the position in it never passes its end, for
\* every size of the buffer and every content of the stream.
THEOREM FramingTypes == Spec => []TypeOK
<1>1. Init => TypeOK /\ BufferForm
  BY InitForm
<1>2. TypeOK /\ BufferForm /\ [Next]_vars => TypeOK' /\ BufferForm'
  BY ServerForm, RequestForm, ReadlineForm, ReceiveForm, ReconnectForm DEF Next, Client
<1> QED
  BY <1>1, <1>2, PTL DEF Spec

-----------------------------------------------------------------------------
(* The invariant: the child's steps.                                       *)

\* The lengths are natural numbers.
Counted ==
  /\ Len(rec) \in Nat /\ Len(body) \in Nat /\ Len(sent) \in Nat /\ Len(net) \in Nat
  /\ sent \in Seq(Bytes) /\ (Len(sent) = 0 <=> sent = <<>>) /\ (Len(rec) = 0 <=> rec = <<>>)
  /\ (Len(net) = 0 <=> net = <<>>)
  /\ b.i \in Nat /\ b.dim \in Int /\ turn \in 0..1
  /\ Waiting \in Nat /\ Consumed \in Nat /\ Total(sent) \in Nat

LEMMA Counts == TypeOK /\ BufferForm => Counted
<1> SUFFICES ASSUME TypeOK, BufferForm PROVE Counted
  OBVIOUS
<1>1. sent \in Seq(Bytes) /\ rec \in Seq(Bytes) /\ body \in Seq(Bytes) /\ net \in Seq(Bytes) /\ turn \in 0..1
  BY Sizes, EmptySeq DEF TypeOK
<1>2. /\ Len(rec) \in Nat /\ Len(body) \in Nat /\ Len(sent) \in Nat /\ Len(net) \in Nat
      /\ (Len(sent) = 0 <=> sent = <<>>) /\ (Len(rec) = 0 <=> rec = <<>>)
      /\ (Len(net) = 0 <=> net = <<>>)
  BY <1>1, LenProperties, EmptySeq
<1>3. b.i \in Nat /\ b.dim \in Int
  BY Sizes DEF BufferForm
<1>4. Waiting \in Nat /\ Consumed \in Nat /\ Total(sent) \in Nat
  BY <1>2, <1>3 DEF Waiting, Consumed, Total
<1> QED
  BY <1>1, <1>2, <1>3, <1>4 DEF Counted

LEMMA CountsAfter == TypeOK' /\ BufferForm' => Counted'
  BY Counts, PTL

\* What the next write is.
LEMMA NextWrite ==
  ASSUME TypeOK, BufferForm, NEW w \in Nat, fin = "open", Sending(w), wr # <<>>
  PROVE  \/ /\ w = 0 /\ Spells(wr[1], turn, sent, 0, 3)
            /\ IF sent = <<>> THEN Len(wr) = 1
               ELSE /\ Len(wr) = 3
                    /\ Spells(wr[2], turn, sent, 3, Len(sent) + 3)
                    /\ Spells(wr[3], turn, sent, Len(sent) + 3, Len(sent) + 6)
         \/ /\ sent # <<>> /\ w \in 3..(Len(sent) + 2) /\ Len(wr) = 2
            /\ Spells(wr[1], turn, sent, w, Len(sent) + 3)
            /\ Spells(wr[2], turn, sent, Len(sent) + 3, Len(sent) + 6)
         \/ /\ sent # <<>> /\ w \in (Len(sent) + 3)..(Len(sent) + 5) /\ Len(wr) = 1
            /\ Spells(wr[1], turn, sent, w, Len(sent) + 6)
<1>1. Left(w) /\ w <= Total(sent) /\ w # Total(sent) /\ w \notin 1..2
  BY DEF Sending, Left, Boundary
<1>2. Len(sent) \in Nat /\ (Len(sent) = 0 <=> sent = <<>>)
  BY Counts DEF Counted
<1>3. CASE sent = <<>>
  <2>1. w = 0
    BY <1>1, <1>3 DEF Total
  <2> QED
    BY <1>1, <1>3, <2>1 DEF Left
<1>4. CASE sent # <<>>
  <2>1. w = 0 \/ w \in 3..(Len(sent) + 2) \/ w \in (Len(sent) + 3)..(Len(sent) + 5)
    BY <1>1, <1>2, <1>4 DEF Total
  <2> QED
    BY <1>1, <1>4, <2>1 DEF Left
<1> QED
  BY <1>3, <1>4

\* After a write the rest is still to be written, and a child that is killed has
\* left off at a boundary.
LEMMA WriteMoves ==
  ASSUME TypeOK, BufferForm, NEW w \in Nat, NEW n \in Nat, fin = "open", Sending(w), wr # <<>>,
         wr[1] \in Chunks, Wrote(n), wr' \in Seq(Chunks), UNCHANGED <<turn, sent, fin>>
  PROVE  Sending(w + n)' /\ \A k \in 1..n : wr[1][k] = ByteOf(turn, sent, w + k)
<1>1. /\ Len(sent) \in Nat /\ (Len(sent) = 0 <=> sent = <<>>) /\ sent \in Seq(Bytes) /\ turn \in 0..1
      /\ Len(wr') = 0 => wr' = <<>>
  BY Counts, EmptySeq DEF Counted
<1>2. wr[1] \in Seq(Bytes) /\ Len(wr[1]) \in Nat
  BY LenProperties DEF Chunks
<1>3. /\ n \in 1..Len(wr[1])
      /\ n = Len(wr[1]) => Len(wr') = Len(wr) - 1 /\ \A j \in 1..(Len(wr) - 1) : wr'[j] = wr[j + 1]
      /\ n # Len(wr[1]) => /\ Len(wr') = Len(wr) /\ wr'[1] = SubSeq(wr[1], n + 1, Len(wr[1]))
                           /\ \A j \in 2..Len(wr) : wr'[j] = wr[j]
                           /\ Len(wr) = 2 \/ (CutEnd /\ Len(wr) = 1 /\ sent # <<>>)
  BY <1>2 DEF Wrote
<1>4. SUFFICES /\ w + n <= Total(sent)
               /\ Boundary(w + n)
               /\ Left(w + n)'
               /\ \A k \in 1..n : wr[1][k] = ByteOf(turn, sent, w + k)
  BY DEF Sending, Boundary
<1>5. CASE /\ w = 0 /\ Spells(wr[1], turn, sent, 0, 3)
           /\ IF sent = <<>> THEN Len(wr) = 1
              ELSE /\ Len(wr) = 3
                   /\ Spells(wr[2], turn, sent, 3, Len(sent) + 3)
                   /\ Spells(wr[3], turn, sent, Len(sent) + 3, Len(sent) + 6)
  <2>1. n = 3 /\ Len(wr[1]) = 3
    <3>1. Len(wr[1]) = 3
      BY <1>5 DEF Spells
    <3>2. ~(Len(wr) = 2) /\ ~(Len(wr) = 1 /\ sent # <<>>)
      <4>1. 1 # 2 /\ 3 # 2 /\ 3 # 1
        OBVIOUS
      <4> QED
        BY <1>5, <4>1, Zenon
    <3> QED
      BY <1>3, <3>1, <3>2
  <2>2. \A k \in 1..n : wr[1][k] = ByteOf(turn, sent, w + k)
    BY <1>5, <2>1 DEF Spells
  <2>3. w + n <= Total(sent) /\ Boundary(w + n)
    BY <1>1, <1>5, <2>1 DEF Total, Boundary
  <2>4. CASE sent = <<>>
    <3>1. wr' = <<>>
      <4>1. Len(wr) = 1
        BY <1>5, <2>4
      <4>2. Len(wr') = 0
        BY <1>3, <2>1, <4>1
      <4> QED
        BY <1>1, <4>2
    <3> QED
      BY <1>1, <1>5, <2>1, <2>2, <2>3, <2>4, <3>1 DEF Left
  <2>5. CASE sent # <<>>
    <3>1. Len(wr') = 2 /\ wr'[1] = wr[2] /\ wr'[2] = wr[3]
      <4>1. Len(wr) = 3
        BY <1>5, <2>5
      <4> QED
        BY <1>3, <2>1, <4>1
    <3>2. w + n = 3 /\ w + n # Total(sent)
      BY <1>1, <1>5, <2>1, <2>5 DEF Total
    <3>3. Left(w + n)'
      BY <1>1, <1>5, <2>5, <3>1, <3>2 DEF Left
    <3> QED
      BY <2>2, <2>3, <3>3
  <2> QED
    BY <2>4, <2>5
<1>6. CASE /\ sent # <<>> /\ w \in 3..(Len(sent) + 2) /\ Len(wr) = 2
           /\ Spells(wr[1], turn, sent, w, Len(sent) + 3)
           /\ Spells(wr[2], turn, sent, Len(sent) + 3, Len(sent) + 6)
  <2>1. Len(wr[1]) = Len(sent) + 3 - w /\ \A k \in 1..n : wr[1][k] = ByteOf(turn, sent, w + k)
    BY <1>1, <1>2, <1>3, <1>6 DEF Spells
  <2>2. w + n <= Total(sent) /\ Boundary(w + n) /\ w + n # Total(sent) /\ w + n # 0
    BY <1>1, <1>3, <1>6, <2>1, SMTT(30) DEF Total, Boundary
  <2>3. CASE n = Len(wr[1])
    <3>1. Len(wr') = 1 /\ wr'[1] = wr[2] /\ w + n = Len(sent) + 3
      BY <1>1, <1>3, <1>6, <2>1, <2>3
    <3>2. Left(w + n)'
      BY <1>1, <1>6, <2>2, <3>1 DEF Left
    <3> QED
      BY <2>1, <2>2, <3>2
  <2>4. CASE n # Len(wr[1])
    <3>1. /\ Len(wr') = 2 /\ wr'[1] = SubSeq(wr[1], n + 1, Len(wr[1])) /\ wr'[2] = wr[2]
          /\ w + n \in 3..(Len(sent) + 2)
      <4>1. Len(wr') = 2 /\ wr'[1] = SubSeq(wr[1], n + 1, Len(wr[1])) /\ wr'[2] = wr[2]
        BY <1>3, <1>6, <2>4
      <4>2. n < Len(sent) + 3 - w
        BY <1>2, <1>3, <2>1, <2>4
      <4> QED
        BY <1>1, <1>6, <4>1, <4>2
    <3>2. Spells(wr'[1], turn, sent, w + n, Len(sent) + 3)
      BY <1>1, <1>2, <1>3, <1>6, <3>1, SpellsCut
    <3>3. Left(w + n)'
      BY <1>1, <1>6, <2>2, <3>1, <3>2 DEF Left
    <3> QED
      BY <2>1, <2>2, <3>3
  <2> QED
    BY <2>3, <2>4
<1>7. CASE /\ sent # <<>> /\ w \in (Len(sent) + 3)..(Len(sent) + 5) /\ Len(wr) = 1
           /\ Spells(wr[1], turn, sent, w, Len(sent) + 6)
  <2>1. Len(wr[1]) = Len(sent) + 6 - w /\ \A k \in 1..n : wr[1][k] = ByteOf(turn, sent, w + k)
    BY <1>1, <1>2, <1>3, <1>7 DEF Spells
  <2>2. w + n <= Total(sent) /\ w + n # 0 /\ w + n \notin 3..(Len(sent) + 2) /\ w + n \notin 1..2
    BY <1>1, <1>3, <1>7, <2>1 DEF Total
  <2>3. CASE n = Len(wr[1])
    <3>1. wr' = <<>> /\ w + n = Len(sent) + 6
      BY <1>1, <1>3, <1>7, <2>1, <2>3
    <3>2. Left(w + n)' /\ Boundary(w + n)
      BY <1>1, <1>7, <2>2, <3>1 DEF Left, Boundary
    <3> QED
      BY <2>1, <2>2, <3>2
  <2>4. CASE n # Len(wr[1])
    <3>1. /\ Len(wr') = 1 /\ wr'[1] = SubSeq(wr[1], n + 1, Len(wr[1])) /\ CutEnd
          /\ w + n \in (Len(sent) + 3)..(Len(sent) + 5) /\ w + n # Total(sent)
      <4>1. Len(wr) = 1 /\ 1 # 2
        BY <1>7
      <4>2. Len(wr') = 1 /\ wr'[1] = SubSeq(wr[1], n + 1, Len(wr[1])) /\ CutEnd
        BY <1>3, <2>4, <4>1, Zenon
      <4>3. n < Len(sent) + 6 - w
        BY <1>2, <1>3, <2>1, <2>4
      <4>4. w + n \in (Len(sent) + 3)..(Len(sent) + 5)
        BY <1>1, <1>7, <4>3
      <4>5. w + n # Total(sent)
        BY <1>1, <1>7, <4>4 DEF Total
      <4> QED
        BY <4>2, <4>4, <4>5
    <3>2. Spells(wr'[1], turn, sent, w + n, Len(sent) + 6)
      BY <1>1, <1>2, <1>3, <1>7, <3>1, SpellsCut
    <3>3. Left(w + n)' /\ Boundary(w + n)
      BY <1>1, <1>7, <2>2, <3>1, <3>2 DEF Left, Boundary
    <3> QED
      BY <2>1, <2>2, <3>3
  <2> QED
    BY <2>3, <2>4
<1> QED
  BY <1>5, <1>6, <1>7, NextWrite

\* Every step of the child, and every end of it.
LEMMA ServerKeeps ==
  ASSUME FrameInv, tcp_send \/ Die \/ Reset
  PROVE  FrameInv'
<1>1. TypeOK /\ BufferForm /\ TypeOK' /\ BufferForm'
  BY ServerForm DEF FrameInv
<1>2. UNCHANGED <<kind, turn, sent, b, pc, rec, body, ret>> /\ fin = "open"
  BY DEF tcp_send, Die, Reset
<1>3. (Reading <=> Reading') /\ (Taking => Taking') /\ Consumed' = Consumed /\ Waiting' = Waiting
  BY <1>2 DEF Reading, Taking, Consumed, Waiting
<1>4. CASE ~Reading
  <2>1. Between
    BY <1>4 DEF FrameInv
  <2>2. pc = "send" \/ ret = 0 => net' = <<>> /\ wr' = <<>>
    BY <1>2, <2>1 DEF Between, tcp_send, Die, Reset
  <2> QED
    BY <1>1, <1>2, <1>3, <1>4, <2>1, <2>2 DEF FrameInv, Between
<1>5. CASE Reading
  <2>1. InSync
    BY <1>2, <1>5 DEF FrameInv, Gone
  <2>2. PICK c \in Nat, w \in Nat : c = Consumed /\ w = c + Waiting + Len(net) /\ Coming(c) /\ Sending(w)
    BY <2>1 DEF InSync
  <2>3. Len(net) \in Nat /\ Waiting \in Nat
    BY <1>1, Counts DEF Counted
  <2>4. SUFFICES \E v \in Nat : v = c + Waiting + Len(net') /\ Coming(c)' /\ Sending(v)'
    BY <1>1, <1>3, <1>5, <2>1, <2>2 DEF FrameInv, InSync
  <2>5. CASE tcp_send
    <3>1. PICK n \in Nat : Wrote(n)
      BY <1>1, <2>5, SendCases
    <3>2. wr' \in Seq(Chunks) /\ wr[1] \in Chunks /\ wr # <<>>
      BY <1>1, <2>5, SendCases DEF tcp_send
    <3>3. Sending(w + n)' /\ \A k \in 1..n : wr[1][k] = ByteOf(turn, sent, w + k)
      BY <1>1, <1>2, <2>2, <2>5, <3>1, <3>2, WriteMoves DEF tcp_send
    <3>4. /\ Len(net') = Len(net) + n /\ (\A k \in 1..Len(net) : net'[k] = net[k])
          /\ \A k \in 1..n : net'[Len(net) + k] = wr[1][k]
      BY <3>1 DEF Wrote
    <3>5. ASSUME NEW k \in 1..Len(net') PROVE net'[k] = ByteOf(turn, sent, c + Waiting + k)
      <4>1. CASE k <= Len(net)
        BY <2>2, <2>3, <3>4, <4>1 DEF Coming
      <4>2. CASE k > Len(net)
        <5>1. k - Len(net) \in 1..n /\ k = Len(net) + (k - Len(net)) /\ w + (k - Len(net)) = c + Waiting + k
          BY <2>2, <2>3, <3>4, <4>2
        <5> QED
          BY <3>3, <3>4, <5>1
      <4> QED
        BY <2>3, <3>4, <4>1, <4>2
    <3>6. Coming(c)'
      BY <1>2, <1>3, <2>2, <3>5 DEF Coming
    <3> QED
      BY <2>2, <2>3, <3>3, <3>4, <3>6
  <2>6. CASE Die
    <3>1. Sending(w)' /\ Coming(c)' /\ net' = net
      BY <1>2, <1>3, <2>2, <2>6 DEF Sending, Coming, Die, Boundary
    <3> QED
      BY <2>2, <3>1
  <2>7. CASE Reset
    <3>1. net' = <<>> /\ Len(net') = 0 /\ fin' = "reset" /\ wr' = <<>>
      BY <2>7 DEF Reset
    <3>2. c + Waiting <= Total(sent) /\ c + Waiting \in Nat
      BY <1>1, <2>2, <2>3, Counts DEF Sending, Counted
    <3>3. Coming(c)'
      BY <1>2, <1>3, <2>2, <3>1 DEF Coming
    <3>4. PICK v \in Nat : v = c + Waiting
      BY <3>2
    <3>5. Sending(v)' /\ v = c + Waiting + Len(net')
      BY <1>2, <1>3, <2>3, <3>1, <3>2, <3>4 DEF Sending
    <3> QED
      BY <3>3, <3>5
  <2> QED
    BY <2>5, <2>6, <2>7
<1> QED
  BY <1>4, <1>5

-----------------------------------------------------------------------------
(* The invariant: the client's steps.                                      *)

LEMMA RequestKeeps ==
  ASSUME FrameInv, TcpSendReceive
  PROVE  FrameInv'
<1>1. TypeOK /\ BufferForm /\ TypeOK' /\ BufferForm'
  BY RequestForm DEF FrameInv
<1>2. pc = "send" /\ b.i >= b.dim /\ net = <<>> /\ wr = <<>> /\ b' = b /\ net' = net /\ fin' = fin
  BY DEF FrameInv, Reading, Between, TcpSendReceive
<1>3. rec' = <<>> /\ body' = <<>>
  BY DEF TcpSendReceive
<1>4. CASE fin = "open"
  <2>1. pc' = "line" /\ wr' = Writes(turn', sent')
    BY <1>4 DEF TcpSendReceive
  <2>2. turn' \in 0..1 /\ sent' \in Bodies \cup {<<>>} /\ Len(sent') \in Nat
    BY <1>1, CountsAfter DEF TypeOK, Counted
  <2>3. /\ Len(wr') = (IF sent' = <<>> THEN 1 ELSE 3)
        /\ Spells(wr'[1], turn', sent', 0, 3)
        /\ sent' # <<>> => /\ Spells(wr'[2], turn', sent', 3, Len(sent') + 3)
                           /\ Spells(wr'[3], turn', sent', Len(sent') + 3, Len(sent') + 6)
    BY <2>1, <2>2, WritesFacts
  <2>4. Total(sent') \in Nat /\ 0 # Total(sent') /\ 0 <= Total(sent')
    BY <2>2 DEF Total
  <2>5. Left(0)'
    BY <2>2, <2>3, <2>4 DEF Left
  <2>6. Boundary(0)'
    BY <2>2 DEF Boundary
  <2>7. Sending(0)'
    BY <1>2, <1>4, <2>4, <2>5, <2>6 DEF Sending
  <2>8. Consumed' = 0 /\ Waiting' = 0 /\ Len(net') = 0
    BY <1>1, <1>2, <1>3, <2>1, Counts DEF Consumed, Waiting, Counted
  <2>9. Coming(0)'
    BY <1>1, <1>2, <2>8, Counts DEF Coming, Counted
  <2>10. Taking'
    BY <1>3, <2>1 DEF Taking
  <2>11. InSync'
    BY <2>7, <2>8, <2>9, <2>10 DEF InSync
  <2> QED
    BY <1>1, <2>1, <2>11 DEF FrameInv, Reading
<1>5. CASE fin # "open" /\ pc' = "line"
  <2>1. wr' = wr
    BY <1>5 DEF TcpSendReceive, serverVars
  <2>2. Gone'
    BY <1>2, <1>3, <1>5, <2>1 DEF Gone
  <2> QED
    BY <1>1, <1>5, <2>2 DEF FrameInv, Reading
<1>6. CASE fin # "open" /\ pc' = "ret" /\ ret' = -2
  <2>1. Between' /\ ~Reading'
    BY <1>2, <1>6 DEF Between, Reading
  <2> QED
    BY <1>1, <2>1 DEF FrameInv
<1> QED
  BY <1>4, <1>5, <1>6 DEF TcpSendReceive

LEMMA ReconnectKeeps ==
  ASSUME FrameInv, Connect \/ NextRequest \/ UNCHANGED vars
  PROVE  FrameInv'
<1>1. TypeOK' /\ BufferForm'
  BY ReconnectForm DEF FrameInv
<1>2. CASE Connect \/ NextRequest
  <2>1. pc = "ret" /\ pc' = "send" /\ Between
    BY <1>2 DEF FrameInv, Connect, NextRequest, Reading
  <2>2. b' = b \/ b' = init_buffer_tcp
    BY <1>2 DEF Connect, NextRequest
  <2>3. b'.i >= b'.dim
    BY <2>1, <2>2 DEF Between, init_buffer_tcp
  <2>4. net' = <<>> /\ wr' = <<>>
    BY <1>2, <2>1 DEF Connect, NextRequest, Between, serverVars
  <2>5. Between' /\ ~Reading'
    BY <2>1, <2>3, <2>4 DEF Between, Reading
  <2> QED
    BY <1>1, <2>5 DEF FrameInv
<1>3. CASE UNCHANGED vars
  BY <1>3 DEF vars, serverVars, FrameInv, TypeOK, BufferForm, Reading, InSync, Gone, Between, Taking,
              Consumed, Waiting, Coming, Sending, Boundary, Left
<1> QED
  BY <1>2, <1>3

\* A character that is not the end of the stream is the next byte of the reply, and
\* the bytes after it are where they have to be.
LEMMA GotByte ==
  ASSUME TypeOK, BufferForm, TypeOK', BufferForm', NEW c \in Nat, Coming(c), NEW ch,
         Took(ch) \/ (b.i >= b.dim /\ Loaded(ch)), UNCHANGED <<turn, sent>>
  PROVE  /\ ch = ByteOf(turn, sent, c + 1) /\ Coming(c + 1)'
         /\ c + Waiting + Len(net) = (c + 1) + Waiting' + Len(net')
         /\ Len(net') \in Nat /\ Waiting' \in Nat
         /\ net = <<>> => net' = <<>>
<1>1. b.i \in Nat /\ b.dim \in Int /\ b'.i \in Nat /\ b'.dim \in Int
  BY Counts, CountsAfter DEF Counted
<1>4. Len(net) \in Nat /\ Len(net') \in Nat /\ Waiting \in Nat /\ Waiting' \in Nat
  BY Counts, CountsAfter DEF Counted
<1>2. CASE Took(ch)
  <2>1. b.i \in b.i..(b.dim - 1) /\ c + b.i - b.i + 1 = c + 1
    BY <1>1, <1>2 DEF Took
  <2>2. ch = ByteOf(turn, sent, c + 1)
    BY <1>2, <2>1 DEF Took, Coming
  <2>3. Waiting = b.dim - b.i /\ Waiting' = b.dim - (b.i + 1) /\ net' = net
    BY <1>1, <1>2 DEF Took, Waiting
  <2>8. Waiting = Waiting' + 1
    BY <1>1, <2>3
  <2>4. ASSUME NEW j \in b'.i..(b'.dim - 1) PROVE b'.buffer[j] = ByteOf(turn', sent', (c + 1) + j - b'.i + 1)
    <3>1. j \in b.i..(b.dim - 1) /\ (c + 1) + j - b'.i + 1 = c + j - b.i + 1
      <4>1. b'.i = b.i + 1 /\ b'.dim = b.dim /\ j \in (b.i + 1)..(b.dim - 1)
        BY <1>2 DEF Took
      <4> QED
        BY <1>1, <4>1
    <3>2. b'.buffer[j] = b.buffer[j]
      BY <1>2 DEF Took
    <3> QED
      BY <3>1, <3>2 DEF Coming
  <2>5. ASSUME NEW k \in 1..Len(net') PROVE net'[k] = ByteOf(turn', sent', (c + 1) + Waiting' + k)
    <3>1. k \in 1..Len(net)
      BY <2>3
    <3>2. (c + 1) + Waiting' + k = c + Waiting + k
      BY <1>4, <2>8
    <3> QED
      BY <2>3, <3>1, <3>2 DEF Coming
  <2>6. Coming(c + 1)'
    BY <2>4, <2>5 DEF Coming
  <2>7. c + Waiting + Len(net) = (c + 1) + Waiting' + Len(net')
    <3>1. Len(net') = Len(net)
      BY <2>3
    <3> QED
      BY <1>4, <2>8, <3>1
  <2> QED
    BY <1>4, <2>2, <2>3, <2>6, <2>7
<1>3. CASE b.i >= b.dim /\ Loaded(ch)
  <2>1. /\ Waiting = 0 /\ Waiting' = b'.dim - 1 /\ b'.dim \in 1..Len(net) /\ b'.i = 1
        /\ Len(net') = Len(net) - b'.dim /\ net # <<>>
    BY <1>1, <1>3, <1>4 DEF Loaded, Waiting
  <2>2. ch = ByteOf(turn, sent, c + 1)
    <3>1. 1 \in 1..Len(net) /\ c + Waiting + 1 = c + 1 /\ ch = net[1]
      BY <1>4, <1>3, <2>1 DEF Loaded
    <3> QED
      BY <3>1 DEF Coming
  <2>3. ASSUME NEW j \in b'.i..(b'.dim - 1) PROVE b'.buffer[j] = ByteOf(turn', sent', (c + 1) + j - b'.i + 1)
    <3>1. j \in 1..(b'.dim - 1) /\ j + 1 \in 1..Len(net) /\ (c + 1) + j - b'.i + 1 = c + Waiting + (j + 1)
      BY <1>1, <1>4, <2>1
    <3>2. b'.buffer[j] = net[j + 1]
      BY <1>3, <3>1 DEF Loaded
    <3> QED
      BY <3>1, <3>2 DEF Coming
  <2>4. ASSUME NEW k \in 1..Len(net') PROVE net'[k] = ByteOf(turn', sent', (c + 1) + Waiting' + k)
    <3>1. k \in 1..(Len(net) - b'.dim)
      BY <2>1
    <3>2. (c + 1) + Waiting' + k = c + Waiting + (b'.dim + k) /\ b'.dim + k \in 1..Len(net)
      <4>1. \A d, l \in Nat : d >= 1 /\ k \in 1..(l - d) =>
              (c + 1) + (d - 1) + k = c + 0 + (d + k) /\ d + k \in 1..l
        OBVIOUS
      <4>2. b'.dim \in Nat /\ b'.dim >= 1
        BY <1>4, <2>1
      <4> QED
        BY <1>4, <2>1, <3>1, <4>1, <4>2, Zenon
    <3>3. net'[k] = net[b'.dim + k]
      BY <1>3 DEF Loaded
    <3> QED
      BY <3>2, <3>3 DEF Coming
  <2>5. Coming(c + 1)'
    BY <2>3, <2>4 DEF Coming
  <2>6. c + Waiting + Len(net) = (c + 1) + Waiting' + Len(net')
    <3>1. \A d \in Int, l \in Nat : c + 0 + l = (c + 1) + (d - 1) + (l - d)
      OBVIOUS
    <3> QED
      BY <1>1, <1>4, <2>1, <3>1, Zenon
  <2> QED
    BY <1>4, <2>1, <2>2, <2>5, <2>6
<1> QED
  BY <1>2, <1>3

\* The next byte of a line that is being read: never a NUL, and a newline only
\* when the line is complete.
LEMMA NextOfLine ==
  ASSUME TypeOK, BufferForm, Taking, pc \in {"line", "end"}, NEW ch, ch = ByteOf(turn, sent, Consumed + 1)
  PROVE  /\ ch # NUL
         /\ Len(rec) < 2 => /\ ch \notin {EOF, NL, NUL}
                            /\ pc = "line" => ch = Line(turn)[Len(rec) + 1]
                            /\ pc = "end" => ch = EndLine[Len(rec) + 1]
         /\ Len(rec) = 2 => ch = NL
         /\ Len(rec) \in 0..2
<1>1. Len(rec) <= 2 /\ Len(rec) \in Nat
  BY Counts DEF Taking, Counted
<1>2. PICK m \in Nat : m = Len(rec)
  BY <1>1
<1>3. (m = 0 \/ m = 1 \/ m = 2) /\ Len(rec) \in 0..2
  <2>1. m <= 2
    BY <1>1, <1>2, Zenon
  <2>2. (m = 0 \/ m = 1 \/ m = 2) /\ m \in 0..2
    BY <2>1
  <2> QED
    BY <1>2, <2>2, Zenon
<1>4. turn \in 0..1 /\ sent \in Seq(Bytes) /\ Len(sent) \in Nat
  BY Counts DEF Counted
<1>5. CASE pc = "line"
  <2>1. ch = ByteOf(turn, sent, m + 1)
    BY <1>2, <1>5 DEF Consumed
  <2>2. /\ m = 0 => ch = 65 /\ ch = Line(turn)[m + 1]
        /\ m = 1 => ch = 66 + turn /\ ch = Line(turn)[m + 1]
        /\ m = 2 => ch = 10
    <3>1. /\ ByteOf(turn, sent, 1) = 65 /\ ByteOf(turn, sent, 2) = 66 + turn /\ ByteOf(turn, sent, 3) = 10
          /\ Line(turn)[1] = 65 /\ Line(turn)[2] = 66 + turn
      <4>1. ByteOf(turn, sent, 1) = 65 /\ ByteOf(turn, sent, 2) = 66 + turn /\ ByteOf(turn, sent, 3) = 10
        BY <1>4, HeadBytes
      <4>2. Line(turn)[1] = 65 /\ Line(turn)[2] = 66 + turn
        BY <1>4, Lines
      <4> QED
        BY <4>1, <4>2, Zenon
    <3>2. (m = 0 => m + 1 = 1) /\ (m = 1 => m + 1 = 2) /\ (m = 2 => m + 1 = 3)
      OBVIOUS
    <3> QED
      BY <2>1, <3>1, <3>2, Zenon
  <2> QED
    BY <1>2, <1>3, <1>4, <1>5, <2>2, Sizes
<1>6. CASE pc = "end"
  <2>1. ch = ByteOf(turn, sent, Len(sent) + 4 + m)
    <3>1. Consumed + 1 = Len(sent) + 4 + m
      BY <1>2, <1>4, <1>6 DEF Consumed
    <3> QED
      BY <3>1
  <2>2. /\ m = 0 => ch = 69 /\ ch = EndLine[m + 1]
        /\ m = 1 => ch = 68 /\ ch = EndLine[m + 1]
        /\ m = 2 => ch = 10
    <3>1. /\ m = 0 => Len(sent) + 4 + m = Len(sent) + 4
          /\ m = 1 => Len(sent) + 4 + m = Len(sent) + 5
          /\ m = 2 => Len(sent) + 4 + m = Len(sent) + 6
      BY <1>4
    <3> QED
      BY <1>4, <2>1, <3>1, EndFacts, ByteFacts, SMTT(30)
  <2> QED
    BY <1>2, <1>3, <1>4, <1>6, <2>2, Sizes
<1> QED
  BY <1>5, <1>6

LEMMA SendingKept ==
  ASSUME NEW w \in Nat, Sending(w), UNCHANGED <<turn, sent, wr, fin>>, net = <<>> => net' = <<>>
  PROVE  Sending(w)'
  BY DEF Sending, Boundary, Left

\* The whole reply is received: nothing of it is left over.
LEMMA AllTaken ==
  ASSUME TypeOK, TypeOK', BufferForm', NEW c \in Nat, NEW w \in Nat, Sending(w), c = Total(sent),
         w = c + Waiting' + Len(net'), UNCHANGED <<turn, sent, wr, fin>>
  PROVE  b'.i >= b'.dim /\ net' = <<>> /\ wr' = <<>>
<1>1. /\ Len(net') \in Nat /\ Waiting' \in Nat /\ (Len(net') = 0 <=> net' = <<>>)
      /\ b'.i \in Nat /\ b'.dim \in Int
  BY Counts, CountsAfter DEF Counted
<1>2. w = Total(sent) /\ Len(net') = 0 /\ Waiting' = 0
  BY <1>1 DEF Sending
<1>3. wr = <<>>
  BY <1>2 DEF Sending, Left
<1>4. b'.i >= b'.dim
  BY <1>1, <1>2 DEF Waiting
<1> QED
  BY <1>1, <1>2, <1>3, <1>4

\* The call ends with the report of a loss.
LEMMA ReportKeeps ==
  ASSUME TypeOK', BufferForm', pc' = "ret", ret' = -2, b'.i >= b'.dim
  PROVE  FrameInv'
<1>1. Between' /\ ~Reading'
  BY DEF Between, Reading
<1> QED
  BY <1>1 DEF FrameInv

\* A line grows by its next character.
LEMMA LineGrows ==
  ASSUME TypeOK, BufferForm, TypeOK', Taking, pc \in {"line", "end"}, Len(rec) < 2, NEW ch \in Bytes,
         ch = ByteOf(turn, sent, Consumed + 1), rec' = Append(rec, ch), UNCHANGED <<turn, sent, body, pc>>
  PROVE  Taking' /\ Consumed' = Consumed + 1
<1>1. rec \in Seq(Bytes) /\ Len(rec) \in Nat /\ Len(sent) \in Nat
  BY Counts DEF TypeOK, Counted
<1>2. Len(rec') = Len(rec) + 1 /\ (\A k \in 1..Len(rec) : rec'[k] = rec[k]) /\ rec'[Len(rec) + 1] = ch
  BY <1>1, AppendProperties
<1>3. /\ pc = "line" => ch = Line(turn)[Len(rec) + 1]
      /\ pc = "end" => ch = EndLine[Len(rec) + 1]
  BY NextOfLine
<1>4. Len(rec') <= 2 /\ \A k \in 1..Len(rec') : k \in 1..Len(rec) \/ k = Len(rec) + 1
  <2>1. PICK m \in Nat : m = Len(rec)
    BY <1>1
  <2>2. m < 2 /\ Len(rec') = m + 1
    BY <1>2, <2>1
  <2>3. m + 1 <= 2 /\ \A k \in 1..(m + 1) : k \in 1..m \/ k = m + 1
    BY <2>2
  <2> QED
    BY <2>1, <2>2, <2>3, Zenon
<1>5. /\ pc = "line" => \A k \in 1..Len(rec') : rec'[k] = Line(turn)[k]
      /\ pc = "end" => \A k \in 1..Len(rec') : rec'[k] = EndLine[k]
  BY <1>2, <1>3, <1>4, Zenon DEF Taking
<1>6. Taking'
  BY <1>4, <1>5 DEF Taking
<1>7. Consumed' = Consumed + 1
  BY <1>1, <1>2 DEF Consumed
<1> QED
  BY <1>6, <1>7

\* The character of a line that is in step is its next one, or the stream ended.
LEMMA LineChar ==
  ASSUME TypeOK, BufferForm, TypeOK', BufferForm', Taking, pc \in {"line", "end"}, NEW c \in Nat, c = Consumed, Coming(c),
         NEW ch, tcp_getchar_bs(ch), UNCHANGED <<turn, sent>>
  PROVE  \/ Took(ch) /\ ch \in Bytes
         \/ b.i >= b.dim /\ ((Loaded(ch) /\ ch \in Bytes) \/ (Ended /\ ch = NUL) \/ Failed(ch))
<1>1. b.i \in Nat /\ b.dim \in Int
  BY Counts DEF Counted
<1>2. b.i < b.dim => b.buffer[b.i] # NUL
  <2>1. ASSUME b.i < b.dim PROVE b.buffer[b.i] # NUL
    <3>1. b.i \in b.i..(b.dim - 1) /\ c + b.i - b.i + 1 = c + 1
      BY <1>1, <2>1
    <3>2. b.buffer[b.i] = ByteOf(turn, sent, Consumed + 1)
      BY <3>1 DEF Coming
    <3> QED
      BY <3>2, NextOfLine
  <2> QED
    BY <2>1
<1> QED
  BY <1>1, <1>2, TextChar

\* The line, or the line after the body, is complete and in step.
LEMMA LineDone ==
  ASSUME TypeOK, BufferForm, TypeOK', BufferForm', Taking, pc \in {"line", "end"}, Len(rec) = 2,
         NEW c \in Nat, NEW w \in Nat, c = Consumed, Coming(c + 1)', w = (c + 1) + Waiting' + Len(net'),
         Sending(w), net = <<>> => net' = <<>>, LineRead, UNCHANGED <<turn, sent, wr, fin, body, rec>>
  PROVE  FrameInv'
<1>1. rec \in Seq(Bytes) /\ rec # <<>> /\ turn \in 0..1 /\ Len(sent) \in Nat /\ (Len(sent) = 0 <=> sent = <<>>)
  BY Counts, EmptySeq DEF TypeOK, Counted
<1>2. (pc = "line" => rec = Line(turn) /\ body = <<>>) /\ (pc = "end" => rec = EndLine /\ body = sent /\ sent # <<>>)
  BY <1>1, TwoBytes DEF Taking
<1>3. CASE pc = "line" /\ sent # <<>>
  <2>1. pc' = "body" /\ c + 1 = 3
    BY <1>1, <1>3 DEF LineRead, Consumed
  <2>2. body' = <<>> /\ Len(body') = 0 /\ rec' = Line(turn') /\ sent' # <<>> /\ Len(sent') >= 1 /\ Len(sent') \in Nat
    BY <1>1, <1>2, <1>3
  <2>3. Taking'
    BY <2>1, <2>2 DEF Taking
  <2>4. Consumed' = c + 1
    BY <2>1, <2>2 DEF Consumed
  <2>5. Sending(w)'
    BY SendingKept
  <2>6. PICK d \in Nat : d = c + 1
    OBVIOUS
  <2>7. Coming(d)' /\ d = Consumed' /\ w = d + Waiting' + Len(net')
    BY <2>4, <2>6 DEF Coming
  <2>8. InSync'
    BY <2>3, <2>5, <2>7 DEF InSync
  <2> QED
    BY <2>1, <2>8 DEF FrameInv, Reading
<1>4. CASE pc = "end" \/ sent = <<>>
  <2>1. pc' = "ret" /\ ret' = 0
    BY <1>1, <1>2, <1>4 DEF LineRead, Return
  <2>2. c + 1 = Total(sent)
    BY <1>1, <1>2, <1>4 DEF Consumed, Total
  <2>3. PICK d \in Nat : d = c + 1
    OBVIOUS
  <2>4. b'.i >= b'.dim /\ net' = <<>> /\ wr' = <<>>
    BY <2>2, <2>3, AllTaken
  <2>5. body' = sent' /\ (sent' = <<>> => rec' = Line(turn'))
    BY <1>2, <1>4
  <2>6. Between' /\ ~Reading'
    BY <2>1, <2>4, <2>5 DEF Between, Reading
  <2> QED
    BY <2>6 DEF FrameInv
<1> QED
  BY <1>3, <1>4

\* The stream ends while a line is read: at a boundary nothing of the line has
\* arrived, unless END was cut.
LEMMA LineEnds ==
  ASSUME TypeOK, BufferForm, TypeOK', BufferForm', Taking, pc \in {"line", "end"}, NEW c \in Nat, c = Consumed,
         NEW w \in Nat, w = c + Waiting + Len(net), Sending(w), b.i >= b.dim, Ended, LineRead,
         UNCHANGED <<turn, sent, wr, fin, body, rec>>
  PROVE  FrameInv'
<1>1. /\ Len(rec) \in Nat /\ Len(sent) \in Nat /\ (Len(rec) = 0 <=> rec = <<>>) /\ Len(net) = 0
      /\ b.i \in Nat /\ b.dim \in Int
  BY Counts DEF Counted, Ended
<1>2. w = c /\ wr = <<>> /\ Boundary(c)
  <2>1. w = c
    BY <1>1 DEF Waiting
  <2> QED
    BY <2>1 DEF Sending, Ended
<1>3. b'.i >= b'.dim /\ net' = <<>> /\ wr' = <<>>
  BY <1>2 DEF Ended
<1>4. CASE rec = <<>>
  BY <1>3, <1>4, ReportKeeps DEF LineRead, Return
<1>5. CASE rec # <<>>
  <2>1. PICK m \in Nat : m = Len(rec)
    BY <1>1
  <2>2. m # 0 /\ m <= 2
    BY <1>1, <1>5, <2>1 DEF Taking
  <2>3. pc = "end"
    <3>1. SUFFICES ASSUME pc = "line" PROVE FALSE
      OBVIOUS
    <3>2. c = m
      BY <2>1, <3>1 DEF Consumed
    <3> QED
      BY <1>2, <2>2, <3>2 DEF Boundary
  <2>4. CutEnd
    <3>1. c = 3 + Len(sent) + m
      BY <2>1, <2>3 DEF Consumed
    <3>2. m = 1 \/ m = 2
      BY <2>2
    <3>3. c \in {Len(sent) + 4, Len(sent) + 5}
      BY <1>1, <3>1, <3>2
    <3> QED
      BY <1>2, <3>3 DEF Boundary
  <2>5. pc' = "ret" /\ body' = sent' /\ sent' # <<>>
    BY <1>5, <2>3 DEF LineRead, Return, Taking
  <2>6. Between' /\ ~Reading'
    BY <1>3, <2>4, <2>5 DEF Between, Reading
  <2> QED
    BY <2>6 DEF FrameInv
<1> QED
  BY <1>4, <1>5

LEMMA ReadlineKeeps ==
  ASSUME FrameInv, tcp_readline
  PROVE  FrameInv'
<1>1. TypeOK /\ BufferForm /\ TypeOK' /\ BufferForm'
  BY ReadlineForm DEF FrameInv
<1>2. PICK ch \in Bytes \cup {EOF} :
        /\ tcp_getchar_bs(ch)
        /\ \/ ch = EOF /\ Return(-2) /\ UNCHANGED rec
           \/ ch \in {NL, NUL} /\ LineRead /\ UNCHANGED rec
           \/ ch \notin {EOF, NL, NUL} /\ rec' = Append(rec, ch) /\ UNCHANGED <<pc, ret>>
  BY DEF tcp_readline
<1>3. UNCHANGED <<turn, sent, wr, fin, body>> /\ pc \in {"line", "end"}
  BY DEF tcp_readline, serverVars
<1>4. EOF \notin {NL, NUL} /\ NUL # NL /\ EOF \notin Bytes
  BY Sizes
<1>5. CASE Failed(ch)
  <2>1. ch = EOF /\ b'.i >= b'.dim
    BY <1>1, <1>5, Counts DEF Failed, Counted
  <2>2. pc' = "ret" /\ ret' = -2
    BY <1>2, <1>4, <2>1 DEF Return
  <2> QED
    BY <1>1, <2>1, <2>2, ReportKeeps
<1>6. CASE Gone
  <2>1. net = <<>> /\ b.i >= b.dim /\ rec = <<>>
    BY <1>3, <1>6 DEF Gone
  <2>2. b.i \in Nat /\ b.dim \in Int
    BY <1>1, Counts DEF Counted
  <2>3. ~(b.i < b.dim)
    BY <2>1, <2>2
  <2>4. (Ended /\ ch = NUL) \/ Failed(ch)
    BY <1>1, <1>2, <2>1, <2>3, TextChar DEF Loaded
  <2>5. CASE Ended /\ ch = NUL
    <3>1. pc' = "ret" /\ ret' = -2
      BY <1>2, <1>4, <2>1, <2>5 DEF LineRead, Return
    <3>2. b'.i >= b'.dim
      BY <2>5 DEF Ended
    <3> QED
      BY <1>1, <3>1, <3>2, ReportKeeps
  <2> QED
    BY <1>5, <2>4, <2>5
<1>7. CASE InSync
  <2>1. PICK c \in Nat, w \in Nat : c = Consumed /\ w = c + Waiting + Len(net) /\ Coming(c) /\ Sending(w)
    BY <1>7 DEF InSync
  <2>2. Taking
    BY <1>7 DEF InSync
  <2>3. \/ Took(ch) /\ ch \in Bytes
        \/ b.i >= b.dim /\ ((Loaded(ch) /\ ch \in Bytes) \/ (Ended /\ ch = NUL) \/ Failed(ch))
    BY <1>1, <1>2, <1>3, <2>1, <2>2, LineChar
  <2>4. CASE b.i >= b.dim /\ Ended /\ ch = NUL
    <3>1. LineRead /\ rec' = rec
      BY <1>2, <1>4, <2>4
    <3> QED
      BY <1>1, <1>3, <2>1, <2>2, <2>4, <3>1, LineEnds
  <2>5. CASE (Took(ch) \/ (b.i >= b.dim /\ Loaded(ch))) /\ ch \in Bytes
    <3>1. /\ ch = ByteOf(turn, sent, c + 1) /\ Coming(c + 1)'
          /\ w = (c + 1) + Waiting' + Len(net')
          /\ net = <<>> => net' = <<>>
      BY <1>1, <1>3, <2>1, <2>5, GotByte
    <3>2. ch = ByteOf(turn, sent, Consumed + 1)
      BY <2>1, <3>1
    <3>3. CASE Len(rec) = 2
      <4>1. ch = NL
        BY <1>1, <1>3, <2>2, <3>2, <3>3, NextOfLine
      <4>2. LineRead /\ rec' = rec
        BY <1>2, <1>4, <4>1
      <4> QED
        BY <1>1, <1>3, <2>1, <2>2, <3>1, <3>3, <4>2, LineDone
    <3>4. CASE Len(rec) < 2
      <4>1. ch \notin {EOF, NL, NUL}
        BY <1>1, <1>3, <2>2, <3>2, <3>4, NextOfLine
      <4>2. rec' = Append(rec, ch) /\ pc' = pc
        BY <1>2, <4>1
      <4>3. Taking' /\ Consumed' = c + 1
        BY <1>1, <1>3, <2>1, <2>2, <2>5, <3>2, <3>4, <4>2, LineGrows
      <4>4. PICK d \in Nat : d = c + 1
        OBVIOUS
      <4>5. Coming(d)' /\ d = Consumed' /\ w = d + Waiting' + Len(net')
        BY <3>1, <4>3, <4>4 DEF Coming
      <4>6. Sending(w)'
        BY <1>3, <2>1, <3>1, SendingKept
      <4>7. InSync'
        BY <4>3, <4>5, <4>6 DEF InSync
      <4> QED
        BY <1>1, <1>3, <4>2, <4>7 DEF FrameInv, Reading
    <3>5. Len(rec) = 2 \/ Len(rec) < 2
      <4>1. PICK m \in Nat : m = Len(rec)
        BY <1>1, Counts DEF Counted
      <4>2. m <= 2
        BY <1>3, <2>2, <4>1, Zenon DEF Taking
      <4>3. m = 2 \/ m < 2
        BY <4>2
      <4> QED
        BY <4>1, <4>3, Zenon
    <3> QED
      BY <3>3, <3>4, <3>5
  <2> QED
    BY <1>5, <2>3, <2>4, <2>5
<1> QED
  BY <1>3, <1>6, <1>7 DEF FrameInv, Reading

\* The stream ends in the middle of the file: what is left of the loop fills body
\* with whatever the buffer holds, and the line after it will be empty.
LEMMA BodyEnds ==
  ASSUME TypeOK, BufferForm, TypeOK', BufferForm', pc = "body", NEW ch \in Bytes, Ended, wr = <<>>,
         sent # <<>>, rec = Line(turn), Len(body) < Len(sent),
         body' = Append(body, ch),
         IF Len(body') = Len(sent) THEN pc' = "end" /\ rec' = <<>> ELSE UNCHANGED <<pc, rec>>,
         UNCHANGED <<turn, sent, wr, fin>>
  PROVE  FrameInv'
<1>1. body \in Seq(Bytes) /\ Len(body) \in Nat /\ Len(sent) \in Nat
  BY Counts DEF TypeOK, Counted
<1>2. Len(body') = Len(body) + 1
  BY <1>1, AppendProperties
<1>3. fin' # "open" /\ net' = <<>> /\ wr' = <<>> /\ b'.i >= b'.dim /\ sent' # <<>>
  BY DEF Ended
<1>4. \/ pc' = "end" /\ rec' = <<>>
      \/ pc' = "body" /\ rec' = Line(turn') /\ Len(body') < Len(sent')
  BY <1>1, <1>2
<1>5. Gone' /\ Reading'
  BY <1>3, <1>4 DEF Gone, Reading
<1> QED
  BY <1>5 DEF FrameInv

\* The file grows by its next byte.
LEMMA BodyGrows ==
  ASSUME TypeOK, BufferForm, TypeOK', BufferForm', Taking, pc = "body", NEW c \in Nat, NEW w \in Nat, c = Consumed,
         Coming(c + 1)', w = (c + 1) + Waiting' + Len(net'), Sending(w), net = <<>> => net' = <<>>,
         NEW ch \in Bytes, ch = ByteOf(turn, sent, c + 1), body' = Append(body, ch),
         IF Len(body') = Len(sent) THEN pc' = "end" /\ rec' = <<>> ELSE UNCHANGED <<pc, rec>>,
         UNCHANGED <<turn, sent, wr, fin>>
  PROVE  FrameInv'
<1>1. /\ body \in Seq(Bytes) /\ Len(body) \in Nat /\ Len(sent) \in Nat /\ sent \in Seq(Bytes) /\ turn \in 0..1
      /\ sent # <<>> /\ rec = Line(turn) /\ Len(body) < Len(sent) /\ \A k \in 1..Len(body) : body[k] = sent[k]
  BY Counts DEF TypeOK, Counted, Taking
<1>2. /\ body' \in Seq(Bytes) /\ Len(body') = Len(body) + 1 /\ (\A k \in 1..Len(body) : body'[k] = body[k])
      /\ body'[Len(body) + 1] = ch
  BY <1>1, AppendProperties
<1>3. ch = sent[Len(body) + 1]
  <2>1. c + 1 = 3 + (Len(body) + 1) /\ Len(body) + 1 \in 1..Len(sent)
    BY <1>1 DEF Consumed
  <2>2. ByteOf(turn, sent, 3 + (Len(body) + 1)) = sent[Len(body) + 1]
    BY <1>1, <2>1, BodyByte
  <2> QED
    BY <2>1, <2>2, Zenon
<1>4. \A k \in 1..Len(body') : body'[k] = sent[k]
  <2>1. \A k \in 1..(Len(body) + 1) : k \in 1..Len(body) \/ k = Len(body) + 1
    BY <1>1
  <2> QED
    BY <1>1, <1>2, <1>3, <2>1, Zenon
<1>5. Taking' /\ Consumed' = c + 1 /\ Reading'
  <2>1. CASE Len(body') = Len(sent)
    <3>1. pc' = "end" /\ rec' = <<>> /\ Len(rec') = 0
      BY <2>1
    <3>2. body' = sent'
      BY <1>1, <1>2, <1>4, <2>1, SeqEqual
    <3>3. Taking'
      BY <1>1, <3>1, <3>2 DEF Taking
    <3>4. Consumed' = c + 1
      BY <1>1, <1>2, <2>1, <3>1 DEF Consumed
    <3> QED
      BY <3>1, <3>3, <3>4 DEF Reading
  <2>2. CASE Len(body') # Len(sent)
    <3>1. pc' = "body" /\ rec' = rec /\ Len(body') < Len(sent')
      BY <1>1, <1>2, <2>2
    <3>2. Taking'
      BY <1>1, <1>4, <3>1 DEF Taking
    <3>3. Consumed' = c + 1
      BY <1>1, <1>2, <3>1 DEF Consumed
    <3> QED
      BY <3>1, <3>2, <3>3 DEF Reading
  <2> QED
    BY <2>1, <2>2
<1>6. PICK d \in Nat : d = c + 1
  OBVIOUS
<1>7. Coming(d)' /\ d = Consumed' /\ w = d + Waiting' + Len(net')
  BY <1>5, <1>6 DEF Coming
<1>8. Sending(w)'
  BY SendingKept
<1>9. InSync'
  BY <1>5, <1>7, <1>8 DEF InSync
<1> QED
  BY <1>5, <1>9 DEF FrameInv

LEMMA ReceiveKeeps ==
  ASSUME FrameInv, ReceiveAndDecompress
  PROVE  FrameInv'
<1>1. TypeOK /\ BufferForm /\ TypeOK' /\ BufferForm'
  BY ReceiveForm DEF FrameInv
<1>2. PICK ch \in Bytes \cup {EOF} :
        /\ tcp_binary_getchar_bs(ch)
        /\ \/ ch = EOF /\ Return(-2) /\ UNCHANGED <<rec, body>>
           \/ /\ ch # EOF
              /\ body' = Append(body, ch)
              /\ IF Len(body') = Len(sent) THEN pc' = "end" /\ rec' = <<>> ELSE UNCHANGED <<pc, rec>>
              /\ UNCHANGED ret
  BY DEF ReceiveAndDecompress
<1>3. UNCHANGED <<turn, sent, wr, fin>> /\ pc = "body"
  BY DEF ReceiveAndDecompress, serverVars
<1>4. /\ sent # <<>> /\ rec = Line(turn) /\ Len(body) < Len(sent)
      /\ fin # "open" => wr = <<>>
  BY <1>3 DEF FrameInv, Reading, InSync, Taking, Gone, Sending
<1>5. CASE Failed(ch)
  <2>1. ch = EOF /\ b'.i >= b'.dim
    BY <1>1, <1>5, Counts DEF Failed, Counted
  <2>2. pc' = "ret" /\ ret' = -2
    BY <1>2, <2>1 DEF Return
  <2> QED
    BY <1>1, <2>1, <2>2, ReportKeeps
<1>6. CASE Ended /\ ch \in Bytes
  <2>1. /\ body' = Append(body, ch) /\ wr = <<>>
        /\ IF Len(body') = Len(sent) THEN pc' = "end" /\ rec' = <<>> ELSE UNCHANGED <<pc, rec>>
    BY <1>2, <1>4, <1>6, Sizes DEF Ended
  <2> QED
    BY <1>1, <1>3, <1>4, <1>6, <2>1, BodyEnds
<1>7. CASE (Took(ch) \/ (b.i >= b.dim /\ Loaded(ch))) /\ ch \in Bytes
  <2>1. InSync
    <3>1. b.i \in Nat /\ b.dim \in Int
      BY <1>1, Counts DEF Counted
    <3> QED
      BY <1>3, <1>7, <3>1 DEF FrameInv, Reading, Gone, Took, Loaded
  <2>2. PICK c \in Nat, w \in Nat : c = Consumed /\ w = c + Waiting + Len(net) /\ Coming(c) /\ Sending(w)
    BY <2>1 DEF InSync
  <2>3. /\ ch = ByteOf(turn, sent, c + 1) /\ Coming(c + 1)'
        /\ w = (c + 1) + Waiting' + Len(net')
        /\ net = <<>> => net' = <<>>
    BY <1>1, <1>3, <1>7, <2>2, GotByte
  <2>4. /\ body' = Append(body, ch) /\ Taking
        /\ IF Len(body') = Len(sent) THEN pc' = "end" /\ rec' = <<>> ELSE UNCHANGED <<pc, rec>>
    BY <1>2, <1>7, <2>1, Sizes DEF InSync
  <2> QED
    BY <1>1, <1>3, <1>7, <2>2, <2>3, <2>4, BodyGrows
<1> QED
  BY <1>1, <1>2, <1>5, <1>6, <1>7, BinaryChar

-----------------------------------------------------------------------------

LEMMA FrameInvHolds == Spec => []FrameInv
<1>1. Init => FrameInv
  <2>1. ASSUME Init PROVE Between /\ ~Reading
    BY <2>1 DEF Init, init_buffer_tcp, Between, Reading
  <2> QED
    BY <2>1, InitForm DEF FrameInv
<1>2. FrameInv /\ [Next]_vars => FrameInv'
  BY ServerKeeps, RequestKeeps, ReadlineKeeps, ReceiveKeeps, ReconnectKeeps DEF Next, Client
<1> QED
  BY <1>1, <1>2, PTL DEF Spec

\* A line that tcp_readline hands over is the whole line of this reply, for every
\* way to cut the stream into reads and every place where the connection is lost,
\* also when control_buffer outlives the connection.
THEOREM LineWhole == Spec => []LineIntact
<1>1. FrameInv => LineIntact
  BY DEF FrameInv, Reading, InSync, Taking, Gone, Between, LineIntact
<1> QED
  BY <1>1, FrameInvHolds, PTL

\* What ReceiveAndDecompress hands to uncompress is what CompressAndSend sent,
\* whatever bytes it holds: a file of which the end was lost is never taken.
THEOREM BodyWhole == Spec => []BodyIntact
<1>1. FrameInv => BodyIntact
  BY DEF FrameInv, Reading, Between, BodyIntact
<1> QED
  BY <1>1, FrameInvHolds, PTL

\* A lost connection is always reported as lost, with the -2 after which client.c
\* resumes the transmission, as long as END is written as a whole: a child killed
\* within that write makes the client report a wrong reply.
THEOREM LossIsReported == ~CutEnd => (Spec => []LossReported)
<1> SUFFICES ASSUME ~CutEnd PROVE Spec => []LossReported
  OBVIOUS
<1>1. FrameInv => LossReported
  BY DEF FrameInv, Reading, Between, LossReported
<1> QED
  BY <1>1, FrameInvHolds, PTL
=============================================================================
