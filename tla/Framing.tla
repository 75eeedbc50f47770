------------------------------- MODULE Framing ------------------------------
(***************************************************************************)
(* How replies travel as bytes: a child of the server writes a line, or a  *)
(* header, a compressed body and END in three writes (CompressAndSend in   *)
(* app/server/server_lib.c); the client reads them through one buffer per  *)
(* connection, of which the text functions (app/common/common_lib.c) and   *)
(* the binary one (app/client/client_lib.c) take turns.  TCP delivers the  *)
(* stream in pieces of any size, and the connection may be lost at any     *)
(* byte.  In the other modules a message is received as a whole.           *)
(***************************************************************************)
EXTENDS Integers, Sequences

CONSTANTS
  BUFSIZ,    \* the most that one read returns
  Bodies,    \* compressed files, sequences of bytes
  CutEnd     \* TRUE: a child may be killed half way through the write of END

NUL == 0
NL == 10
Bytes == 0..255
EOF == -1

ASSUME FramingAssumption ==
  /\ BUFSIZ \in Nat \ {0}
  /\ Bodies \subseteq Seq(Bytes) \ {<<>>}
  /\ CutEnd \in BOOLEAN

VARIABLES
  kind,    \* the control connection, or one of a transmission thread
  turn,    \* which of two lines that follow each other the reply begins with
  sent,    \* the compressed file of the reply; <<>>: a line and nothing else
  wr,      \* what the child has still to write, one sequence per write
  net,     \* written and not yet read
  fin,     \* "open"; lost: the reads end with 0 ("eof") or fail ("reset")
  b,       \* buffer_tcp of the connection
  pc,      \* "send" the request; read the "line", the "body" or "end"; "ret"
  rec,     \* the characters of the line so far
  body,    \* rec_buffer
  ret      \* what the call returns: 0, -2 (connection lost) or -4 (no END)

serverVars == <<turn, sent, wr>>
vars == <<kind, serverVars, net, fin, b, pc, rec, body, ret>>

Line(t) == <<65, 66 + t>>
EndLine == <<69, 68>>
Writes(t, s) ==
  <<Line(t) \o <<NL>>>> \o IF s = <<>> THEN <<>> ELSE <<s, EndLine \o <<NL>>>>

\* The types, and: no read is longer than the buffer, whose last place is for the
\* NUL that tcp_receive adds.
TypeOK ==
  /\ kind \in {"control", "transmission"}
  /\ turn \in 0..1
  /\ sent \in Bodies \cup {<<>>}
  /\ wr \in Seq(Seq(Bytes) \ {<<>>}) /\ Len(wr) <= 3
  /\ net \in Seq(Bytes)
  /\ fin \in {"open", "eof", "reset"}
  /\ b.dim \in -1..BUFSIZ
  /\ b.i \in 0..BUFSIZ
  /\ b.buffer \in [0..BUFSIZ -> Bytes]
  /\ pc \in {"send", "line", "body", "end", "ret"}
  /\ rec \in Seq(Bytes) /\ body \in Seq(Bytes)
  /\ ret \in {0, -2, -4}

\* The bytes of the buffer are uninitialised; nothing reads them before the first
\* reload.
init_buffer_tcp == [dim |-> 0, i |-> 0, buffer |-> [j \in 0..BUFSIZ |-> NUL]]

Init ==
  /\ kind \in {"control", "transmission"}
  /\ turn = 0
  /\ sent = <<>> /\ wr = <<>> /\ net = <<>>
  /\ fin = "open"
  /\ b = init_buffer_tcp
  /\ pc = "send"
  /\ rec = <<>> /\ body = <<>>
  /\ ret = 0

-----------------------------------------------------------------------------
(* The child of the server.                                                *)

\* A short line goes to the socket as a whole: nothing is queued before it.  A
\* body may fill the queue, and the write waits for room.
Taken(w) == IF Len(wr) = 2 \/ (CutEnd /\ Len(wr) = 1 /\ sent # <<>>) THEN 1..Len(w) ELSE {Len(w)}

tcp_send ==
  /\ fin = "open"
  /\ wr # <<>>
  /\ \E n \in Taken(Head(wr)) :
       /\ net' = net \o SubSeq(Head(wr), 1, n)
       /\ wr' = IF n = Len(Head(wr)) THEN Tail(wr)
                ELSE <<SubSeq(Head(wr), n + 1, Len(Head(wr)))>> \o Tail(wr)
  /\ UNCHANGED <<kind, turn, sent, fin, b, pc, rec, body, ret>>

\* The child is killed: what it has written arrives, then the end of the stream.
Die ==
  /\ fin = "open"
  /\ fin' = "eof"
  /\ wr' = <<>>
  /\ UNCHANGED <<kind, turn, sent, net, b, pc, rec, body, ret>>

\* The connection breaks: what was under way is lost, and reads fail.
Reset ==
  /\ fin = "open"
  /\ fin' = "reset"
  /\ wr' = <<>> /\ net' = <<>>
  /\ UNCHANGED <<kind, turn, sent, b, pc, rec, body, ret>>

-----------------------------------------------------------------------------
(* The client.                                                             *)

\* TcpSendReceiveMT and TcpSendReceiveTT, the sending half.  On a connection that
\* is lost the write fails, or succeeds because the loss is not known yet.
TcpSendReceive ==
  /\ pc = "send"
  /\ \/ /\ fin = "open"
        /\ turn' = 1 - turn
        /\ sent' \in {<<>>} \cup IF kind = "transmission" THEN Bodies ELSE {}
        /\ wr' = Writes(turn', sent')
        /\ pc' = "line" /\ ret' = ret
     \/ /\ fin # "open"
        /\ pc' = "line" /\ ret' = ret
        /\ UNCHANGED serverVars
     \/ /\ fin # "open"
        /\ pc' = "ret" /\ ret' = -2
        /\ UNCHANGED serverVars
  /\ rec' = <<>> /\ body' = <<>>
  /\ UNCHANGED <<kind, net, fin, b>>

\* read: any part of what is under way, from its beginning; the result is dim.
ReadBeyond ==          \* mutant: one byte more than there is room for
  IF net # <<>> THEN {n \in 1..(BUFSIZ + 1) : n <= Len(net)}
  ELSE CASE fin = "open" -> {} [] fin = "eof" -> {0} [] fin = "reset" -> {-1}

Read ==
  IF net # <<>> THEN {n \in 1..BUFSIZ : n <= Len(net)}
  ELSE CASE fin = "open" -> {} [] fin = "eof" -> {0} [] fin = "reset" -> {-1}

\* The buffer after a read that did not fail; the text version adds a NUL.
tcp_receive(n) ==
  [j \in 0..BUFSIZ |-> IF j < n THEN net[j + 1] ELSE IF j = n THEN NUL ELSE b.buffer[j]]

tcp_binary_receive(n) ==
  [j \in 0..BUFSIZ |-> IF j < n THEN net[j + 1] ELSE b.buffer[j]]

Unread == SubSeq(net, b'.dim + 1, Len(net))

\* The next character is ch.
FromBuffer(ch) ==
  /\ ch = b.buffer[b.i]
  /\ b' = [b EXCEPT !.i = b.i + 1]
  /\ UNCHANGED net

FromNet(ch, n, buffer) ==
  /\ ch = buffer[0]
  /\ b' = [dim |-> n, i |-> 1, buffer |-> buffer]
  /\ net' = Unread

tcp_getchar_bsNoReset(ch) ==     \* mutant: i is not set back after a reload
  IF b.i >= b.dim \/ b.buffer[b.i] = NUL
    THEN \E n \in Read :
           IF n = -1 THEN ch = EOF /\ b' = [b EXCEPT !.dim = -1] /\ UNCHANGED net
           ELSE /\ ch = tcp_receive(n)[b.i]
                /\ b' = [dim |-> n, i |-> b.i + 1, buffer |-> tcp_receive(n)]
                /\ net' = Unread
    ELSE FromBuffer(ch)

tcp_getchar_bs(ch) ==
  IF b.i >= b.dim \/ b.buffer[b.i] = NUL
    THEN \E n \in Read :
           IF n = -1 THEN ch = EOF /\ b' = [b EXCEPT !.dim = -1] /\ UNCHANGED net
           ELSE FromNet(ch, n, tcp_receive(n))
    ELSE FromBuffer(ch)

tcp_binary_getchar_bsText(ch) == \* mutant: a NUL ends the buffer, as in a line
  IF b.i >= b.dim \/ b.buffer[b.i] = NUL
    THEN \E n \in Read :
           IF n = -1 THEN ch = EOF /\ b' = [b EXCEPT !.dim = -1] /\ UNCHANGED net
           ELSE FromNet(ch, n, tcp_binary_receive(n))
    ELSE FromBuffer(ch)

\* At the end of the stream it returns what happens to be in the buffer.
tcp_binary_getchar_bs(ch) ==
  IF b.i >= b.dim
    THEN \E n \in Read :
           IF n = -1 THEN ch = EOF /\ b' = [b EXCEPT !.dim = -1] /\ UNCHANGED net
           ELSE FromNet(ch, n, tcp_binary_receive(n))
    ELSE FromBuffer(ch)

Return(r) == pc' = "ret" /\ ret' = r

\* A line is complete: an empty one means that the connection is lost; a header
\* is followed by a body; after the body the line has to be END.
LineReadNoEnd ==         \* mutant: the line after the body is not tested
  \/ rec = <<>> /\ pc = "line" /\ Return(-2)
  \/ rec # <<>> /\ pc = "line" /\ sent = <<>> /\ Return(0)
  \/ rec # <<>> /\ pc = "line" /\ sent # <<>> /\ pc' = "body" /\ UNCHANGED ret
  \/ pc = "end" /\ Return(0)

LineReadSkip ==          \* mutant: an empty line is skipped
  \/ rec = <<>> /\ UNCHANGED <<pc, ret>>
  \/ rec # <<>> /\ pc = "line" /\ sent = <<>> /\ Return(0)
  \/ rec # <<>> /\ pc = "line" /\ sent # <<>> /\ pc' = "body" /\ UNCHANGED ret
  \/ rec # <<>> /\ pc = "end" /\ Return(IF rec = EndLine THEN 0 ELSE -4)

LineRead ==
  \/ rec = <<>> /\ Return(-2)
  \/ rec # <<>> /\ pc = "line" /\ sent = <<>> /\ Return(0)
  \/ rec # <<>> /\ pc = "line" /\ sent # <<>> /\ pc' = "body" /\ UNCHANGED ret
  \/ rec # <<>> /\ pc = "end" /\ Return(IF rec = EndLine THEN 0 ELSE -4)

\* One round of the loop in tcp_readline.
tcp_readline ==
  /\ pc \in {"line", "end"}
  /\ \E ch \in Bytes \cup {EOF} :
       /\ tcp_getchar_bs(ch)
       /\ \/ ch = EOF /\ Return(-2) /\ UNCHANGED rec
          \/ ch \in {NL, NUL} /\ LineRead /\ UNCHANGED rec
          \/ ch \notin {EOF, NL, NUL} /\ rec' = Append(rec, ch) /\ UNCHANGED <<pc, ret>>
  /\ UNCHANGED <<kind, serverVars, fin, body>>

\* One round of the loop that receives rec_len bytes, the length in the header.
ReceiveAndDecompress ==
  /\ pc = "body"
  /\ \E ch \in Bytes \cup {EOF} :
       /\ tcp_binary_getchar_bs(ch)
       /\ \/ ch = EOF /\ Return(-2) /\ UNCHANGED <<rec, body>>
          \/ /\ ch # EOF
             /\ body' = Append(body, ch)
             /\ IF Len(body') = Len(sent) THEN pc' = "end" /\ rec' = <<>> ELSE UNCHANGED <<pc, rec>>
             /\ UNCHANGED ret
  /\ UNCHANGED <<kind, serverVars, fin>>

\* After -2 the main thread connects again and keeps control_buffer, while a new
\* transmission thread, resumed after -2 or asked for by the user after -4, begins
\* with a buffer of its own.
Connect ==
  /\ pc = "ret" /\ ret # 0
  /\ pc' = "send" /\ ret' = 0
  /\ fin' = "open"
  /\ wr' = <<>> /\ net' = <<>>
  /\ b' = IF kind = "control" THEN b ELSE init_buffer_tcp
  /\ UNCHANGED <<kind, turn, sent, rec, body>>

NextRequest ==
  /\ pc = "ret" /\ ret = 0
  /\ pc' = "send"
  /\ UNCHANGED <<kind, serverVars, net, fin, b, rec, body, ret>>

Client == TcpSendReceive \/ tcp_readline \/ ReceiveAndDecompress \/ Connect \/ NextRequest

Next == tcp_send \/ Die \/ Reset \/ Client

Spec == Init /\ [][Next]_vars

\* The child writes its reply, and a read with something to return does return.
FairSpec == Spec /\ WF_vars(tcp_send) /\ WF_vars(Client)

-----------------------------------------------------------------------------
(* Properties.                                                             *)

\* A line handed over is the whole line of this reply: not a part of it, and not
\* the rest of an earlier one, left in the buffer when the connection was lost.
LineIntact ==
  /\ pc = "body" => rec = Line(turn)
  /\ pc = "ret" /\ ret = 0 /\ sent = <<>> => rec = Line(turn)

\* What is handed to uncompress is what compress made, however the stream was
\* cut into pieces: the bytes that shared a read with the header, the NULs and
\* newlines among them, and nothing that was left over in the buffer.
BodyIntact == pc = "ret" /\ ret = 0 => body = sent

\* A reply is either received or the connection is reported as lost, with the -2
\* that makes client.c resume the transmission; never taken for a wrong reply.
LossReported == pc = "ret" => ret # -4

\* Every call returns, whatever the connection's end looks like: a reader never
\* waits for bytes that will not come.
CallReturns == pc # "ret" ~> pc = "ret"
=============================================================================
