------------------------------- MODULE NodeClient -------------------------------
(***************************************************************************)
(* One connection to a node's console: NodeClient of nodecmp, which sends  *)
(* a command and reads lines until "ack" or "nack", and AaeConsole of      *)
(* console.py, which answers each command with some lines.  The stream     *)
(* hands the bytes over in order, in pieces cut anywhere; the connection   *)
(* may be lost at any time, for one because a command raised an exception. *)
(*                                                                         *)
(* What a call leaves in _buf, the next call finds there.                  *)
(***************************************************************************)
EXTENDS Integers, Sequences, SequencesExt

CONSTANTS
  Digests,     \* the hexadecimal digests, as sequences of bytes
  Keys,        \* the row keys, as sequences of bytes
  MaxDigests   \* bound: digests in a reply

NL == "\n"
SP == " "
Ack == <<"a", "k">>
Nack == <<"n", "k">>
Unknown == <<"u", SP, "c">>     \* "unknown command."

ASSUME ClientAssumption ==
  /\ MaxDigests \in Nat /\ IsFiniteSet(Keys)
  /\ \A w \in Keys \cup Digests : w \in Seq(ToSet(w)) /\ w # <<>> /\ NL \notin ToSet(w)
  /\ Digests \cap {Ack, Nack} = {}

VARIABLES
  open,      \* the connection is not lost
  wire,      \* the bytes sent by the console and not received yet
  asked,     \* the command under way to the console, or "none"
  reply,     \* history: the lines of the console's answer to the last command
  pc,        \* the call: "idle", "first", "top", "find", "failed"
  call,      \* which call it is: "digest", "segment", "update"
  buf,       \* self._buf
  rst        \* rst: the lines, or of a segment the dict, a call collects and returns

stream == <<open, wire, asked, reply>>
client == <<pc, call, buf, rst>>
vars == <<stream, client>>

Init ==
  /\ open = TRUE /\ wire = <<>> /\ asked = "none" /\ reply = <<>>
  /\ pc = "idle" /\ call = "update" /\ buf = <<>> /\ rst = <<>>

-----------------------------------------------------------------------------
(* lineReceived: the answers to each command.  The rows of a segment come  *)
(* in any order.                                                           *)
Row(k, d) == k \o <<SP>> \o d
RowLines ==
  {[n \in DOMAIN ks |-> Row(ks[n], f[ks[n]])] :
     ks \in UNION {SetToSeqs(s) : s \in SUBSET Keys}, f \in [Keys -> Digests]}

Answers(command) ==
  {<<Unknown, Nack>>}
    \cup CASE command = "digest" -> {Append(l, Ack) : l \in SeqOf(Digests, MaxDigests)}
           [] command = "segment" -> {Append(l, Ack) : l \in RowLines}
           [] command = "update" -> {<<Ack>>}

(* sendLine: a line and the delimiter.                                     *)
Sent(lines) == FlattenSeq([n \in DOMAIN lines |-> Append(lines[n], NL)])

Answer ==
  /\ open /\ asked # "none"
  /\ reply' \in Answers(asked)
  /\ wire' = wire \o Sent(reply')
  /\ asked' = "none"
  /\ UNCHANGED <<open, client>>

(* The connection is lost; what was under way arrives up to some byte.     *)
Lose ==
  /\ open /\ open' = FALSE
  /\ \E n \in 0..Len(wire) : wire' = SubSeq(wire, 1, n)
  /\ UNCHANGED <<asked, reply, client>>

-----------------------------------------------------------------------------
(* _read: waits for bytes, as often as it takes; the end of the stream     *)
(* reads as no bytes at all.                                               *)
Recv(chunk) ==
  \/ \E n \in 1..Len(wire) :
       chunk = SubSeq(wire, 1, n) /\ wire' = SubSeq(wire, n + 1, Len(wire))
  \/ ~open /\ wire = <<>> /\ chunk = <<>> /\ UNCHANGED wire

Chunks == {SubSeq(wire, 1, n) : n \in 0..Len(wire)}

(* get_digest, get_segment and update send their command.                  *)
Call(c) ==
  /\ pc = "idle"
  /\ pc' = "first" /\ call' = c /\ asked' = c
  /\ reply' = <<>> /\ rst' = <<>>
  /\ UNCHANGED <<open, wire, buf>>

(* readlines starts: an empty buffer is filled.                            *)
First ==
  /\ pc = "first" /\ pc' = "top"
  /\ \/ buf = <<>> /\ \E chunk \in Chunks : Recv(chunk) /\ buf' = chunk
     \/ buf # <<>> /\ UNCHANGED <<buf, wire>>
  /\ UNCHANGED <<open, asked, reply, call, rst>>

(* self._buf[0]: the end of the line before is dropped; a buffer that is   *)
(* empty now is filled.                                                    *)
Top ==
  /\ pc = "top" /\ buf # <<>>
  /\ pc' = "find"
  /\ IF buf = <<NL>> THEN \E chunk \in Chunks : Recv(chunk) /\ buf' = chunk
     ELSE buf' = (IF Head(buf) = NL THEN Tail(buf) ELSE buf) /\ UNCHANGED wire
  /\ UNCHANGED <<open, asked, reply, call, rst>>

(* The index is out of range in an empty buffer, and the exception ends    *)
(* the program.                                                            *)
TopFails ==
  /\ pc = "top" /\ buf = <<>>
  /\ pc' = "failed"
  /\ UNCHANGED <<stream, call, buf, rst>>

LineEnds == {n \in DOMAIN buf : buf[n] = NL}

(* A mutant of More: the bytes read replace the start of the line.         *)
MoreForgets ==
  /\ pc = "find" /\ LineEnds = {}
  /\ \E chunk \in Chunks : Recv(chunk) /\ buf' = chunk
  /\ pc' = "top"
  /\ UNCHANGED <<open, asked, reply, call, rst>>

More ==
  /\ pc = "find" /\ LineEnds = {}
  /\ \E chunk \in Chunks : Recv(chunk) /\ buf' = buf \o chunk
  /\ pc' = "top"
  /\ UNCHANGED <<open, asked, reply, call, rst>>

FirstSpace(line) == SelectInSeq(line, LAMBDA x : x = SP)
Starts(line) == SubSeq(line, 1, FirstSpace(line) - 1)

(* A mutant of Item: key and digest are swapped.                           *)
SwappedItem(line) == <<SubSeq(line, FirstSpace(line) + 1, Len(line)), Starts(line)>>

(* k, v = l.split(' ', 1)                                                  *)
Item(line) == <<Starts(line), SubSeq(line, FirstSpace(line) + 1, Len(line))>>

(* dict(): a key that comes again takes the later value.                   *)
With(d, k, v) == [x \in DOMAIN d \cup {k} |-> IF x = k THEN v ELSE d[x]]

(* The items and the result of a call, one more line into it.              *)
Collected(line) ==
  CASE call = "digest" -> Append(rst, line)
    [] call = "segment" -> With(rst, Item(line)[1], Item(line)[2])
    [] call = "update" -> rst

(* A mutant of Rest: the end of the line is cut off with the line.         *)
RestPast(n) == SubSeq(buf, n + 1, Len(buf))

(* The buffer behind a line that ends at n.                                *)
Rest(n) == SubSeq(buf, n, Len(buf))

(* readlines yields a line, and the call returns or goes on.               *)
Line ==
  /\ pc = "find" /\ LineEnds # {}
  /\ LET n == CHOOSE m \in LineEnds : \A l \in LineEnds : m <= l
         line == SubSeq(buf, 1, n - 1)
     IN  /\ buf' = Rest(n)
         /\ \/ line = Ack /\ pc' = "idle" /\ rst' = rst
            \/ line = Nack /\ pc' = "idle" /\ rst' = <<>>
            \/ line \notin {Ack, Nack} /\ pc' = "top" /\ rst' = Collected(line)
  /\ UNCHANGED <<stream, call>>

Failed == pc = "failed" /\ UNCHANGED vars

ClientStep == First \/ Top \/ TopFails \/ More \/ Line

Next ==
  \/ \E c \in {"digest", "segment", "update"} : Call(c)
  \/ Answer \/ Lose \/ ClientStep \/ Failed

(* The console handles what it receives and the client reads what arrives; *)
(* nothing makes the connection stay.                                      *)
Spec == Init /\ [][Next]_vars /\ WF_vars(Answer) /\ WF_vars(ClientStep)

-----------------------------------------------------------------------------
(* The lines of the reply before its ack; none of a reply that is a nack.  *)
Body == IF Last(reply) = Nack THEN <<>> ELSE Front(reply)

(* A call that returns has read all of its own reply and nothing else,     *)
(* wherever the stream was cut: get_digest returns the lines, nothing is   *)
(* left for the next call but the end of the last line, and a reply that   *)
(* the loss of the connection cut short is never taken for a whole one     *)
(* (nodecmp:20-35).                                                        *)
ReturnsReply ==
  pc = "idle" /\ reply # <<>> =>
    /\ wire = <<>> /\ buf \in {<<>>, <<NL>>}
    /\ call = "digest" => rst = Body

(* get_segment takes the key up to its first space for the whole key       *)
(* (nodecmp:56): the rows whose keys start alike become one item, all      *)
(* others are an item each, which tells the row and its digest.            *)
SegmentItems ==
  pc = "idle" /\ reply # <<>> /\ call = "segment" =>
    /\ DOMAIN rst = {Starts(l) : l \in ToSet(Body)}
    /\ \A l \in ToSet(Body) :
         (\A m \in ToSet(Body) \ {l} : Starts(m) # Starts(l))
           => Starts(l) \o <<SP>> \o rst[Starts(l)] = l

(* A call returns unless the connection is lost.                           *)
CallReturns == pc = "first" ~> pc = "idle" \/ ~open
=================================================================================
