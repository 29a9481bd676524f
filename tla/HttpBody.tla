------------------------------ MODULE HttpBody ------------------------------
(***************************************************************************)
(* How an answer becomes the caller's buffer: the receive loop of          *)
(* net_http_request_once in src/os/kernel/net.c with its decoder, which    *)
(* runs over the characters of one received buffer at a time and keeps its *)
(* state in locals from one to the next.  The header block is one          *)
(* character here; the decoder learns from it whether there is a           *)
(* Content-Length and whether the body is chunked.  The copy of the loop   *)
(* in net_https_request_once is never reached (see Tls).                   *)
(***************************************************************************)
EXTENDS Naturals, Sequences, SequencesExt

CONSTANTS
  Bodies,    \* the bodies peers send, each a sequence of chunks of characters
  OutCap,    \* out_cap: what the caller's buffer holds
  BufSize,   \* sizeof(buf): 512
  LineSize,  \* sizeof(chunk_line): 16
  NoLength   \* 0xFFFFFFFF: content_len without a Content-Length

HttpAssumption ==
  /\ \A body \in Bodies : \A c \in ToSet(body) : c # <<>> /\ Len(c) < 10
  /\ \A body \in Bodies : Len(FlattenSeq(body)) < NoLength
  /\ {OutCap, BufSize, LineSize, NoLength} \subseteq Nat \ {0}

VARIABLES
  answer,  \* what the peer answers
  wire,    \* the characters of it still to come
  cut,     \* the loop will not see all of them
  dec,     \* the locals of the loop
  result   \* "reading", or what the function returned: "ok" or "error"

vars == <<answer, wire, cut, dec, result>>

-----------------------------------------------------------------------------
Headers == "HEADERS"
DigitOf == [ch \in {"0", "1", "2", "3", "4", "5", "6", "7", "8", "9"} |->
              CHOOSE v \in 0 .. 9 : ToString(v) = ch]

Joined(body) == FlattenSeq(body)

\* A peer's framing of a body.
Framed(chunk) == <<ToString(Len(chunk)), "CR", "LF">> \o chunk \o <<"CR", "LF">>
Wire(a) ==
  <<Headers>> \o
    IF a.framing = "chunked"
      THEN FlattenSeq([i \in DOMAIN a.body |-> Framed(a.body[i])]) \o <<"0", "CR", "LF", "CR", "LF">>
      ELSE Joined(a.body)

\* parse_u32_hex stops at the first character that is no digit; a size of one
\* digit is far from the width of a uint32_t.
HexValue(line) ==
  LET digits == SelectInSeq(line, LAMBDA ch : ch \notin DOMAIN DigitOf)
      used == IF digits = 0 THEN line ELSE SubSeq(line, 1, digits - 1)
  IN  FoldLeft(LAMBDA v, ch : v * 16 + DigitOf[ch], 0, used)

Room(d) == Len(d.out) + 1 < OutCap

\* The end of the headers: what they say of the body.
ReadHeaders(d, ch) ==
  [d EXCEPT !.out = Append(@, ch), !.have_headers = TRUE,
            !.is_chunked = answer.framing = "chunked",
            !.content_len = IF answer.framing = "length" THEN Len(Joined(answer.body)) ELSE NoLength]

\* A bug to catch: the length is compared with headers and body together.
ReadRawWithHeaders(d, ch) ==
  [d EXCEPT !.out = Append(@, ch),
            !.chunk_done = d.content_len # NoLength /\ Len(d.out) + 1 >= d.content_len]

\* A body that is not chunked.
ReadRaw(d, ch) ==
  [d EXCEPT !.out = Append(@, ch),
            !.chunk_done = d.content_len # NoLength /\ Len(d.out) >= d.content_len]

\* A character of a chunk-size line, or of what the loop takes for one.
ReadSizeLine(d, ch) ==
  CASE ch = "CR" -> d
    [] ch = "LF" -> LET size == HexValue(d.chunk_line)
                    IN  [d EXCEPT !.chunk_line = <<>>, !.chunk_rem = size, !.chunk_done = size = 0]
    [] OTHER -> IF Len(d.chunk_line) + 1 < LineSize
                  THEN [d EXCEPT !.chunk_line = Append(@, ch)] ELSE d

ReadChunk(d, ch) == [d EXCEPT !.out = Append(@, ch), !.chunk_rem = @ - 1]

\* One turn of the loop over the characters of a buffer.
Decode(d, ch) ==
  CASE ~Room(d) \/ d.chunk_done -> d
    [] ~d.have_headers -> ReadHeaders(d, ch)
    [] ~d.is_chunked -> ReadRaw(d, ch)
    [] d.chunk_rem = 0 -> ReadSizeLine(d, ch)
    [] OTHER -> ReadChunk(d, ch)

-----------------------------------------------------------------------------
Init ==
  /\ answer \in [framing : {"close", "length", "chunked"}, body : Bodies]
  /\ wire = Wire(answer)
  /\ cut = FALSE
  /\ dec = [out |-> <<>>, have_headers |-> FALSE, content_len |-> NoLength, is_chunked |-> FALSE,
            chunk_rem |-> 0, chunk_line |-> <<>>, chunk_done |-> FALSE]
  /\ result = "reading"

Looping == result = "reading" /\ Room(dec) /\ ~dec.chunk_done

\* A buffer of the stream, in pieces as they come.
Receive ==
  /\ Looping
  /\ \E n \in 1 .. Len(wire) :
       /\ n <= BufSize
       /\ dec' = FoldLeft(Decode, dec, SubSeq(wire, 1, n))
       /\ wire' = SubSeq(wire, n + 1, Len(wire))
  /\ UNCHANGED <<answer, cut, result>>

\* A FIN without data, or rounds without anything.
End ==
  /\ Looping /\ wire = <<>>
  /\ result' = "ok"
  /\ UNCHANGED <<answer, wire, cut, dec>>

\* A RST leaves what had come.
Fail ==
  /\ Looping
  /\ result' = "error"
  /\ UNCHANGED <<answer, wire, cut, dec>>

\* The buffer is full or the body complete.
Return ==
  /\ result = "reading" /\ ~Looping
  /\ result' = "ok"
  /\ UNCHANGED <<answer, wire, cut, dec>>

\* The peer closes too early.
CutShort ==
  /\ result = "reading" /\ wire # <<>>
  /\ cut' = TRUE /\ wire' = <<>>
  /\ UNCHANGED <<answer, dec, result>>

Next == Receive \/ End \/ Fail \/ Return \/ CutShort

Spec == Init /\ [][Next]_vars

-----------------------------------------------------------------------------
BodyOut == SubSeq(dec.out, 2, Len(dec.out))
RoomForAll == 1 + Len(Joined(answer.body)) < OutCap

\* The body in the buffer never holds a character of the framing, a body
\* character out of its place or one too many, however the stream was cut into
\* buffers; and when the function returns 0 for an answer that came whole, fits
\* the buffer and has one chunk at most, all of it is there.
BodyIsDecoded ==
  /\ IsPrefix(BodyOut, Joined(answer.body))
  /\ result = "ok" /\ ~cut /\ RoomForAll /\ (answer.framing = "chunked" => Len(answer.body) <= 1)
       => BodyOut = Joined(answer.body)
=============================================================================
