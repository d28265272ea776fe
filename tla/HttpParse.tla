----------------------------- MODULE HttpParse -----------------------------
(***************************************************************************)
(* The HTTP/1 head parser of crates/net/http/src/parse.rs (Requester and   *)
(* Responser share everything but their first line) and the body reader of *)
(* body.rs.  The parser reads the stream in pieces whose size it does not  *)
(* choose; after each read the inner loop consumes what is complete and    *)
(* leaves the rest in the buffer.                                          *)
(*                                                                         *)
(* Bytes are symbols: "x" a token byte, "s" a space or tab, "c" and "n"    *)
(* the carriage return and line feed, ":" the colon.  The eight bytes of a *)
(* version are the two symbols "H" "1" and the three of a status code are  *)
(* "2" "0", so that a read may still end inside either.                    *)
(***************************************************************************)
EXTENDS Naturals, Sequences, FiniteSetsExt

CONSTANTS
    Firsts,      \* first lines: [kind, raw, parts, more], where more are the headers
                 \* the code reads on the line, or [kind, raw] for junk
    Lines,       \* header lines: [raw, name, value], or [raw] alone for junk
    MaxLines,    \* bound on the number of header lines of a message
    Newlines,    \* the line ends a peer may use, among <<"c","n">>, <<"n">>
    Bodies,      \* the bodies a message may have
    MaxHead,     \* parsing_headers_max_buf
    MaxBody,     \* max_body_len given to BodyReader::into_bytes
    Grow         \* what BytesMut reserves when it is full (64 bytes)

ASSUME HttpAssumption ==
    /\ \A f \in Firsts : f.kind \in {"request", "response"}
    /\ MaxLines \in Nat /\ MaxHead \in Nat \ {0} /\ MaxBody \in Nat /\ Grow \in Nat \ {0}
    /\ Newlines \subseteq {<<"c", "n">>, <<"n">>}

VARIABLES
    msg,         \* what the peer sends: [first, lines, nl, body]
    cut,         \* how many bytes of it arrive before the end of the stream
    pos,         \* bytes of it read so far
    buf,         \* read_buf: read and not yet consumed
    state,       \* RequestParseState / ResponseParseState
    parts,       \* what the builder received for the first line
    headers,     \* the headers given to the builder
    pc,          \* "read", "parse", "body" or "done"
    result,      \* "none", "ok", "eof", "overflow", "err" or "io"
    body,        \* read_buf of into_bytes
    room,        \* spare capacity of the buffer in use
    torn         \* history: a read ended inside the blank line

httpVars == <<msg, cut, pos, buf, state, parts, headers, pc, result, body, room, torn>>

(* A Requester parses a request, a Responser a response. *)
States == IF msg.first.kind = "request"
          THEN <<"Method", "Uri", "Version", "Headers", "Finished">>
          ELSE <<"Version", "StatusCode", "Reason", "Headers", "Finished">>

(* The enum's `*(self as *mut u8) += 1`, which stays at Finished. *)
Following(st) ==
    LET i == CHOOSE k \in 1..5 : States[k] = st
    IN  IF st = "Finished" THEN st ELSE States[i + 1]

-----------------------------------------------------------------------------
(* What the peer sends. *)

HeadOf(m) ==
    LET upto[n \in 0..Len(m.lines)] ==
          IF n = 0 THEN m.first.raw ELSE upto[n - 1] \o m.nl \o m.lines[n].raw
    IN  upto[Len(m.lines)]

Whole(m) == HeadOf(m) \o m.nl \o m.nl \o m.body

HeadEnd(m) == Len(HeadOf(m)) + 2 * Len(m.nl)

Stream == SubSeq(Whole(msg), 1, cut)

(* The places inside the blank line that ends the head: after the end of   *)
(* the last line and before the end of the empty one.                      *)
InBlankLine(m, p) == Len(HeadOf(m)) + Len(m.nl) <= p /\ p < HeadEnd(m)

IsJunk(l) == DOMAIN l \cap {"parts", "name"} = {}

-----------------------------------------------------------------------------
(* Scanning helpers.  Each returns a number of bytes; None is Len + 1. *)

Space == {"s"}
Eol   == {"c", "n"}

(* The offset of the first byte of S, or None. *)
Offset(s, S) ==
    LET at == {i \in 1..Len(s) : s[i] \in S}
    IN  IF at = {} THEN Len(s) + 1 ELSE Min(at) - 1

Found(s, S) == Offset(s, S) <= Len(s)

skip_spaces(s) ==
    LET at == {i \in 1..Len(s) : s[i] \notin Space}
    IN  IF at = {} THEN Len(s) ELSE Min(at) - 1

Drop(s, k) == SubSeq(s, k + 1, Len(s))

SkipSpaces(s) == Drop(s, skip_spaces(s))

(* trim_suffix_spaces leaves a run of nothing but spaces alone. *)
trim_suffix_spaces(s) ==
    LET at == {i \in 1..Len(s) : s[i] \notin Space}
    IN  IF at = {} THEN s ELSE SubSeq(s, 1, Max(at))

(* _skip_newline: the length of the line end s starts with at i; a lone    *)
(* carriage return (Incomplete) is no line end.                            *)
NewlineAt(s, i) ==
    CASE i <= Len(s) /\ s[i] = "n" -> 1
      [] i < Len(s) /\ s[i] = "c" /\ s[i + 1] = "n" -> 2
      [] OTHER -> 0

(* A mutant: a carriage return alone ends a line. *)
SkipNewlinesEager(s) ==
    LET len == Max({k \in 0..Len(s) : \A i \in 1..k : s[i] \in Eol})
    IN  [is_break |-> len > 1, len |-> len]

(* _skip_newlines: the length of the line ends s starts with, which is the *)
(* longest run of bytes in which every line end is complete, and whether   *)
(* there is one before the last: None, One(len) and Break(len).            *)
SkipNewlines(s) ==
    LET len == Max({k \in 0..Len(s) : \A i \in 1..k : NewlineAt(s, i) \in 1..k + 1 - i})
    IN  [is_break |-> \E i \in 1..len - 1 : s[i] = "n", len |-> len]

(* What Method, Uri and HeaderName accept of these symbols. *)
IsToken(s) == s # <<>> /\ \A i \in 1..Len(s) : s[i] \notin Space \cup Eol \cup {":"}

-----------------------------------------------------------------------------
HttpInit ==
    /\ msg \in [first : Firsts, lines : UNION {[1..n -> Lines] : n \in 0..MaxLines},
                nl : Newlines, body : Bodies]
    /\ cut \in 0..Len(Whole(msg))
    /\ pos = 0 /\ buf = <<>> /\ state = States[1]
    /\ parts = <<>> /\ headers = <<>>
    /\ pc = "read" /\ result = "none"
    /\ body = <<>> /\ room = MaxHead /\ torn = FALSE

(* chunk_mut of a BytesMut: a full buffer reserves more before it is lent. *)
Spare(r) == IF r = 0 THEN Grow ELSE r

Stop(why) == pc' = "done" /\ result' = why

(* One turn of the outer loop: overflow check, read, which may fail, end   *)
(* of stream.                                                              *)
Read ==
    /\ pc = "read"
    /\ \/ /\ Spare(room) = 0 \/ pos = Len(Stream)
          /\ Stop(IF Spare(room) = 0 THEN "overflow" ELSE "eof")
          /\ UNCHANGED <<pos, buf, room, torn>>
       \/ Spare(room) # 0 /\ Stop("io") /\ UNCHANGED <<pos, buf, room, torn>>
       \/ \E n \in 1..Len(Stream) - pos :
          /\ n <= Spare(room)
          /\ pos' = pos + n
          /\ buf' = buf \o SubSeq(Stream, pos + 1, pos + n)
          /\ room' = Spare(room) - n
          /\ torn' = (torn \/ InBlankLine(msg, pos + n))
          /\ pc' = "parse"
          /\ UNCHANGED result
    /\ UNCHANGED <<msg, cut, state, parts, headers, body>>

(* The end of a parse_* call: Ok(true) stays in the inner loop while bytes *)
(* remain, Ok(false) goes back to read.                                    *)
Again(rest) == /\ buf' = rest
               /\ pc' = IF rest = <<>> THEN "read" ELSE "parse"
               /\ UNCHANGED result
More(rest)  == buf' = rest /\ pc' = "read" /\ UNCHANGED result
Fail        == Stop("err") /\ UNCHANGED buf

(* A first-line item that ends where `len` says, found or not, valid or    *)
(* not: parse_method, parse_uri, parse_version, parse_status_code and      *)
(* parse_reason after their skip_spaces.                                   *)
Item(st, rest, found, len, valid) ==
    /\ pc = "parse" /\ state = st
    /\ \/ found /\ valid
          /\ parts' = Append(parts, SubSeq(rest, 1, len))
          /\ state' = Following(state)
          /\ Again(Drop(rest, len))
       \/ found /\ ~valid /\ Fail /\ UNCHANGED <<parts, state>>
       \/ ~found /\ More(rest) /\ UNCHANGED <<parts, state>>
    /\ UNCHANGED <<msg, cut, pos, headers, body, room, torn>>

Token(st) ==
    LET rest == SkipSpaces(buf)
        len  == Offset(rest, Space \cup Eol)
    IN  Item(st, rest, Found(rest, Space \cup Eol), len,
             IsToken(SubSeq(rest, 1, len)))

ParseMethod == Token("Method")
ParseUri    == Token("Uri")

(* A field of fixed length: the version's eight bytes, the code's three. *)
Fixed(st, text) ==
    LET rest == SkipSpaces(buf)
    IN  Item(st, rest, Len(rest) >= Len(text), Len(text), SubSeq(rest, 1, Len(text)) = text)

ParseVersion == Fixed("Version", <<"H", "1">>)
ParseStatusCode == Fixed("StatusCode", <<"2", "0">>)

(* The reason may be empty and may hold spaces. *)
ParseReason ==
    LET rest == SkipSpaces(buf)
    IN  Item("Reason", rest, Found(rest, Eol), Offset(rest, Eol), TRUE)

(* The free function parse_header on the bytes left after skip_newlines:   *)
(* name up to the colon, value up to the line end, both trimmed.  Nothing  *)
(* is consumed unless both are complete.                                   *)
HeaderIn(rest) ==
    LET start == skip_spaces(rest)
        line  == Drop(rest, start)
        nlen  == Offset(line, {":"})
        tail  == IF Found(line, {":"}) THEN Drop(line, nlen + 1) ELSE <<>>
        value == SkipSpaces(tail)
        vlen  == Offset(value, Eol)
    IN  IF Found(line, {":"}) /\ Found(value, Eol)
        THEN [some |-> TRUE,
              name |-> trim_suffix_spaces(SubSeq(line, 1, nlen)),
              value |-> trim_suffix_spaces(SubSeq(value, 1, vlen)),
              rest |-> Drop(value, vlen)]
        ELSE [some |-> FALSE]

(* A mutant: a value ends where the buffer ends. *)
parse_header_eager(rest) ==
    HeaderIn(IF rest = <<>> \/ Found(rest, Eol) THEN rest ELSE Append(rest, "n"))

parse_header(rest) == HeaderIn(rest)

(* parse_header of either parser: skip_newlines, then one header. *)
ParseHeader ==
    LET nl   == SkipNewlines(buf)
        rest == Drop(buf, nl.len)
        h    == parse_header(rest)
    IN  /\ pc = "parse" /\ state = "Headers"
        /\ \/ /\ nl.is_break
              /\ state' = Following(state)
              /\ buf' = rest
              /\ pc' = "body" /\ result' = "ok" /\ room' = MaxBody
              /\ UNCHANGED headers
           \/ /\ ~nl.is_break /\ h.some /\ IsToken(h.name)
              /\ headers' = Append(headers, <<h.name, h.value>>)
              /\ Again(h.rest)
              /\ UNCHANGED <<state, room>>
           \/ /\ ~nl.is_break /\ h.some /\ ~IsToken(h.name)
              /\ Fail
              /\ UNCHANGED <<headers, state, room>>
           \/ /\ ~nl.is_break /\ ~h.some
              /\ More(rest)
              /\ UNCHANGED <<headers, state, room>>
        /\ UNCHANGED <<msg, cut, pos, parts, body, torn>>

(* BodyReader::into_bytes: the cached bytes chained with the stream, read  *)
(* until the end.  A read is served by one of the two, never by both, and  *)
(* only the stream's can fail.                                             *)
ReadBody ==
    /\ pc = "body"
    /\ \/ \E n \in 1..Len(buf) :
          /\ n <= Spare(room)
          /\ body' = body \o SubSeq(buf, 1, n)
          /\ buf' = Drop(buf, n)
          /\ room' = Spare(room) - n
          /\ UNCHANGED <<pos, pc, result>>
       \/ \E n \in 1..Len(Stream) - pos :
          /\ buf = <<>> /\ n <= Spare(room)
          /\ body' = body \o SubSeq(Stream, pos + 1, pos + n)
          /\ pos' = pos + n
          /\ room' = Spare(room) - n
          /\ UNCHANGED <<buf, pc, result>>
       \/ /\ Spare(room) = 0 \/ (buf = <<>> /\ pos = Len(Stream))
          /\ Stop(IF Spare(room) = 0 THEN "overflow" ELSE "ok")
          /\ UNCHANGED <<body, buf, pos, room>>
       \/ /\ buf = <<>> /\ Spare(room) # 0
          /\ Stop("io")
          /\ UNCHANGED <<body, buf, pos, room>>
    /\ UNCHANGED <<msg, cut, state, parts, headers, torn>>

HttpNext == Read \/ ParseMethod \/ ParseUri \/ ParseVersion \/ ParseStatusCode
        \/ ParseReason \/ ParseHeader \/ ReadBody

HttpSpec == HttpInit /\ [][HttpNext]_httpVars

-----------------------------------------------------------------------------
(* Properties. *)

HttpTypeOK ==
    /\ pos \in 0..Len(Stream) /\ Len(buf) <= pos
    /\ \E k \in 1..5 : state = States[k]
    /\ Len(parts) <= 3 /\ room \in Nat
    /\ pc \in {"read", "parse", "body", "done"}
    /\ result \in {"none", "ok", "eof", "overflow", "err", "io"}
    /\ pc = "parse" => buf # <<>>
    /\ pc = "body" => state = "Finished"

Good == /\ ~IsJunk(msg.first)
        /\ \A i \in 1..Len(msg.lines) : ~IsJunk(msg.lines[i])

Sent == msg.first.more
        \o [i \in 1..Len(msg.lines) |-> <<msg.lines[i].name, msg.lines[i].value>>]

SentBody == SubSeq(msg.body, 1, cut - HeadEnd(msg))

HeadIsParsed == result = "ok" /\ parts = msg.first.parts /\ headers = Sent

(* A well-formed message whose head arrives whole over a stream that does  *)
(* not fail is parsed to the first line and the headers that were sent,    *)
(* wherever the reads end: inside a token, a version, a header or between  *)
(* the two bytes of a line end.  The body is the one that was sent, but    *)
(* for the line ends it begins with: skip_newlines takes those that came   *)
(* with the blank line for a part of it.  The one exception is a read that *)
(* ends inside the blank line (see ReadsDoNotMatter).                      *)
UntornIsParsed ==
    pc = "done" /\ result # "io" /\ Good /\ cut >= HeadEnd(msg) /\ ~torn =>
        /\ HeadIsParsed
        /\ \E k \in 0..SkipNewlines(SentBody).len : body = Drop(SentBody, k)

(* How the stream is cut into reads does not matter: a well-formed message *)
(* is parsed to what was sent, and its body is kept.  The comment on       *)
(* SkipNewLine::Break says two line breaks in sequence complete the        *)
(* paragraph.  It does not hold: a read that ends between the two misleads *)
(* skip_newlines, and one that ends after them takes more than the two.    *)
ReadsDoNotMatter ==
    pc = "done" /\ result # "io" /\ Good /\ cut >= HeadEnd(msg) =>
        HeadIsParsed /\ body = SentBody

(* What is accepted is complete: a parser that finishes has read the whole *)
(* head, has the three items of the first line, and has every header of    *)
(* the message in order; a stream that ends early is an error.  A first    *)
(* line in which an item is wrong or missing and a header line without a   *)
(* colon are neither accepted nor skipped, whatever follows them.  (The    *)
(* code asks for no space around a version or a status code, and takes     *)
(* what follows the version on a request's line for a header: such lines   *)
(* are among those it accepts.)                                            *)
NoEarlyFinish ==
    result = "ok" => /\ Good
                     /\ cut >= HeadEnd(msg)
                     /\ parts = msg.first.parts
                     /\ Len(Sent) <= Len(headers)
                     /\ Sent = SubSeq(headers, 1, Len(Sent))

(* Where the bytes that the body reader has, or is going to have, begin. *)
BodyStart == pos - Len(buf) - Len(body)

(* A blank line ends with the first h bytes. *)
BlankLineEnds(h) ==
    /\ h > 1 /\ Stream[h] = "n"
    /\ \/ Stream[h - 1] = "n"
       \/ h > 2 /\ Stream[h - 1] = "c" /\ Stream[h - 2] = "n"

(* Whatever the peer sends and wherever the reads end: a parser that has   *)
(* finished has the three items of the first line and has stopped at the   *)
(* end of a blank line, and what into_bytes returns is all of the stream   *)
(* after it.  No byte is lost, duplicated or reordered between the two     *)
(* buffers, and none of the head is taken for the body's.                  *)
BodyFollowsBlankLine ==
    result = "ok" =>
        /\ Len(parts) = 3
        /\ BlankLineEnds(BodyStart)
        /\ body \o buf = SubSeq(Stream, BodyStart + 1, pos)
        /\ pc = "done" => buf = <<>> /\ pos = Len(Stream)

(* ... and the place where the body begins is final: into_bytes only moves  *)
(* bytes from the cache and the stream to the end of the body.             *)
BodyStartIsFinal == [][result = "ok" => BodyStart' = BodyStart]_httpVars

NoEol(s) == \A i \in 1..Len(s) : s[i] \notin Eol

(* Whatever the peer sends and wherever the reads end: nothing that the    *)
(* builder is given goes over the end of a line, and a header's name is a  *)
(* token; the second and later headers are not read into the first's value. *)
NothingSpansLines ==
    /\ \A i \in 1..Len(parts) : NoEol(parts[i])
    /\ \A i \in 1..Len(headers) : IsToken(headers[i][1]) /\ NoEol(headers[i][2])

(* parsing_headers_max_buf and max_body_len bound what the two readers     *)
(* hold ("limit memory buf usage").  It does not hold: chunk_mut of a full *)
(* BytesMut reserves more, so its length is never 0.                       *)
BuffersAreLimited == Len(buf) <= MaxHead /\ Len(body) <= MaxBody
=============================================================================
