---------------------------- MODULE HttpRequest ----------------------------
(***************************************************************************)
(* EthernetWebServer::_parseRequest: the request line, the header lines    *)
(* and the body, read from a connection on which bytes may stay away for   *)
(* longer than the stream's timeout.  A line is a sequence of symbols: a   *)
(* header's name with its colon, parts of its value, CR and LF.  The       *)
(* digits of Content-Length are binary.                                    *)
(***************************************************************************)
EXTENDS Integers, Sequences, SequencesExt

CONSTANTS
  Queries,  \* query strings, sequences of "=", "&" and text
  Bodies    \* bodies a POST may have

\* LengthText and Value know the lengths of bodies of up to three bytes.
Texts == /\ \A q \in Queries : q \in Seq(STRING)
         /\ \A b \in Bodies : b \in Seq(STRING) /\ Len(b) <= 3

\* A POST of JSON, of a file, or of arguments.
Requests ==
  [kind : {"get"}, query : Queries, body : {<<>>}]
    \union [kind : {"post", "form", "encoded"}, query : Queries, body : Bodies]

VARIABLES
  request, arrived, got,
  stage,   \* "line", "headers", "body", then "handled", "form" or "refused"
  text,    \* the line, as far as it was read
  skipping, \* readStringUntil('\n') after it
  length, isForm, isEncoded, plain, args, \* contentLength, isForm, isEncoded, plainBuf, _currentArgs
  late     \* bytes of a line stayed away for a second

parsed == <<length, isForm, isEncoded, plain, args>>
vars   == <<request, arrived, got, stage, text, skipping, parsed, late>>

Crlf == <<"r", "n">>
Digits == <<"0", "1">>
\* Content-Length of a body of up to three bytes
LengthText(n) == IF n < 2 THEN <<Digits[n + 1]>> ELSE <<"1", Digits[n - 1]>>
First(req) == IF req.kind = "get" THEN <<"get", "uri">> ELSE <<"post", "uri">>
Lines(req) ==
  << First(req), <<"host:", "h">> >>
    \o (IF req.kind = "get" THEN <<>>
        ELSE << <<"type:">> \o (IF req.kind = "form" THEN <<"multipart", "boundary">>
                               ELSE IF req.kind = "encoded" THEN <<"encoded">> ELSE <<"json">>),
                <<"length:">> \o LengthText(Len(req.body)) >>)
    \o << <<>> >>
Sent == FlattenSeq([i \in DOMAIN Lines(request) |-> Lines(request)[i] \o Crlf]) \o request.body
Names == {"host:", "type:", "length:"}

HasByte == got < arrived
Byte == Sent[got + 1]
Over == stage \in {"handled", "form", "refused"}

Init ==
  /\ request \in Requests /\ arrived = 0 /\ got = 0
  /\ stage = "line" /\ text = <<>> /\ skipping = FALSE
  /\ length = 0 /\ isForm = FALSE /\ isEncoded = FALSE /\ plain = <<>> /\ args = <<>> /\ late = FALSE

Arrive ==
  /\ ~Over /\ arrived < Len(Sent)
  /\ \E n \in {arrived + 1, Len(Sent)} : arrived' = n
  /\ UNCHANGED <<request, got, stage, text, skipping, parsed, late>>
-----------------------------------------------------------------------------
(* _parseArguments *)

\* The arguments of the address and those of the body.
Joined(query, body) == IF query = <<>> THEN body ELSE query \o <<"&">> \o body

Find(data, sym, from) ==
  LET at == {i \in from .. Len(data) : data[i] = sym}
  IN  IF at = {} THEN 0 ELSE CHOOSE i \in at : \A j \in at : i <= j

\* Mutant: a part without "=" takes the next part's.
NoEqualAny(equal, next) == equal = 0
NoEqual(equal, next)    == equal = 0 \/ (equal > next /\ next # 0)

ParseArguments(data) ==
  LET Arg[pos \in 1 .. Len(data) + 1] ==
        LET equal == Find(data, "=", pos)
            next  == Find(data, "&", pos)
            rest  == IF next = 0 THEN <<>> ELSE Arg[next + 1]
            last  == IF next = 0 THEN Len(data) ELSE next - 1
        IN  IF NoEqual(equal, next) THEN rest
            ELSE << [key |-> SubSeq(data, pos, equal - 1), value |-> SubSeq(data, equal + 1, last)] >> \o rest
  IN  Arg[1]
-----------------------------------------------------------------------------
(* _parseRequest *)

Value(digits) ==
  CASE digits = <<>> -> 0
    [] Len(digits) = 1 -> IF digits[1] = "1" THEN 1 ELSE 0
    [] OTHER -> 2 + IF digits[2] = "1" THEN 1 ELSE 0

\* An unfinished method or address: the request is refused.
RequestLine ==
  IF Len(text) = 2 THEN stage' = "headers" ELSE stage' = "refused"

\* The empty line, or one without a colon, ends the headers: the arguments are parsed
\* now when there is no body, and none that _parseForm reads.
EndOfHeaders == text = <<>> \/ text[1] \notin Names

AfterHeaders == IF request.kind = "get" THEN "handled" ELSE IF isForm THEN "form" ELSE "body"
Typed(type)  == Len(text) > 1 /\ text[1] = "type:" /\ text[2] = type

HeaderLine ==
  /\ stage' = IF EndOfHeaders THEN AfterHeaders ELSE "headers"
  /\ args' = IF EndOfHeaders /\ AfterHeaders # "body" THEN ParseArguments(request.query) ELSE args
  /\ length' = IF text # <<>> /\ text[1] = "length:" THEN Value(SubSeq(text, 2, Len(text))) ELSE length
  /\ isForm' = (isForm \/ Typed("multipart")) /\ isEncoded' = (isEncoded \/ Typed("encoded"))
  /\ UNCHANGED plain

LineDone ==
  /\ skipping' = FALSE /\ text' = <<>>
  /\ IF stage = "line" THEN RequestLine /\ UNCHANGED parsed ELSE HeaderLine

Reading == stage \in {"line", "headers"}

LineByte ==
  /\ Reading /\ ~skipping /\ HasByte
  /\ got' = got + 1
  /\ IF Byte = "r" THEN skipping' = TRUE /\ UNCHANGED text
     ELSE text' = Append(text, Byte) /\ UNCHANGED skipping
  /\ UNCHANGED <<request, arrived, stage, parsed, late>>

SkipByte ==
  /\ Reading /\ skipping /\ HasByte
  /\ got' = got + 1
  /\ IF Byte = "n" THEN LineDone ELSE UNCHANGED <<stage, text, skipping, parsed>>
  /\ UNCHANGED <<request, arrived, late>>

\* A second without a byte: readStringUntil returns what it has, and the next one is
\* called, which may still find the rest of the line.
Silence ==
  /\ Reading /\ ~HasByte
  /\ late' = TRUE
  /\ IF skipping THEN LineDone ELSE skipping' = TRUE /\ UNCHANGED <<stage, text, parsed>>
  /\ UNCHANGED <<request, arrived, got>>

\* Mutant: the body is what has come when it is first looked at.
BodyHasCome == TRUE
BodyWhole == Len(plain) = length

\* readBytesWithTimeout
BodyByte ==
  /\ stage = "body" /\ Len(plain) < length /\ HasByte
  /\ got' = got + 1 /\ plain' = Append(plain, Byte)
  /\ UNCHANGED <<request, arrived, stage, text, skipping, length, isForm, isEncoded, args, late>>

BodySilence ==
  /\ stage = "body" /\ Len(plain) < length /\ ~HasByte
  /\ stage' = "refused"
  /\ UNCHANGED <<request, arrived, got, text, skipping, parsed, late>>

\* The arguments are parsed, those of the body with the others, and the handler is called.
Handle ==
  /\ stage = "body" /\ BodyWhole
  /\ stage' = "handled"
  /\ args' = ParseArguments(IF isEncoded THEN Joined(request.query, plain) ELSE request.query)
  /\ UNCHANGED <<request, arrived, got, text, skipping, length, isForm, isEncoded, plain, late>>

Handled == Over /\ UNCHANGED vars

Parse == LineByte \/ SkipByte \/ Silence \/ BodyByte \/ BodySilence \/ Handle
Next == Arrive \/ Parse \/ Handled
Spec == Init /\ [][Next]_vars /\ WF_vars(Parse)
-----------------------------------------------------------------------------
TypeOK ==
  /\ got \in 0 .. arrived /\ arrived \in 0 .. Len(Sent) /\ length \in 0 .. 3
  /\ {skipping, isForm, isEncoded, late} \subseteq BOOLEAN
  /\ stage \in {"line", "headers", "body", "handled", "form", "refused"}

\* The parts of a query that have an "=", each cut at its first one.
Reference(data) ==
  LET cuts  == {0, Len(data) + 1} \union {i \in DOMAIN data : data[i] = "&"}
      parts == {SubSeq(data, p[1] + 1, p[2] - 1) : p \in
                  {c \in cuts \X cuts : c[1] < c[2] /\ ~\E k \in cuts : c[1] < k /\ k < c[2]}}
  IN  {[key |-> SubSeq(p, 1, Find(p, "=", 1) - 1), value |-> SubSeq(p, Find(p, "=", 1) + 1, Len(p))] :
         p \in {q \in parts : \E i \in DOMAIN q : q[i] = "="}}

\* What the page meant as arguments.
Meant == IF request.kind = "encoded" THEN Joined(request.query, request.body) ELSE request.query

\* A handler is given the arguments and the whole body of its request or is not called,
\* and an upload is parsed as one, unless the header lines came a second late.
RequestWhole ==
  /\ stage = "handled" /\ ~late => request.kind # "form" /\ plain = request.body
  /\ stage = "handled" /\ (late => request.kind # "encoded") => ToSet(args) = Reference(Meant)
  /\ stage = "form" => request.kind = "form" /\ ToSet(args) = Reference(Meant)

\* Every request is handled or refused: a browser that falls silent is waited for no
\* longer than the timeouts.
RequestEnds == <>Over

\* Does not hold: the same with lines that come late.  A type or length cut off is taken
\* for none: the handler runs without a body, and an upload is answered with success.
LateIsRefused == stage = "handled" => request.kind # "form" /\ plain = request.body
=============================================================================
