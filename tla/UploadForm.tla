----------------------------- MODULE UploadForm -----------------------------
(***************************************************************************)
(* EthernetWebServer::_parseForm for the one part a firmware upload has.   *)
(* The file is taken byte by byte from the connection and handed on in     *)
(* buffers, until CR LF "--" and the boundary.  The browser sends when it  *)
(* likes, and may close or break the connection at any byte.               *)
(***************************************************************************)
EXTENDS Integers, Sequences, SequencesExt

CONSTANTS
  Files,    \* files a browser may send, sequences of bytes ("r", "n", "-" and others)
  Boundary, \* sequence of bytes
  BufLen    \* HTTP_UPLOAD_BUFLEN

Forms == /\ BufLen \in Nat \ {0} /\ Len(Boundary) > 0
         /\ \A f \in Files : f \in Seq({"r", "n", "-"} \union {Boundary[i] : i \in DOMAIN Boundary})

\* A browser takes a boundary that the file does not contain, of characters that are no CR.
Mark  == <<"r", "n", "-", "-">> \o Boundary
Apart ==
  /\ Boundary \in Seq({Boundary[i] : i \in DOMAIN Boundary})
  /\ \A i \in DOMAIN Boundary : Boundary[i] # "r"
  /\ \A f \in Files : \A p \in 0 .. Len(f) - Len(Mark) : \E j \in 1 .. Len(Mark) : f[p + j] # Mark[j]

VARIABLES
  file,    \* the file of this upload
  arrived, got, \* bytes of the file's part that came, and that were read
  conn,    \* "open", "half" (the browser closed its side), "broken"
  stage,   \* where the parser is
  held,    \* argByte
  endBuf,  \* endBuf, as far as it was read
  buf, given, \* _currentUpload->buf; what upload() was given before
  status,  \* "none", "begun", "end", "aborted": what upload() was told of the file
  late     \* a line or a boundary was not there within the stream's timeout

wire   == <<file, arrived, conn>>
upload == <<buf, given, status>>
vars   == <<wire, got, stage, held, endBuf, upload, late>>

Stream == file \o <<"r", "n", "-", "-">> \o Boundary \o <<"-", "-", "r", "n">>
HasByte == got < arrived
\* EthernetClient::connected()
Connected == conn = "open" \/ (conn = "half" /\ HasByte)
Aborted == stage = "over" /\ status = "aborted"

Init ==
  /\ file \in Files /\ arrived = 0 /\ got = 0 /\ conn = "open"
  /\ stage = "head" /\ held = "none" /\ endBuf = <<>>
  /\ buf = <<>> /\ given = <<>> /\ status = "none" /\ late = FALSE
-----------------------------------------------------------------------------
(* The browser *)

Arrive ==
  /\ conn = "open" /\ stage # "head" /\ arrived < Len(Stream)
  /\ arrived' = arrived + 1
  /\ UNCHANGED <<file, conn, got, stage, held, endBuf, upload, late>>

Close ==
  /\ conn = "open" /\ conn' \in {"half", "broken"}
  /\ UNCHANGED <<file, arrived, got, stage, held, endBuf, upload, late>>
-----------------------------------------------------------------------------
(* The parser *)

\* The boundary line, Content-Disposition, Content-Type and an empty line.
PartHead ==
  /\ stage = "head" /\ conn = "open"
  /\ status' = "begun" /\ stage' = "next"
  /\ UNCHANGED <<wire, got, held, endBuf, buf, given, late>>

\* One of them stays away for a second: the loop asks for the next line for ever,
\* or what came is no form at all.
NoPartHead ==
  /\ stage = "head"
  /\ stage' \in {"stuck", "refused"} /\ late' = TRUE
  /\ UNCHANGED <<wire, got, held, endBuf, upload>>

\* Mutant: the last byte of a full buffer is overwritten.
WriteDropped(bytes) ==
  LET all == buf \o bytes
  IN  IF Len(all) <= BufLen THEN buf' = all /\ UNCHANGED given
      ELSE buf' = SubSeq(all, BufLen + 1, Len(all)) /\ given' = given \o SubSeq(all, 1, BufLen - 1)

\* _uploadWriteByte, for each of the bytes: a full buffer is handed on when the next byte comes.
Write(bytes) ==
  LET all  == buf \o bytes
      kept == IF all = <<>> THEN 0 ELSE ((Len(all) - 1) % BufLen) + 1
  IN  /\ buf' = SubSeq(all, Len(all) - kept + 1, Len(all))
      /\ given' = given \o SubSeq(all, 1, Len(all) - kept)

Abort == stage' = "over" /\ status' = "aborted"

\* _uploadReadByte: waits for a byte or the end of the connection, which reads as 255.
Byte == IF HasByte THEN Stream[got + 1] ELSE "255"
Readable == HasByte \/ ~Connected
Read == /\ Readable /\ got' = IF HasByte THEN got + 1 ELSE got
\* connected(), asked after the byte was read
StillConnected == conn = "open" \/ (conn = "half" /\ got' < arrived)

NextByte ==
  /\ stage = "next" /\ Read
  /\ held' = Byte /\ stage' = "file"
  /\ UNCHANGED <<wire, endBuf, upload, late>>

FileByte ==
  /\ stage = "file" /\ held # "r"
  /\ IF Connected THEN Write(<<held>>) /\ stage' = "next" /\ UNCHANGED status
     ELSE Abort /\ UNCHANGED <<buf, given>>
  /\ UNCHANGED <<wire, got, held, endBuf, late>>

\* The next byte is the one expected, and the parser goes on to the stage then; or it
\* is not, what was held back belongs to the file, and the byte is looked at again.
Expect(byte, then, back) ==
  /\ Read
  /\ IF ~StillConnected THEN Abort /\ UNCHANGED <<held, buf, given>>
     ELSE /\ UNCHANGED status
          /\ IF Byte = byte THEN stage' = then /\ UNCHANGED <<held, buf, given>>
             ELSE Write(back) /\ held' = Byte /\ stage' = "file"
  /\ UNCHANGED <<wire, endBuf, late>>

\* Mutant: the CR before a byte that is no LF is forgotten.
BackNone == <<>>
BackCR   == <<"r">>

LineFeed   == (stage = "file" /\ held = "r") /\ Expect("n", "lf", BackCR)
FirstDash  == stage = "lf" /\ Expect("-", "dash", <<"r", "n">>)
SecondDash == stage = "dash" /\ Expect("-", "boundary", <<"r", "n", "-">>)

BoundaryByte ==
  /\ stage = "boundary" /\ Len(endBuf) < Len(Boundary) /\ HasByte
  /\ endBuf' = Append(endBuf, Byte) /\ got' = got + 1
  /\ UNCHANGED <<wire, stage, held, upload, late>>

\* readBytes gives up after a second; the rest of endBuf is what the stack held.
BoundaryLate ==
  /\ stage = "boundary" /\ Len(endBuf) < Len(Boundary) /\ ~HasByte
  /\ endBuf' = endBuf \o [i \in 1 .. Len(Boundary) - Len(endBuf) |-> "stack"] /\ late' = TRUE
  /\ UNCHANGED <<wire, got, stage, held, upload>>

\* upload() with what is left, and again with UPLOAD_FILE_END.
FileEnds ==
  /\ stage = "boundary" /\ endBuf = Boundary
  /\ given' = given \o buf /\ buf' = <<>> /\ status' = "end" /\ stage' = "tail"
  /\ UNCHANGED <<wire, got, held, endBuf, late>>

NoBoundary ==
  /\ stage = "boundary" /\ Len(endBuf) = Len(Boundary) /\ endBuf # Boundary
  /\ Write(<<"r", "n", "-", "-">> \o endBuf) /\ endBuf' = <<>> /\ stage' = "next"
  /\ UNCHANGED <<wire, got, held, status, late>>

LastLine ==
  /\ stage = "tail" /\ arrived = Len(Stream)
  /\ got' = arrived /\ stage' = "over"
  /\ UNCHANGED <<wire, held, endBuf, upload, late>>

\* The "--" after the boundary stays away: another part is looked for, for ever.
LastLineLate ==
  /\ stage = "tail" /\ arrived < Len(Stream)
  /\ stage' = "stuck" /\ late' = TRUE
  /\ UNCHANGED <<wire, got, held, endBuf, upload>>

Parse ==
  \/ PartHead \/ NextByte \/ FileByte \/ LineFeed \/ FirstDash \/ SecondDash
  \/ BoundaryByte \/ FileEnds \/ NoBoundary \/ LastLine
Timeouts == NoPartHead \/ BoundaryLate \/ LastLineLate
Parser == Parse \/ Timeouts
Next == Arrive \/ Close \/ Parser

Spec == Init /\ [][Next]_vars /\ WF_vars(Parser)
-----------------------------------------------------------------------------
TypeOK ==
  /\ arrived \in 0 .. Len(Stream) /\ got \in 0 .. arrived /\ late \in BOOLEAN
  /\ Len(buf) <= BufLen /\ conn \in {"open", "half", "broken"}
  /\ stage \in {"head", "next", "file", "lf", "dash", "boundary", "tail", "over", "stuck", "refused"}

\* An upload that ends has handed on the file, however its bytes resemble the
\* boundary, and until then what was handed on is what came, in its order.
FileKept == ~late => /\ IsPrefix(given, Stream)
                     /\ status = "end" => given = file

\* The handler hears of the end of an upload exactly once, and loop() is lost in the
\* parser only after a second's silence.
EndOrAbort == /\ stage = "over" => status \in {"end", "aborted"}
              /\ stage = "stuck" => late

\* When the browser goes away in the middle of the file the handler hears of an end.
Gone == conn # "open" /\ status = "begun"
Told == status \in {"end", "aborted"}
GoneIsNoticed == Gone ~> Told

\* Does not hold: and wherever it goes away, the parser comes back.  A line of the
\* part's head, or the "--" at the end, that never comes is asked for for ever.
ComesBack == conn # "open" ~> stage \in {"over", "refused"}

\* Does not hold: every file the browser has sent whole comes to its end.  When the
\* last bytes of the file contain CR LF "--", the real boundary is taken for the rest of
\* a wrong one, and the parser waits for more.
FileComes == ~late /\ got = Len(Stream) => stage \notin {"next", "lf", "dash"}
=============================================================================
