----------------------------- MODULE TestFrame -----------------------------
(***************************************************************************)
(* The DMX test generator: POST /api/artdmx makes one frame of a universe  *)
(* from query arguments (apiPostArtDmx in src/api.cpp) and broadcasts it   *)
(* (sendArtDmx in src/discovery.cpp).  The frame is built in one static    *)
(* buffer that all requests share.  The nodes keep showing the last frame  *)
(* of their universe.                                                      *)
(***************************************************************************)
EXTENDS Integers, Sequences, SequencesExt

CONSTANTS
  Universe,
  Channels,   \* 512, an even number
  Full,       \* 255
  Asked,      \* numbers a request may contain, in range or not
  Pairs       \* lists of <<channel, value>> that a request may set

Widths == /\ Universe # {} /\ Channels \in Nat \ {0} /\ Channels % 2 = 0 /\ Full \in Nat
          /\ Asked \subseteq Int /\ Pairs \subseteq Seq(Int \X Int)

VARIABLES
  dmx,     \* the static buffer
  output,  \* universe -> what its node shows
  request  \* history: the last request, with the length of its frame

vars == <<dmx, output, request>>

Constrain(n, lo, hi) == IF n < lo THEN lo ELSE IF n > hi THEN hi ELSE n

\* One override of the list; a channel outside the frame is passed over.
Set(len, d, p) == IF p[1] \in 1 .. len THEN [d EXCEPT ![p[1]] = Constrain(p[2], 0, Full)] ELSE d

\* Mutant: only the first frame finds the buffer filled.
FilledOnce(d, fill, len) ==
  [ch \in 1 .. Channels |-> IF ch <= len /\ d[ch] = 0 THEN fill ELSE d[ch]]
Filled(d, fill, len) == [ch \in 1 .. Channels |-> IF ch <= len THEN fill ELSE d[ch]]

Built(d, r) ==
  FoldLeft(LAMBDA e, p : Set(r.len, e, p), Filled(d, r.fill, r.len), r.set)

\* "Art-Net length must be even"
Even(len) == len + (len % 2)

\* A node shows the channels that the frame has, and keeps the others.
sendArtDmx(u, d, len) ==
  output' = [output EXCEPT ![u] = [ch \in 1 .. Channels |-> IF ch <= Even(len) THEN d[ch] ELSE @[ch]]]

apiPostArtDmx(u, l, f, s) ==
  LET r == [universe |-> u, len |-> Constrain(l, 2, Channels), fill |-> Constrain(f, 0, Full), set |-> s]
  IN  /\ dmx' = Built(dmx, r)
      /\ sendArtDmx(u, dmx', r.len)
      /\ request' = r

Zero == [ch \in 1 .. Channels |-> 0]
Init == /\ dmx = Zero /\ output = [u \in Universe |-> Zero]
        /\ request = [universe |-> CHOOSE u \in Universe : TRUE, len |-> 2, fill |-> 0, set |-> <<>>]

Next == \E u \in Universe, l, f \in Asked, s \in Pairs : apiPostArtDmx(u, l, f, s)

Spec == Init /\ [][Next]_vars
-----------------------------------------------------------------------------
(* Properties *)

\* The last value that the list gives a channel, or the fill.
Wanted(ch) ==
  LET of == { i \in DOMAIN request.set : request.set[i][1] = ch }
  IN  IF of = {} THEN request.fill
      ELSE Constrain(request.set[CHOOSE i \in of : \A j \in of : j <= i][2], 0, Full)

\* Each channel of the frame has the value that was asked for it, whatever
\* frames, of this and of other universes, were built in the buffer before.
FrameAsAsked == \A ch \in 1 .. request.len : output[request.universe][ch] = Wanted(ch)

\* Does not hold: the channel that makes an odd length even is whatever an
\* earlier frame, of any universe, had there.
OnlyAskedChannels ==
  [][\A u \in Universe, ch \in 1 .. Channels :
       (u # request'.universe \/ ch > request'.len) => output'[u][ch] = output[u][ch]]_vars
=============================================================================
