---------------------------- MODULE StreamProofs ----------------------------
(***************************************************************************)
(* What SocketSend, SocketReceive, HttpGet and HttpRequest, as MCServices  *)
(* puts them into one specification, do with every byte, for all sizes of  *)
(* rings and buffers, all streams, answers and requests.  An inductive     *)
(* invariant of each says where its bytes are.  The variables x1, x2, ...  *)
(* of MCServices get the names they have in the component.  ServicesProofs *)
(* has the theorems, StreamsHold and AnswersHold.                          *)
(***************************************************************************)
EXTENDS MCServices, SequenceTheorems, WellFoundedInduction, TLAPS

(* The small components share a state but no steps: while one of them is *)
(* chosen, Next is that component's next-state relation.                 *)

LEMMA BeginsAs ==
  ASSUME Init
  PROVE  /\ component = "monitor" => Monitor!Init
         /\ component = "eeprom" => Eeprom!Init
         /\ component = "reports" => Report!Init
         /\ component = "network" => Net!Init
         /\ component = "led" => Led!Init
         /\ component = "pixel" => Pixel!Init
         /\ component = "serial" => Serial!Init
         /\ component = "get" => Get!Init
         /\ component = "frame" => Frame!Init
         /\ component = "send" => Send!Init
         /\ component = "receive" => Receive!Init
         /\ component = "form" => Form!Init
         /\ component = "request" => Request!Init
         /\ component = "dhcp" => Dhcp!Init
BY DEF Init

LEMMA Moves ==
  ASSUME [Next]_vars
  PROVE  /\ component' = component
         /\ component = "monitor" => [Monitor!Next]_(Monitor!vars)
         /\ component = "eeprom" => [Eeprom!Next]_(Eeprom!vars)
         /\ component = "reports" => [Report!Next]_(Report!vars)
         /\ component = "network" => [Net!Next]_(Net!vars)
         /\ component = "led" => [Led!Next]_(Led!vars)
         /\ component = "pixel" => [Pixel!Next]_(Pixel!vars)
         /\ component = "serial" => [Serial!Next]_(Serial!vars)
         /\ component = "get" => [Get!Next]_(Get!vars)
         /\ component = "frame" => [Frame!Next]_(Frame!vars)
         /\ component = "send" => [Send!Next]_(Send!vars)
         /\ component = "receive" => [Receive!Next]_(Receive!vars)
         /\ component = "form" => [Form!Next]_(Form!vars)
         /\ component = "request" => [Request!Next]_(Request!vars)
         /\ component = "dhcp" => [Dhcp!Next]_(Dhcp!vars)
<1>1. CASE Next
  <2>1. component = "serial" /\ Serial!Type => Serial!Next
    BY DEF Serial!Next
  <2>2. component = "serial" /\ Serial!Work => Serial!Next
    BY DEF Serial!Next
  <2>. QED BY <1>1, <2>1, <2>2 DEF Next, QueuePass, SerialType, SerialWork, SendStep, ReceiveStep, FormStep, RequestStep
<1>2. CASE UNCHANGED vars
  <2>1. UNCHANGED <<component, x1, x2, x3, x4, x5, x6, x7, x8, x9, x10, x11, x12, x13>>
    BY <1>2 DEF vars, Rest3
  <2>2. /\ UNCHANGED Monitor!vars /\ UNCHANGED Eeprom!vars /\ UNCHANGED Report!vars
        /\ UNCHANGED Net!vars /\ UNCHANGED Led!vars /\ UNCHANGED Pixel!vars /\ UNCHANGED Serial!vars
    BY <2>1 DEF Monitor!vars, Eeprom!vars, Report!vars, Net!vars, Led!vars, Led!told, Pixel!vars, Serial!vars
  <2>3. UNCHANGED Send!vars /\ UNCHANGED Receive!vars /\ UNCHANGED Form!vars
    BY <2>1 DEF Send!vars, Send!server, Send!chip, Receive!vars, Receive!chip, Receive!driver,
                Form!vars, Form!wire, Form!upload
  <2>4. UNCHANGED Get!vars /\ UNCHANGED Frame!vars /\ UNCHANGED Request!vars /\ UNCHANGED Dhcp!vars
    BY <2>1 DEF Get!vars, Get!wire, Frame!vars, Request!vars, Request!parsed, Dhcp!vars, Dhcp!client, Dhcp!net
  <2>. QED BY <2>1, <2>2, <2>3, <2>4
<1>. QED BY <1>1, <1>2

-----------------------------------------------------------------------------
(* Induction over data: of a set of numbers one is the least, so a property of all *)
(* lengths fails first at some length, and holds at the one before.                *)
LessThan == {p \in Nat \X Nat : p[1] < p[2]}

\* The least of a set of numbers.
LEMMA HasLeast == ASSUME NEW T \in SUBSET Nat, T # {} PROVE \E x \in T : \A y \in T : x <= y
<1>1. IsWellFoundedOn(LessThan, Nat)
  BY NatLessThanWellFounded, SMT DEF OpToRel, LessThan
<1>2. \E x \in T : \A y \in T : <<y, x>> \notin LessThan
  BY <1>1, WFMin
<1>3. ASSUME NEW x \in T, NEW y \in T, <<y, x>> \notin LessThan PROVE x <= y
  <2>1. x \in Nat /\ y \in Nat
    OBVIOUS
  <2>2. ~ (y < x)
    BY <1>3, <2>1 DEF LessThan
  <2>. QED BY <2>1, <2>2
<1>. QED BY <1>2, <1>3

\* One sequence behind another; hidden in most proofs, which need only what BehindIs says.
Behind(u, v) == v \o u

\* How long they are together, and what stands where.
LEMMA BehindIs ==
  ASSUME NEW S, NEW u, NEW v, u \in Seq(S), v \in Seq(S)
  PROVE  /\ Behind(u, v) \in Seq(S) /\ Len(Behind(u, v)) = Len(v) + Len(u)
         /\ \A i \in 1 .. Len(v) : Behind(u, v)[i] = v[i]
         /\ \A i \in 1 .. Len(u) : Behind(u, v)[Len(v) + i] = u[i]
BY DEF Behind

\* Several sequences, one behind the other, as FlattenSeq joins them.
Chains(f, s) == f = [i \in 1 .. Len(s) |-> IF i = 1 THEN s[i] ELSE Behind(s[i], f[i - 1])]

\* The function FlattenSeq chooses exists, for sequences of every length.
LEMMA Chained ==
  ASSUME NEW S, NEW s, s \in Seq(Seq(S)), Len(s) > 0
  PROVE  \E f \in [1 .. Len(s) -> Seq(S)] : Chains(f, s)
<1>. DEFINE First(n, g) == \A i \in 1 .. n : g[i] = IF i = 1 THEN s[i] ELSE Behind(s[i], g[i - 1])
            Bad == {n \in 1 .. Len(s) : ~\E g \in [1 .. n -> Seq(S)] : First(n, g)}
<1>1. Bad = {}
  <2>. SUFFICES ASSUME Bad # {} PROVE FALSE
    OBVIOUS
  <2>. Bad \in SUBSET Nat
    OBVIOUS
  <2>. HIDE DEF Bad
  <2>1. PICK n \in Bad : \A m \in Bad : n <= m
    BY HasLeast
  <2>2. n \in 1 .. Len(s) /\ ~\E g \in [1 .. n -> Seq(S)] : First(n, g)
    BY <2>1 DEF Bad
  <2>3. n > 1 => n - 1 \in 1 .. Len(s) /\ n - 1 \notin Bad
    <3>. HIDE DEF First
    <3>. QED BY <2>1, <2>2
  <2>4. ASSUME n = 1 PROVE FALSE
    <3>. DEFINE g == [i \in 1 .. 1 |-> s[1]]
    <3>1. g \in [1 .. n -> Seq(S)] /\ First(n, g)
      BY <2>4
    <3>. QED BY <2>2, <3>1
  <2>5. ASSUME n > 1 PROVE FALSE
    <3>1. PICK f \in [1 .. n - 1 -> Seq(S)] : First(n - 1, f)
      BY <2>3, <2>5 DEF Bad
    <3>. DEFINE g == [i \in 1 .. n |-> IF i = n THEN Behind(s[n], f[n - 1]) ELSE f[i]]
    <3>2. Behind(s[n], f[n - 1]) \in Seq(S)
      <4>1. f[n - 1] \in Seq(S) /\ s[n] \in Seq(S)
        BY <2>2, <2>5, <3>1
      <4>. QED BY <4>1, BehindIs
    <3>3. g \in [1 .. n -> Seq(S)]
      BY <2>2, <3>1, <3>2
    <3>4. ASSUME NEW i \in 1 .. n PROVE g[i] = IF i = 1 THEN s[i] ELSE Behind(s[i], g[i - 1])
      <4>1. CASE i = n
        <5>1. i # 1 /\ g[i] = Behind(s[n], f[n - 1]) /\ g[i - 1] = f[n - 1]
          BY <2>2, <2>5, <4>1
        <5>. QED BY <4>1, <5>1
      <4>2. CASE i < n
        <5>1. f[i] = IF i = 1 THEN s[i] ELSE Behind(s[i], f[i - 1])
          BY <2>2, <3>1, <4>2
        <5>2. g[i] = f[i] /\ (i # 1 => g[i - 1] = f[i - 1])
          BY <2>2, <4>2
        <5>. QED BY <5>1, <5>2
      <4>. QED BY <2>2, <4>1, <4>2
    <3>. HIDE DEF g
    <3>5. First(n, g)
      BY <3>4
    <3>. QED BY <2>2, <3>3, <3>5
  <2>. QED BY <2>2, <2>4, <2>5
<1>2. Len(s) \in 1 .. Len(s)
  OBVIOUS
<1>3. PICK f \in [1 .. Len(s) -> Seq(S)] : First(Len(s), f)
  <2>1. Len(s) \notin Bad
    BY <1>1
  <2>. QED BY <1>2, <2>1
<1>4. f = [i \in 1 .. Len(s) |-> IF i = 1 THEN s[i] ELSE Behind(s[i], f[i - 1])]
  BY <1>3
<1>. QED BY <1>4 DEF Chains

\* FlattenSeq is the last of a chain of sequences, each behind those before it.
LEMMA Flattened ==
  ASSUME NEW S, NEW s \in Seq(Seq(S)), Len(s) > 0
  PROVE  \E f \in [1 .. Len(s) -> Seq(S)] : Chains(f, s) /\ Get!FlattenSeq(s) = f[Len(s)] /\ Request!FlattenSeq(s) = f[Len(s)]
<1>. DEFINE f == CHOOSE g : Chains(g, s)
<1>2. PICK h \in [1 .. Len(s) -> Seq(S)] : Chains(h, s)
  BY Chained
<1>1. Chains(f, s)
  BY <1>2
<1>3. f = h
  <2>. DEFINE Bad == {n \in 1 .. Len(s) : f[n] # h[n]}
  <2>. HIDE DEF f
  <2>1. ASSUME Bad # {} PROVE FALSE
    <3>. Bad \in SUBSET Nat
      OBVIOUS
    <3>. HIDE DEF Bad
    <3>1. PICK n \in Bad : \A m \in Bad : n <= m
      BY <2>1, HasLeast
    <3>2. n \in 1 .. Len(s) /\ f[n] # h[n] /\ (n > 1 => n - 1 \notin Bad)
      BY <3>1 DEF Bad
    <3>3. n > 1 => f[n - 1] = h[n - 1]
      BY <3>2 DEF Bad
    <3>4. /\ f[n] = IF n = 1 THEN s[n] ELSE Behind(s[n], f[n - 1])
          /\ h[n] = IF n = 1 THEN s[n] ELSE Behind(s[n], h[n - 1])
      BY <1>1, <1>2, <3>2 DEF Chains
    <3>. QED BY <3>2, <3>3, <3>4
  <2>2. DOMAIN f = 1 .. Len(s) /\ DOMAIN h = 1 .. Len(s) /\ f = [i \in DOMAIN f |-> f[i]] /\ h = [i \in DOMAIN h |-> h[i]]
    BY <1>1, <1>2 DEF Chains
  <2>. QED BY <2>1, <2>2
<1>4. Get!FlattenSeq(s) = f[Len(s)] /\ Request!FlattenSeq(s) = f[Len(s)]
  BY DEF Get!FlattenSeq, Request!FlattenSeq, Chains, Behind
<1>. HIDE DEF f
<1>. QED BY <1>1, <1>2, <1>3, <1>4

-----------------------------------------------------------------------------
(* Rings: pointers that run round a ring, and slots of a ring they are a multiple of. *)

\* Division with a rest; the next four reduce a number modulo S.
LEMMA DivMod ==
  ASSUME NEW S \in Nat \ {0}, NEW x \in Int
  PROVE  \E q \in Int, r \in 0 .. S - 1 : x = q * S + r /\ x % S = r
<1>1. x = (x \div S) * S + (x % S) /\ x \div S \in Int /\ x % S \in 0 .. S - 1
  OBVIOUS
<1>. QED BY <1>1

LEMMA ModOf ==
  ASSUME NEW S \in Nat \ {0}, NEW q \in Int, NEW r \in 0 .. S - 1
  PROVE  (q * S + r) % S = r
OBVIOUS

LEMMA ModPlus ==
  ASSUME NEW S \in Nat \ {0}, NEW x \in Int, NEW m \in Int
  PROVE  (x + m * S) % S = x % S
<1>1. PICK q \in Int, r \in 0 .. S - 1 : x = q * S + r /\ x % S = r
  BY DivMod
<1>2. x + m * S = (q + m) * S + r /\ q + m \in Int
  BY <1>1
<1>3. ((q + m) * S + r) % S = r
  BY <1>2, ModOf
<1>. QED BY <1>1, <1>2, <1>3

LEMMA ModOnce ==
  ASSUME NEW S \in Nat \ {0}, NEW x \in Int, x >= 0, x < 2 * S
  PROVE  x % S = IF x < S THEN x ELSE x - S
OBVIOUS

LEMMA ModBelow ==
  ASSUME NEW S \in Nat \ {0}, NEW x \in Int, x >= -S, x < S
  PROVE  x % S = IF x < 0 THEN x + S ELSE x
<1>. DEFINE q == IF x < 0 THEN -1 ELSE 0
            r == IF x < 0 THEN x + S ELSE x
<1>1. q \in Int /\ r \in 0 .. S - 1 /\ x = q * S + r
  OBVIOUS
<1>. HIDE DEF q, r
<1>2. (q * S + r) % S = r
  BY <1>1, ModOf
<1>. QED BY <1>1, <1>2 DEF r

\* Round a ring of n: the place d after p, and how far q is ahead of p.
After(n, p, d) == (p + d) % n
Ahead(n, p, q) == (q - p + n) % n

\* Slot i of the ring's m slots, counted from the one that pointer x of n is at.
SlotFrom(m, n, x, i) == (i - x + n) % m

\* What After and Ahead are, without the modulus.
LEMMA AheadIs ==
  ASSUME NEW P \in Nat \ {0}, NEW r \in 0 .. P - 1, NEW w \in 0 .. P - 1
  PROVE  /\ Ahead(P, r, w) = IF w >= r THEN w - r ELSE w - r + P
         /\ Ahead(P, r, w) \in 0 .. P - 1
         /\ w \in {r + Ahead(P, r, w), r + Ahead(P, r, w) - P}
<1>1. Ahead(P, r, w) = IF w >= r THEN w - r ELSE w - r + P
  <2>. DEFINE y == w - r + P
  <2>1. y \in Int /\ y >= 0 /\ y < 2 * P
    OBVIOUS
  <2>. HIDE DEF y
  <2>2. y % P = IF y < P THEN y ELSE y - P
    BY <2>1, ModOnce
  <2>. QED BY <2>2 DEF y, Ahead
<1>. QED BY <1>1

LEMMA AfterIs ==
  ASSUME NEW P \in Nat \ {0}, NEW p \in 0 .. P - 1, NEW n \in 0 .. P - 1
  PROVE  /\ After(P, p, n) = IF p + n < P THEN p + n ELSE p + n - P
         /\ After(P, p, n) \in 0 .. P - 1
<1>1. After(P, p, n) = IF p + n < P THEN p + n ELSE p + n - P
  <2>. DEFINE y == p + n
  <2>1. y \in Int /\ y >= 0 /\ y < 2 * P
    OBVIOUS
  <2>. HIDE DEF y
  <2>2. y % P = IF y < P THEN y ELSE y - P
    BY <2>1, ModOnce
  <2>. QED BY <2>2 DEF y, After
<1>. QED BY <1>1

\* Moving the writer on by n adds n to the bytes between, moving the reader on takes n.
LEMMA AheadGrows ==
  ASSUME NEW P \in Nat \ {0}, NEW r \in 0 .. P - 1, NEW w \in 0 .. P - 1, NEW n \in 0 .. P - 1,
         Ahead(P, r, w) + n < P
  PROVE  Ahead(P, r, After(P, w, n)) = Ahead(P, r, w) + n
<1>. DEFINE v == After(P, w, n)
<1>1. v \in 0 .. P - 1 /\ v = IF w + n < P THEN w + n ELSE w + n - P
  BY AfterIs
<1>2. Ahead(P, r, w) = IF w >= r THEN w - r ELSE w - r + P
  BY AheadIs
<1>. HIDE DEF v
<1>3. Ahead(P, r, v) = IF v >= r THEN v - r ELSE v - r + P
  BY <1>1, AheadIs
<1>. QED BY <1>1, <1>2, <1>3 DEF v

LEMMA AheadShrinks ==
  ASSUME NEW P \in Nat \ {0}, NEW r \in 0 .. P - 1, NEW w \in 0 .. P - 1, NEW n \in 0 .. P - 1,
         n <= Ahead(P, r, w)
  PROVE  Ahead(P, After(P, r, n), w) = Ahead(P, r, w) - n
<1>. DEFINE v == After(P, r, n)
<1>1. v \in 0 .. P - 1 /\ v = IF r + n < P THEN r + n ELSE r + n - P
  BY AfterIs
<1>2. Ahead(P, r, w) = IF w >= r THEN w - r ELSE w - r + P
  BY AheadIs
<1>. HIDE DEF v
<1>3. Ahead(P, v, w) = IF w >= v THEN w - v ELSE w - v + P
  BY <1>1, AheadIs
<1>. QED BY <1>1, <1>2, <1>3 DEF v

\* Where the slot of the k-th byte after pointer r lies, counted from the slot of pointer x.
LEMMA RingSlot ==
  ASSUME NEW S \in Nat \ {0}, NEW P \in Nat \ {0}, P % S = 0,
         NEW r \in 0 .. P - 1, NEW x \in 0 .. P - 1, Ahead(P, r, x) <= S, NEW k \in 0 .. S - 1
  PROVE  SlotFrom(S, P, x, After(S, r, k)) =
           IF k < Ahead(P, r, x) THEN k - Ahead(P, r, x) + S ELSE k - Ahead(P, r, x)
<1>. DEFINE w == Ahead(P, r, x)
<1>0. w \in 0 .. S /\ x \in {r + w, r + w - P}
  <2>1. w \in 0 .. P - 1 /\ x \in {r + w, r + w - P} /\ w <= S
    BY AheadIs
  <2>. HIDE DEF w
  <2>. QED BY <2>1
<1>. HIDE DEF w
<1>1. PICK m \in Int : P = m * S
  <2>1. PICK m \in Int, z \in 0 .. S - 1 : P = m * S + z /\ P % S = z
    BY DivMod
  <2>. QED BY <2>1
<1>2. PICK a \in Int, i \in 0 .. S - 1 : r + k = a * S + i /\ (r + k) % S = i
  <2>1. r + k \in Int
    OBVIOUS
  <2>. QED BY <2>1, DivMod
<1>3. PICK e \in {0, 1} : x = r + w - e * P
  <2>1. x = r + w - 0 * P \/ x = r + w - 1 * P
    BY <1>0
  <2>. QED BY <2>1
<1>. DEFINE c == m + e * m - a
<1>4. c \in Int /\ i - x + P = (k - w) + c * S
  BY <1>0, <1>1, <1>2, <1>3
<1>5. (i - x + P) % S = (k - w) % S
  <2>. HIDE DEF c
  <2>1. ((k - w) + c * S) % S = (k - w) % S
    <3>1. k - w \in Int
      BY <1>0
    <3>. QED BY <1>4, <3>1, ModPlus
  <2>. QED BY <1>4, <2>1
<1>6. (k - w) % S = IF k < w THEN k - w + S ELSE k - w
  <2>. DEFINE y == k - w
  <2>1. y \in Int /\ y >= -S /\ y < S
    BY <1>0
  <2>. HIDE DEF y
  <2>2. y % S = IF y < 0 THEN y + S ELSE y
    BY <2>1, ModBelow
  <2>. QED BY <1>0, <2>2 DEF y
<1>. QED BY <1>2, <1>5, <1>6 DEF After, SlotFrom, w


\* The k-th place after the n-th is the (n + k)-th, in a ring the pointers are a multiple of.
LEMMA AfterAfter ==
  ASSUME NEW S \in Nat \ {0}, NEW P \in Nat \ {0}, P % S = 0,
         NEW r \in 0 .. P - 1, NEW n \in 0 .. P - 1, NEW k \in Nat
  PROVE  After(S, After(P, r, n), k) = After(S, r, n + k)
<1>. DEFINE v == After(P, r, n)
<1>1. PICK m \in Int : P = m * S
  <2>1. PICK m \in Int, z \in 0 .. S - 1 : P = m * S + z /\ P % S = z
    BY DivMod
  <2>. QED BY <2>1
<1>2. PICK e \in {0, 1} : v = r + n - e * P
  <2>1. v = r + n - 0 * P \/ v = r + n - 1 * P
    <3>1. v = r + n \/ v = r + n - P
      BY AfterIs
    <3>. HIDE DEF v
    <3>. QED BY <3>1
  <2>. HIDE DEF v
  <2>. QED BY <2>1
<1>. DEFINE x == r + (n + k)
            c == -(e * m)
<1>. HIDE DEF v
<1>3. x \in Int /\ c \in Int /\ v + k = x + c * S
  BY <1>1, <1>2
<1>. HIDE DEF x, c
<1>4. (x + c * S) % S = x % S
  BY <1>3, ModPlus
<1>5. (v + k) % S = x % S
  BY <1>3, <1>4
<1>. QED BY <1>5 DEF x, v, After

-----------------------------------------------------------------------------
(* SocketSend: the socket's sending half *)

sendJob      == x1
sendAt       == x2
sendOff      == x3
sendAsked    == x4
sendRing     == x5
sendWr       == x6
sendRd       == x7
sendSr       == x8
sendReceived == x9
sendCut      == x10

USE DEF sendJob, sendAt, sendOff, sendAsked, sendRing, sendWr, sendRd, sendSr,
        sendReceived, sendCut

-----------------------------------------------------------------------------
SendType ==
  /\ Send!TypeOK
  /\ sendJob \in [kind : {"list", "page"}, size : Nat]
  /\ sendRing \in [0 .. TxBuffer - 1 -> Nat] /\ sendReceived \in Seq(Nat)

\* What the handler has put into the ring of its answer so far.
Put == IF sendJob.kind = "page" THEN sendOff + (IF sendAt = "sending" THEN sendAsked ELSE 0)
       ELSE IF sendOff = 0 /\ sendAt # "sending" THEN 0 ELSE Send!Sendable(sendJob.size)

\* Where the answer stands: what was asked of the socket, and how far the handler is.
AnswerInv ==
  /\ sendOff <= sendJob.size
  /\ sendJob.kind = "list" => sendOff \in {0, sendJob.size}
  /\ sendAt \in {"room", "sending"} =>
       /\ sendOff < sendJob.size
       /\ sendAsked = IF sendJob.kind = "list" THEN sendJob.size ELSE Send!Least(PageChunk, sendJob.size - sendOff)
       /\ sendJob.kind = "list" => sendOff = 0
  /\ ~sendCut => /\ sendAt = "over" => sendOff = sendJob.size
                 /\ sendSr \in {"closing", "closed"} => sendAt = "over"
  /\ sendCut => sendSr = "closed"

\* The ring holds the bytes that follow those the browser has, up to the last one put there.
RingInv == ~sendCut =>
  /\ Send!Waiting <= TxBuffer /\ Len(sendReceived) + Send!Waiting = Put
  /\ \A k \in 0 .. Send!Waiting - 1 : sendRing[(sendRd + k) % TxBuffer] = Len(sendReceived) + 1 + k

SendInv == SendType /\ AnswerInv /\ RingInv /\ Send!InOrder

LEMMA SendInit == ASSUME Send!Buffers, Send!Init PROVE SendInv
<1>1. sendJob \in [kind : {"list", "page"}, size : Nat]
  BY DEF Send!Init, Send!Buffers
<1>2. sendRing \in [0 .. TxBuffer - 1 -> Nat] /\ <<>> \in Seq(Nat) /\ sendWr \in 0 .. TxPointers - 1
  BY DEF Send!Init, Send!Buffers
<1>3. SendType
  BY <1>1, <1>2 DEF Send!Init, SendType, Send!TypeOK
<1>4. AnswerInv
  BY <1>1 DEF Send!Init, AnswerInv
<1>5. Send!Waiting = 0
  <2>1. TxPointers \in Nat \ {0} /\ sendWr - sendRd + TxPointers = TxPointers
    BY <1>2 DEF Send!Init, Send!Buffers
  <2>. QED BY <2>1, ModOnce DEF Send!Waiting
<1>6. RingInv
  BY <1>1, <1>5 DEF Send!Init, RingInv, Put, Send!Sendable, Send!Least, Send!Buffers
<1>7. Send!InOrder
  BY DEF Send!Init, Send!InOrder
<1>. QED BY <1>3, <1>4, <1>6, <1>7 DEF SendInv

\* The steps that leave the chip alone.
LEMMA AnswerKeeps ==
  ASSUME Send!Buffers, SendInv, Send!Write \/ Send!NoRoom \/ Send!Sent \/ Send!Answered PROVE SendInv'
<1>1. UNCHANGED <<sendJob, Send!chip, sendSr, sendReceived, sendCut>>
  BY DEF Send!Write, Send!NoRoom, Send!Sent, Send!Answered
<1>2. sendJob.size \in Nat /\ sendOff \in Nat /\ sendAsked \in Nat /\ sendJob.kind \in {"list", "page"} /\ PageChunk \in Nat \ {0} /\ TxBuffer \in Nat
  BY DEF SendInv, SendType, Send!TypeOK, Send!Buffers
<1>3. SendType'
  <2>1. sendAsked' \in Nat
    BY <1>2 DEF Send!Write, Send!NoRoom, Send!Sent, Send!Answered, Send!Least, SendInv, AnswerInv
  <2>. QED BY <1>1, <1>2, <2>1 DEF Send!Write, Send!NoRoom, Send!Sent, Send!Answered, Send!chip, SendInv, SendType, Send!TypeOK
<1>4. AnswerInv' /\ (~sendCut => Put' = Put)
  <2>1. CASE Send!Write
    BY <1>1, <1>2, <2>1 DEF Send!Write, AnswerInv, SendInv, Put, Send!Sendable, Send!Least, SendType, Send!TypeOK
  <2>2. CASE Send!NoRoom
    BY <1>1, <1>2, <2>2 DEF Send!NoRoom, AnswerInv, SendInv, Put, Send!Sendable, Send!Least, SendType, Send!TypeOK
  <2>3. CASE Send!Sent
    BY <1>1, <1>2, <2>3 DEF Send!Sent, AnswerInv, SendInv, Put, Send!Sendable, Send!Least, SendType, Send!TypeOK
  <2>4. CASE Send!Answered
    BY <1>1, <1>2, <2>4 DEF Send!Answered, AnswerInv, SendInv, Put, Send!Sendable, Send!Least, SendType, Send!TypeOK
  <2>. QED BY <2>1, <2>2, <2>3, <2>4
<1>5. RingInv' /\ Send!InOrder'
  BY <1>1, <1>4 DEF Send!chip, Send!Waiting, RingInv, Send!InOrder, SendInv
<1>. QED BY <1>3, <1>4, <1>5 DEF SendInv

\* The steps of a connection that leave the handler and the chip alone.
LEMMA ConnectionKeeps ==
  ASSUME Send!Buffers, SendInv, Send!Disconnect \/ Send!HalfCloses \/ Send!GoesAway \/ Send!Closed \/ UNCHANGED Send!vars PROVE SendInv'
<1>1. UNCHANGED <<sendJob, Send!server, Send!chip, sendReceived>>
  BY DEF Send!Disconnect, Send!HalfCloses, Send!GoesAway, Send!Closed, Send!vars
<1>2. SendType'
  BY <1>1 DEF Send!Disconnect, Send!HalfCloses, Send!GoesAway, Send!Closed, Send!vars, Send!server, Send!chip, SendInv, SendType, Send!TypeOK
<1>3. AnswerInv' /\ (sendCut => sendCut')
  BY <1>1 DEF Send!Disconnect, Send!HalfCloses, Send!GoesAway, Send!Closed, Send!vars, Send!server, Send!chip, AnswerInv, SendInv, Send!Least
<1>4. RingInv' /\ Send!InOrder'
  BY <1>1, <1>3 DEF Send!server, Send!chip, Send!Waiting, RingInv, Send!InOrder, Put, Send!Sendable, Send!Least, SendInv
<1>. QED BY <1>2, <1>3, <1>4 DEF SendInv

\* The driver puts bytes behind those that wait, round the end of the ring.
LEMMA RoomKeeps == ASSUME Send!Buffers, SendInv, Send!Room PROVE SendInv'
<1>. DEFINE n == Send!Sendable(sendAsked)
            d == Send!Waiting
<1>1. /\ TxBuffer \in Nat \ {0} /\ TxPointers \in Nat \ {0} /\ TxPointers % TxBuffer = 0 /\ TxBuffer < TxPointers
      /\ sendRd \in 0 .. TxPointers - 1 /\ sendWr \in 0 .. TxPointers - 1 /\ sendOff \in Nat /\ sendAsked \in Nat
  BY DEF Send!Buffers, SendInv, SendType, Send!TypeOK
<1>2. d = Ahead(TxPointers, sendRd, sendWr)
      /\ d \in 0 .. TxPointers - 1 /\ sendWr \in {sendRd + d, sendRd + d - TxPointers}
  <2>1. d = Ahead(TxPointers, sendRd, sendWr)
    BY DEF Send!Waiting, Ahead
  <2>. HIDE DEF d
  <2>. QED BY <1>1, <2>1, AheadIs
<1>3. n \in 0 .. TxBuffer
  BY <1>1 DEF Send!Sendable, Send!Least
<1>4. ~sendCut /\ d + n <= TxBuffer
  <2>1. ~sendCut /\ d <= TxBuffer /\ TxBuffer - d >= n
    BY DEF Send!Room, Send!RoomForAll, Send!Free, SendInv, AnswerInv, RingInv
  <2>. HIDE DEF n, d
  <2>. QED BY <1>1, <1>2, <1>3, <2>1
<1>5. sendWr' = (sendWr + n) % TxPointers /\ UNCHANGED sendRd
  BY DEF Send!Room
<1>6. sendWr' \in 0 .. TxPointers - 1 /\ Send!Waiting' = d + n
  <2>1. n \in 0 .. TxPointers - 1 /\ d + n < TxPointers
    <3>. HIDE DEF n, d
    <3>. QED BY <1>1, <1>2, <1>3, <1>4
  <2>2. sendWr' = After(TxPointers, sendWr, n) /\ Send!Waiting' = Ahead(TxPointers, sendRd, sendWr')
    BY <1>5 DEF Send!Waiting, After, Ahead
  <2>. HIDE DEF n, d
  <2>. QED BY <1>1, <1>2, <2>1, <2>2, AfterIs, AheadGrows
<1>7. Len(sendReceived) + d = sendOff
  <2>1. Len(sendReceived) + d = Put /\ sendAt = "room" /\ sendJob.kind \in {"list", "page"}
    BY <1>4 DEF SendInv, SendType, RingInv, Send!Room
  <2>2. Put = sendOff
    BY <1>1, <2>1 DEF Put, SendInv, AnswerInv
  <2>. QED BY <2>1, <2>2
<1>8. sendOff + n = Put' /\ UNCHANGED <<sendReceived, sendOff, sendRd, sendCut>>
  <2>1. sendJob \in [kind : {"list", "page"}, size : Nat] /\ sendJob' = sendJob /\ sendOff' = sendOff /\ sendAsked' = sendAsked /\ sendAt' = "sending"
    BY DEF Send!Room, SendInv, SendType
  <2>2. CASE sendJob.kind = "page"
    <3>1. Send!Least(PageChunk, sendJob.size - sendOff) <= TxBuffer /\ sendAsked = Send!Least(PageChunk, sendJob.size - sendOff)
      BY <1>1, <2>1, <2>2 DEF SendInv, AnswerInv, Send!Room, Send!Least, Send!Buffers
    <3>2. n = sendAsked
      BY <1>1, <3>1 DEF Send!Sendable, Send!Least
    <3>. HIDE DEF n
    <3>. QED BY <2>1, <2>2, <3>2 DEF Put, Send!Room
  <2>3. CASE sendJob.kind = "list"
    <3>1. sendOff = 0 /\ sendAsked = sendJob.size
      BY <2>3 DEF SendInv, AnswerInv, Send!Room
    <3>. QED BY <1>1, <2>1, <2>3, <3>1 DEF Put, Send!Room, Send!Sendable, Send!Least
  <2>. QED BY <2>1, <2>2, <2>3
<1>. HIDE DEF n, d
<1>9. Len(sendReceived) \in Nat
  BY DEF SendInv, SendType
<1>10. ASSUME NEW k \in 0 .. (d + n) - 1
      PROVE  sendRing'[(sendRd + k) % TxBuffer] = Len(sendReceived) + 1 + k
  <2>. DEFINE i == (sendRd + k) % TxBuffer
              j == (i - sendWr + TxPointers) % TxBuffer
  <2>1. k \in 0 .. TxBuffer - 1
    BY <1>1, <1>2, <1>3, <1>4
  <2>2. j = IF k < d THEN k - d + TxBuffer ELSE k - d
    <3>1. d \in 0 .. TxBuffer
      BY <1>1, <1>2, <1>3, <1>4
    <3>2. j = SlotFrom(TxBuffer, TxPointers, sendWr, After(TxBuffer, sendRd, k))
      BY DEF After, SlotFrom
    <3>3. SlotFrom(TxBuffer, TxPointers, sendWr, After(TxBuffer, sendRd, k)) = IF k < d THEN k - d + TxBuffer ELSE k - d
      BY <1>1, <1>2, <2>1, <3>1, RingSlot
    <3>. QED BY <3>2, <3>3
  <2>3. i \in 0 .. TxBuffer - 1
    <3>1. sendRd + k \in Int
      BY <1>1
    <3>. QED BY <1>1, <3>1, DivMod
  <2>4. sendRing'[i] = IF j < n THEN sendOff + 1 + j ELSE sendRing[i]
    <3>. HIDE DEF i
    <3>. QED BY <2>3 DEF Send!Room, Send!Filled, n
  <2>. HIDE DEF j
  <2>5. CASE k < d
    <3>1. ~(j < n)
      BY <1>1, <1>2, <1>3, <1>4, <2>1, <2>2, <2>5
    <3>2. sendRing[i] = Len(sendReceived) + 1 + k
      BY <1>2, <1>4, <2>1, <2>5 DEF SendInv, RingInv, d
    <3>. QED BY <2>4, <3>1, <3>2
  <2>6. CASE ~(k < d)
    <3>0. d \in Nat /\ j = k - d /\ k < d + n /\ k \in Nat
      BY <1>1, <1>2, <1>3, <2>2, <2>6
    <3>1. j < n /\ sendOff + 1 + j = Len(sendReceived) + 1 + k
      <4>1. j < n
        BY <3>0, <1>3
      <4>2. sendOff + 1 + j = Len(sendReceived) + 1 + k
        BY <3>0, <1>1, <1>7, <1>9
      <4>. QED BY <4>1, <4>2
    <3>. QED BY <2>4, <3>1
  <2>. QED BY <2>5, <2>6
<1>11. RingInv'
  <2>1. Send!Waiting' = d + n /\ Len(sendReceived') = Len(sendReceived) /\ Put' = sendOff + n
    BY <1>6, <1>8
  <2>3. Send!Waiting' <= TxBuffer /\ Len(sendReceived') + Send!Waiting' = Put'
    BY <1>2, <1>3, <1>4, <1>7, <1>9, <2>1
  <2>2. \A k \in 0 .. Send!Waiting' - 1 : sendRing'[(sendRd' + k) % TxBuffer] = Len(sendReceived') + 1 + k
    BY <1>6, <1>8, <1>10
  <2>. QED BY <2>2, <2>3 DEF RingInv
<1>12. SendType'
  <2>1. sendRing' \in [0 .. TxBuffer - 1 -> Nat]
    <3>1. \A i \in 0 .. TxBuffer - 1 : (i - sendWr + TxPointers) % TxBuffer \in Nat
      <4>1. ASSUME NEW i \in 0 .. TxBuffer - 1 PROVE (i - sendWr + TxPointers) % TxBuffer \in Nat
        <5>. DEFINE y == i - sendWr + TxPointers
        <5>1. y \in Int
          BY <1>1
        <5>. HIDE DEF y
        <5>2. y % TxBuffer \in 0 .. TxBuffer - 1
          BY <1>1, <5>1, DivMod
        <5>. QED BY <1>1, <5>2 DEF y
      <4>. QED BY <4>1
    <3>. QED BY <1>1, <3>1 DEF Send!Room, Send!Filled, SendInv, SendType
  <2>. QED BY <1>6, <2>1 DEF Send!Room, SendInv, SendType, Send!TypeOK
<1>13. AnswerInv' /\ Send!InOrder'
  BY <1>4 DEF Send!Room, SendInv, AnswerInv, Send!InOrder, Send!Least
<1>. QED BY <1>11, <1>12, <1>13 DEF SendInv

\* The browser gets the byte that is first in the ring.
LEMMA TakesKeeps == ASSUME Send!Buffers, SendInv, Send!Takes PROVE SendInv'
<1>. DEFINE d == Send!Waiting
            n == Len(sendReceived)
            b == sendRing[sendRd % TxBuffer]
<1>1. /\ TxBuffer \in Nat \ {0} /\ TxPointers \in Nat \ {0} /\ TxPointers % TxBuffer = 0 /\ TxBuffer < TxPointers
      /\ sendRd \in 0 .. TxPointers - 1 /\ sendWr \in 0 .. TxPointers - 1 /\ n \in Nat
  BY DEF Send!Buffers, SendInv, SendType, Send!TypeOK
<1>2. ~sendCut /\ d > 0 /\ sendReceived' = Append(sendReceived, b) /\ sendRd' = (sendRd + 1) % TxPointers
      /\ UNCHANGED <<sendJob, Send!server, sendRing, sendWr, sendSr, sendCut>>
  BY DEF Send!Takes, SendInv, AnswerInv
<1>3. d \in 0 .. TxPointers - 1 /\ sendRd' \in 0 .. TxPointers - 1 /\ Send!Waiting' = d - 1
  <2>1. d = Ahead(TxPointers, sendRd, sendWr)
    BY DEF Send!Waiting, Ahead
  <2>2. sendRd' = After(TxPointers, sendRd, 1) /\ Send!Waiting' = Ahead(TxPointers, sendRd', sendWr)
    BY <1>2 DEF Send!Waiting, After, Ahead
  <2>. HIDE DEF d, b
  <2>3. 1 \in 0 .. TxPointers - 1
    BY <1>1
  <2>4. sendRd' \in 0 .. TxPointers - 1
    BY <1>1, <2>2, <2>3, AfterIs
  <2>7. d \in 0 .. TxPointers - 1
    BY <1>1, <2>1, AheadIs
  <2>8. d > 0
    BY <1>2
  <2>6. 1 <= d /\ d \in 0 .. TxPointers - 1
    BY <1>1, <2>7, <2>8
  <2>5. Ahead(TxPointers, After(TxPointers, sendRd, 1), sendWr) = d - 1
    BY <1>1, <2>1, <2>3, <2>6, AheadShrinks
  <2>. QED BY <2>2, <2>4, <2>5, <2>6
<1>4. b = n + 1
  <2>1. 0 \in 0 .. d - 1
    BY <1>2, <1>3
  <2>2. sendRing[(sendRd + 0) % TxBuffer] = n + 1 + 0
    BY <1>2, <2>1 DEF SendInv, RingInv
  <2>. QED BY <1>1, <2>2
<1>. HIDE DEF b
<1>5. /\ sendReceived' \in Seq(Nat) /\ Len(sendReceived') = n + 1 /\ sendReceived'[n + 1] = n + 1
      /\ \A i \in 1 .. n : sendReceived'[i] = sendReceived[i]
  BY <1>1, <1>2, <1>4 DEF SendInv, SendType
<1>. HIDE DEF n, d
<1>6. ASSUME NEW k \in 0 .. (d - 1) - 1
      PROVE  sendRing[(sendRd' + k) % TxBuffer] = n + 1 + 1 + k
  <2>1. sendRing[(sendRd + (k + 1)) % TxBuffer] = n + 1 + (k + 1)
    <3>1. k + 1 \in 0 .. d - 1
      BY <1>3
    <3>. QED BY <1>2, <3>1 DEF SendInv, RingInv, d, n
  <2>2. (sendRd' + k) % TxBuffer = (sendRd + (k + 1)) % TxBuffer
    <3>1. PICK e \in {0, 1} : sendRd' = sendRd + 1 - e * TxPointers
      <4>1. sendRd' = After(TxPointers, sendRd, 1) /\ 1 \in 0 .. TxPointers - 1
        BY <1>1, <1>2 DEF After
      <4>2. sendRd' \in {sendRd + 1, sendRd + 1 - TxPointers}
        BY <1>1, <4>1, AfterIs
      <4>3. sendRd' = sendRd + 1 - 0 * TxPointers \/ sendRd' = sendRd + 1 - 1 * TxPointers
        BY <1>1, <4>2
      <4>. QED BY <4>3
    <3>2. PICK m \in Int : TxPointers = m * TxBuffer
      <4>1. PICK m \in Int, z \in 0 .. TxBuffer - 1 : TxPointers = m * TxBuffer + z /\ TxPointers % TxBuffer = z
        BY <1>1, DivMod
      <4>. QED BY <1>1, <4>1
    <3>. DEFINE x == sendRd + (k + 1)
                c == -(e * m)
    <3>3. x \in Int /\ c \in Int /\ sendRd' + k = x + c * TxBuffer
      BY <1>1, <3>1, <3>2
    <3>. HIDE DEF x, c
    <3>4. (x + c * TxBuffer) % TxBuffer = x % TxBuffer
      BY <1>1, <3>3, ModPlus
    <3>. QED BY <3>3, <3>4 DEF x
  <2>. QED BY <1>1, <2>1, <2>2
<1>7. Put' = Put /\ UNCHANGED <<sendAt, sendOff, sendAsked>>
  BY <1>2 DEF Send!server, Put, Send!Sendable, Send!Least
<1>8. RingInv'
  <2>1. Send!Waiting <= TxBuffer /\ n + d = Put
    BY <1>2 DEF SendInv, RingInv, d, n
  <2>2. sendRing' = sendRing /\ Send!Waiting' = d - 1 /\ Len(sendReceived') = n + 1
    BY <1>2, <1>3, <1>5
  <2>. QED BY <1>1, <1>3, <1>6, <1>7, <2>1, <2>2 DEF RingInv, d
<1>9. SendType' /\ Send!InOrder'
  <2>1. SendType'
    BY <1>1, <1>2, <1>3, <1>5, <1>7 DEF SendInv, SendType, Send!TypeOK
  <2>2. Send!InOrder'
    BY <1>5 DEF SendInv, Send!InOrder, n
  <2>. QED BY <2>1, <2>2
<1>10. AnswerInv'
  BY <1>2, <1>7 DEF SendInv, AnswerInv, Send!Least
<1>. QED BY <1>8, <1>9, <1>10 DEF SendInv

LEMMA SendStays == ASSUME Send!Buffers, SendInv, [Send!Next]_(Send!vars) PROVE SendInv'
BY AnswerKeeps, ConnectionKeeps, RoomKeeps, TakesKeeps DEF Send!Next

LEMMA SendGives == ASSUME Send!Buffers, SendInv PROVE Send!InOrder /\ Send!AnswerWhole
BY DEF Send!Buffers, SendInv, SendType, AnswerInv, RingInv, Put, Send!Sendable, Send!Least, Send!AllTaken, Send!AnswerWhole

-----------------------------------------------------------------------------
(* SocketReceive: the socket's receiving half, and the driver that reads from it *)

recvKind      == x1
recvSent      == x2
recvRing      == x3
recvWr        == x4
recvRxRd      == x5
recvRsr       == x6
recvRX_RD     == x7
recvRX_RSR    == x8
recvRX_inc    == x9
recvRemaining == x10
recvParsing   == x11
recvGot       == x12
recvHeads     == x13

USE DEF recvKind, recvSent, recvRing, recvWr, recvRxRd, recvRsr, recvRX_RD, recvRX_RSR,
        recvRX_inc, recvRemaining, recvParsing, recvGot, recvHeads

Unread == recvRsr - recvRX_inc
Left   == [k \in 0 .. Unread - 1 |-> recvRing[After(RxBuffer, recvRX_RD, k)]]

\* The driver knows of no more bytes than the chip has, and its pointer is ahead of the chip's.
PointersInv ==
  /\ recvWr \in 0 .. RxPointers - 1 /\ recvRxRd \in 0 .. RxPointers - 1 /\ recvRX_RD \in 0 .. RxPointers - 1
  /\ recvRsr \in 0 .. RxBuffer /\ recvRX_RSR \in Nat /\ recvRX_inc \in Nat
  /\ recvRX_inc + recvRX_RSR <= recvRsr
  /\ Ahead(RxPointers, recvRxRd, recvRX_RD) = recvRX_inc
  /\ Ahead(RxPointers, recvRX_RD, recvWr) = Unread

Joined(B, n, bytes) == [k \in 0 .. n + Len(bytes) - 1 |-> IF k < n THEN B[k] ELSE bytes[k - n + 1]]
Beyond(B, n, m)     == [k \in 0 .. n - m - 1 |-> B[m + k]]

StreamByte == Nat \X Int

\* What the sizes give.
LEMMA ReceiveSizes ==
  ASSUME Receive!Buffers
  PROVE  /\ RxBuffer \in Nat \ {0} /\ RxPointers \in Nat \ {0} /\ RxBuffer < RxPointers
         /\ Header \in Nat \ {0} /\ Header < RxBuffer /\ StreamBytes \in Nat
BY DEF Receive!Buffers

\* The ring divides the range of the pointers.
LEMMA RingDivides == ASSUME Receive!Buffers PROVE RxPointers % RxBuffer = 0
BY DEF Receive!Buffers

LEMMA DatagramsAre ==
  ASSUME Receive!Buffers PROVE Len(Datagrams) \in Nat /\ \A d \in 1 .. Len(Datagrams) : Datagrams[d] \in Nat
<1>1. Datagrams \in Seq(Nat)
  BY DEF Receive!Buffers
<1>. QED BY <1>1

LEMMA ReadsTake == ASSUME Receive!Buffers PROVE ReadSizes \subseteq Nat \ {0}
BY DEF Receive!Buffers

\* The chip writes bytes behind the last one that waits, round the end of the ring.
LEMMA PutBytes ==
  ASSUME Receive!Buffers, PointersInv, recvRing \in [0 .. RxBuffer - 1 -> StreamByte],
         NEW bytes \in Seq(StreamByte), Len(bytes) <= Receive!Room, Receive!Put(bytes), UNCHANGED Receive!driver
  PROVE  /\ PointersInv' /\ Unread' = Unread + Len(bytes) /\ Left' = Joined(Left, Unread, bytes)
         /\ recvRing' \in [0 .. RxBuffer - 1 -> StreamByte]
<1>. DEFINE u == Unread
            l == Len(bytes)
<1>1. u \in 0 .. RxBuffer /\ l \in Nat /\ u + l <= RxBuffer /\ recvRsr + l <= RxBuffer
  <2>1. /\ recvRsr \in 0 .. RxBuffer /\ recvRX_RSR \in Nat /\ recvRX_inc \in Nat /\ recvRX_inc + recvRX_RSR <= recvRsr
        /\ u = recvRsr - recvRX_inc /\ Receive!Room = RxBuffer - recvRsr
    BY DEF PointersInv, Unread, Receive!Room
  <2>2. l \in Nat /\ l <= Receive!Room
    OBVIOUS
  <2>. HIDE DEF u, l
  <2>. QED BY ReceiveSizes, <2>1, <2>2
<1>2. recvRsr' = recvRsr + l /\ UNCHANGED <<recvRxRd, recvRX_RD, recvRX_RSR, recvRX_inc>> /\ recvWr' = After(RxPointers, recvWr, l)
  BY DEF Receive!Put, Receive!driver, After
<1>4. u = Ahead(RxPointers, recvRX_RD, recvWr) /\ recvRX_RD \in 0 .. RxPointers - 1 /\ recvWr \in 0 .. RxPointers - 1
  BY DEF PointersInv
<1>. HIDE DEF u, l
<1>3. Unread' = u + l
  BY <1>1, <1>2 DEF Unread, PointersInv, u
<1>5. l \in 0 .. RxPointers - 1
  BY ReceiveSizes, <1>1
<1>6. PointersInv'
  <2>1. recvWr' \in 0 .. RxPointers - 1
    BY ReceiveSizes, <1>2, <1>4, <1>5, AfterIs
  <2>2. Ahead(RxPointers, recvRX_RD, recvWr') = u + l
    <3>1. Ahead(RxPointers, recvRX_RD, recvWr) + l < RxPointers
      BY ReceiveSizes, <1>1, <1>4
    <3>2. Ahead(RxPointers, recvRX_RD, After(RxPointers, recvWr, l)) = Ahead(RxPointers, recvRX_RD, recvWr) + l
      BY ReceiveSizes, <1>4, <1>5, <3>1, AheadGrows
    <3>. QED BY <1>2, <1>4, <3>2
  <2>. QED BY <1>1, <1>2, <1>3, <2>1, <2>2 DEF PointersInv
<1>7. ASSUME NEW i \in 0 .. RxBuffer - 1
      PROVE  /\ SlotFrom(RxBuffer, RxPointers, recvWr, i) \in Nat
             /\ recvRing'[i] = IF SlotFrom(RxBuffer, RxPointers, recvWr, i) < l THEN bytes[SlotFrom(RxBuffer, RxPointers, recvWr, i) + 1] ELSE recvRing[i]
  <2>. DEFINE y == i - recvWr + RxPointers
  <2>1. y \in Int
    BY ReceiveSizes, <1>4
  <2>2. y % RxBuffer \in Nat
    <3>. HIDE DEF y
    <3>. QED BY ReceiveSizes, <2>1, DivMod
  <2>3. SlotFrom(RxBuffer, RxPointers, recvWr, i) = y % RxBuffer
    BY DEF SlotFrom
  <2>4. recvRing'[i] = IF y % RxBuffer < l THEN bytes[(y % RxBuffer) + 1] ELSE recvRing[i]
    BY DEF Receive!Put, l
  <2>. HIDE DEF y
  <2>. QED BY <2>2, <2>3, <2>4
<1>8. recvRing' \in [0 .. RxBuffer - 1 -> StreamByte]
  <2>1. recvRing' = [i \in 0 .. RxBuffer - 1 |-> recvRing'[i]]
    BY DEF Receive!Put
  <2>2. ASSUME NEW i \in 0 .. RxBuffer - 1 PROVE recvRing'[i] \in StreamByte
    BY <1>7 DEF l
  <2>. QED BY <2>1, <2>2
<1>9. ASSUME NEW k \in 0 .. u + l - 1
      PROVE  recvRing'[After(RxBuffer, recvRX_RD, k)] = IF k < u THEN Left[k] ELSE bytes[k - u + 1]
  <2>. DEFINE i == After(RxBuffer, recvRX_RD, k)
              j == SlotFrom(RxBuffer, RxPointers, recvWr, i)
  <2>1. k \in 0 .. RxBuffer - 1
    BY ReceiveSizes, <1>1
  <2>2. i \in 0 .. RxBuffer - 1
    <3>1. recvRX_RD + k \in Int
      BY ReceiveSizes, <1>4, <2>1
    <3>. QED BY ReceiveSizes, <3>1, DivMod DEF After
  <2>3. j = IF k < u THEN k - u + RxBuffer ELSE k - u
    <3>1. Ahead(RxPointers, recvRX_RD, recvWr) <= RxBuffer
      BY ReceiveSizes, <1>1, <1>4
    <3>2. j = IF k < Ahead(RxPointers, recvRX_RD, recvWr) THEN k - Ahead(RxPointers, recvRX_RD, recvWr) + RxBuffer ELSE k - Ahead(RxPointers, recvRX_RD, recvWr)
      BY ReceiveSizes, RingDivides, <1>4, <2>1, <3>1, RingSlot
    <3>. QED BY <1>4, <3>2
  <2>4. recvRing'[i] = IF j < l THEN bytes[j + 1] ELSE recvRing[i]
    <3>. HIDE DEF i
    <3>. QED BY <1>7, <2>2
  <2>5. k < u => Left[k] = recvRing[i]
    BY ReceiveSizes, <1>1, <2>1 DEF Left, u
  <2>. HIDE DEF i, j
  <2>6. k < u => ~(j < l)
    BY ReceiveSizes, <1>1, <2>1, <2>3
  <2>7. ~(k < u) => j < l /\ j + 1 = k - u + 1
    BY ReceiveSizes, <1>1, <2>1, <2>3
  <2>. QED BY <2>4, <2>5, <2>6, <2>7 DEF i
<1>10. Left' = Joined(Left, Unread, bytes)
  <2>1. Left' = [k \in 0 .. u + l - 1 |-> recvRing'[After(RxBuffer, recvRX_RD, k)]]
    <3>1. recvRX_RD' = recvRX_RD
      BY <1>2
    <3>2. Unread' - 1 = u + l - 1
      BY <1>1, <1>3
    <3>. QED BY <3>1, <3>2 DEF Left
  <2>2. Joined(Left, Unread, bytes) = [k \in 0 .. u + l - 1 |-> IF k < u THEN Left[k] ELSE bytes[k - u + 1]]
    BY DEF Joined, u, l
  <2>. QED BY <1>9, <2>1, <2>2
<1>. QED BY <1>3, <1>6, <1>8, <1>10 DEF u, l

\* The driver takes the first n bytes that wait, and may tell the chip of it later.
LEMMA TakeBytes ==
  ASSUME Receive!Buffers, PointersInv, NEW n \in 1 .. Unread, NEW left \in 0 .. Unread - n, Receive!Take(n, left)
  PROVE  /\ PointersInv' /\ Unread' = Unread - n /\ Left' = Beyond(Left, Unread, n)
         /\ recvRing' = recvRing
<1>. DEFINE u == Unread
<1>1. u \in 0 .. RxBuffer /\ n \in Nat \ {0} /\ n <= u /\ left \in Nat /\ left <= u - n /\ u = recvRsr - recvRX_inc
      /\ recvRX_inc \in Nat /\ recvRsr \in 0 .. RxBuffer /\ recvRX_RSR \in Nat
  <2>1. /\ recvRsr \in 0 .. RxBuffer /\ recvRX_RSR \in Nat /\ recvRX_inc \in Nat /\ recvRX_inc + recvRX_RSR <= recvRsr
        /\ u = recvRsr - recvRX_inc
    BY DEF PointersInv, Unread
  <2>2. n \in 1 .. u /\ left \in 0 .. u - n
    OBVIOUS
  <2>. HIDE DEF u
  <2>. QED BY ReceiveSizes, <2>1, <2>2
<1>2. /\ recvRX_RD' = After(RxPointers, recvRX_RD, n) /\ recvRX_RSR' = left /\ UNCHANGED <<recvRing, recvWr>>
      /\ \/ recvRX_inc' = 0 /\ recvRxRd' = recvRX_RD' /\ recvRsr' = recvRsr - (recvRX_inc + n)
         \/ recvRX_inc' = recvRX_inc + n /\ UNCHANGED <<recvRxRd, recvRsr>>
  BY DEF Receive!Take, After
<1>. HIDE DEF u
<1>3. Unread' = u - n
  BY <1>1, <1>2 DEF Unread
<1>4. u = Ahead(RxPointers, recvRX_RD, recvWr) /\ recvRX_RD \in 0 .. RxPointers - 1 /\ recvWr \in 0 .. RxPointers - 1
      /\ recvRX_inc = Ahead(RxPointers, recvRxRd, recvRX_RD) /\ recvRxRd \in 0 .. RxPointers - 1
  BY DEF PointersInv, u
<1>5. n \in 0 .. RxPointers - 1 /\ recvRX_inc + n < RxPointers
  BY ReceiveSizes, <1>1
<1>6. recvRX_RD' \in 0 .. RxPointers - 1
  BY ReceiveSizes, <1>2, <1>4, <1>5, AfterIs
<1>7. Ahead(RxPointers, recvRX_RD', recvWr) = u - n
  <2>1. n <= Ahead(RxPointers, recvRX_RD, recvWr)
    BY <1>1, <1>4
  <2>2. Ahead(RxPointers, After(RxPointers, recvRX_RD, n), recvWr) = Ahead(RxPointers, recvRX_RD, recvWr) - n
    BY ReceiveSizes, <1>4, <1>5, <2>1, AheadShrinks
  <2>. QED BY <1>2, <1>4, <2>2
<1>8. PointersInv'
  <2>1. CASE recvRX_inc' = 0 /\ recvRxRd' = recvRX_RD' /\ recvRsr' = recvRsr - (recvRX_inc + n)
    <3>1. Ahead(RxPointers, recvRX_RD', recvRX_RD') = 0
      BY ReceiveSizes, <1>6, AheadIs
    <3>2. Ahead(RxPointers, recvRxRd', recvRX_RD') = recvRX_inc'
      BY <2>1, <3>1
    <3>3. recvRsr' \in 0 .. RxBuffer /\ recvRX_inc' + recvRX_RSR' <= recvRsr'
      BY ReceiveSizes, <1>1, <1>2, <2>1
    <3>. QED BY <1>1, <1>2, <1>3, <1>4, <1>6, <1>7, <2>1, <3>2, <3>3 DEF PointersInv
  <2>2. CASE recvRX_inc' = recvRX_inc + n /\ UNCHANGED <<recvRxRd, recvRsr>>
    <3>1. Ahead(RxPointers, recvRxRd, After(RxPointers, recvRX_RD, n)) = recvRX_inc + n
      <4>1. Ahead(RxPointers, recvRxRd, recvRX_RD) + n < RxPointers
        BY <1>4, <1>5
      <4>2. Ahead(RxPointers, recvRxRd, After(RxPointers, recvRX_RD, n)) = Ahead(RxPointers, recvRxRd, recvRX_RD) + n
        BY ReceiveSizes, <1>4, <1>5, <4>1, AheadGrows
      <4>. QED BY <1>4, <4>2
    <3>2. Ahead(RxPointers, recvRxRd', recvRX_RD') = recvRX_inc'
      BY <1>2, <2>2, <3>1
    <3>3. recvRsr' \in 0 .. RxBuffer /\ recvRX_inc' + recvRX_RSR' <= recvRsr'
      BY <1>1, <1>2, <2>2
    <3>. QED BY <1>1, <1>2, <1>3, <1>4, <1>6, <1>7, <2>2, <3>2, <3>3 DEF PointersInv
  <2>. QED BY <1>2, <2>1, <2>2
<1>9. ASSUME NEW k \in 0 .. u - n - 1
      PROVE  recvRing[After(RxBuffer, recvRX_RD', k)] = Left[n + k]
  <2>1. After(RxBuffer, recvRX_RD', k) = After(RxBuffer, recvRX_RD, n + k)
    <3>1. k \in Nat /\ n \in 0 .. RxPointers - 1 /\ recvRX_RD \in 0 .. RxPointers - 1
      BY <1>1, <1>4, <1>5
    <3>3. RxBuffer \in Nat \ {0} /\ RxPointers \in Nat \ {0} /\ RxPointers % RxBuffer = 0
      BY ReceiveSizes, RingDivides
    <3>2. After(RxBuffer, After(RxPointers, recvRX_RD, n), k) = After(RxBuffer, recvRX_RD, n + k)
      BY <3>1, <3>3, AfterAfter
    <3>. QED BY <1>2, <3>2
  <2>2. n + k \in 0 .. Unread - 1
    BY <1>1 DEF u
  <2>. QED BY <2>1, <2>2 DEF Left
<1>10. Left' = Beyond(Left, Unread, n)
  <2>1. Left' = [k \in 0 .. u - n - 1 |-> recvRing[After(RxBuffer, recvRX_RD', k)]]
    BY <1>2, <1>3 DEF Left
  <2>2. Beyond(Left, Unread, n) = [k \in 0 .. u - n - 1 |-> Left[n + k]]
    BY DEF Beyond, u
  <2>. QED BY <1>9, <2>1, <2>2
<1>. QED BY <1>2, <1>3, <1>8, <1>10 DEF u
-----------------------------------------------------------------------------
\* Earlier bytes stand first.
InTurn(B, n) ==
  \A i \in 0 .. n - 1 : \A k \in i + 1 .. n - 1 :
    B[i][1] < B[k][1] \/ (B[i][1] = B[k][1] /\ B[i][2] < B[k][2])

\* B holds n bytes of datagrams up to the s-th: the last `rest' of the one being read,
\* then whole ones in the order they were sent.
Packets(B, n, s, rest) ==
  /\ s <= Len(Datagrams) /\ rest <= n
  /\ \A k \in 0 .. n - 1 :
       /\ B[k] \in (1 .. s) \X Int
       /\ B[k][2] \in 1 - Header .. Datagrams[B[k][1]]
       /\ k + (Datagrams[B[k][1]] - B[k][2]) < n
       /\ \A j \in 0 .. Datagrams[B[k][1]] - B[k][2] : B[k + j] = <<B[k][1], B[k][2] + j>>
       /\ B[k][2] = Datagrams[B[k][1]] /\ k + 1 < n => B[k + 1][2] = 1 - Header
  /\ InTurn(B, n)
  /\ n > 0 => B[0][2] = IF rest = 0 THEN 1 - Header ELSE Datagrams[B[0][1]] - rest + 1
  /\ rest > 0 => B[0][2] >= 1

\* A datagram that is added stands last.
LEMMA PacketAdded ==
  ASSUME Receive!Buffers, NEW B, NEW n \in Nat, NEW s \in Nat, NEW rest \in Nat,
         Packets(B, n, s, rest), s < Len(Datagrams)
  PROVE  /\ Receive!Packet(s + 1) \in Seq(StreamByte) /\ Len(Receive!Packet(s + 1)) = Header + Datagrams[s + 1]
         /\ Packets(Joined(B, n, Receive!Packet(s + 1)), n + Header + Datagrams[s + 1], s + 1, rest)
<1>. DEFINE D == Datagrams[s + 1]
            h == Header
            m == n + h + D
            C == Joined(B, n, Receive!Packet(s + 1))
<1>1. D \in Nat /\ h \in Nat \ {0} /\ s + 1 \in 1 .. Len(Datagrams)
      /\ \A d \in 1 .. Len(Datagrams) : Datagrams[d] \in Nat
  BY ReceiveSizes, DatagramsAre
<1>2. Receive!Packet(s + 1) = [i \in 1 .. D - (1 - h) + 1 |-> <<s + 1, 1 - h + i - 1>>]
  BY DEF Receive!Packet, Receive!Bytes
<1>. HIDE DEF D, h
<1>. DEFINE q == h + D
            E == Receive!Packet(s + 1)
<1>3. q \in Nat /\ E = [i \in 1 .. q |-> <<s + 1, 1 - h + i - 1>>]
  <2>1. D - (1 - h) + 1 = q /\ q \in Nat
    BY <1>1
  <2>. HIDE DEF q
  <2>. QED BY <1>2, <2>1
<1>14. \A i \in 1 .. q : 1 - h + i - 1 = i - h /\ <<s + 1, 1 - h + i - 1>> \in StreamByte
  BY <1>1, <1>3 DEF StreamByte
<1>. HIDE DEF q, E
<1>15. E \in [1 .. q -> StreamByte] /\ \A i \in 1 .. q : E[i] = <<s + 1, i - h>>
  BY <1>3, <1>14
<1>16. E \in Seq(StreamByte)
  BY <1>3, <1>15
<1>17. Len(E) = q
  BY <1>3, <1>15
<1>4. C = [k \in 0 .. m - 1 |-> IF k < n THEN B[k] ELSE E[k - n + 1]]
  <2>1. n + Len(E) - 1 = m - 1
    <3>. HIDE DEF C
    <3>. QED BY <1>1, <1>3, <1>17 DEF q
  <2>. QED BY <2>1 DEF Joined, E
<1>. HIDE DEF C
<1>5. /\ \A k \in 0 .. n - 1 : C[k] = B[k]
      /\ \A k \in n .. m - 1 : C[k] = <<s + 1, k - n + 1 - h>>
  <2>1. ASSUME NEW k \in n .. m - 1 PROVE C[k] = <<s + 1, k - n + 1 - h>>
    <3>. DEFINE i == k - n + 1
    <3>1. i \in 1 .. q /\ k \in 0 .. m - 1 /\ ~(k < n) /\ i - h = k - n + 1 - h
      BY <1>1 DEF q
    <3>2. C[k] = E[i]
      BY <1>4, <3>1
    <3>. HIDE DEF i
    <3>. QED BY <1>15, <3>1, <3>2
  <2>2. ASSUME NEW k \in 0 .. n - 1 PROVE C[k] = B[k]
    <3>1. k < n /\ k \in 0 .. m - 1
      BY <1>1
    <3>. QED BY <1>4, <3>1
  <2>. QED BY <2>1, <2>2
<1>. DEFINE Whole(X, l, t, k) ==
       /\ X[k] \in (1 .. t) \X Int
       /\ X[k][2] \in 1 - Header .. Datagrams[X[k][1]]
       /\ k + (Datagrams[X[k][1]] - X[k][2]) < l
       /\ \A j \in 0 .. Datagrams[X[k][1]] - X[k][2] : X[k + j] = <<X[k][1], X[k][2] + j>>
       /\ X[k][2] = Datagrams[X[k][1]] /\ k + 1 < l => X[k + 1][2] = 1 - Header
<1>6. ASSUME NEW k \in 0 .. n - 1 PROVE Whole(C, m, s + 1, k)
  <2>1. Whole(B, n, s, k) /\ C[k] = B[k]
    BY <1>5 DEF Packets
  <2>2. B[k][1] \in 1 .. s + 1 /\ B[k][2] \in Int /\ C[k] \in (1 .. s + 1) \X Int /\ Datagrams[B[k][1]] \in Nat
    <3>1. B[k] \in (1 .. s) \X Int /\ s \in Nat /\ s + 1 <= Len(Datagrams) /\ C[k] = B[k]
      BY <1>1, <2>1
    <3>2. B[k][1] \in 1 .. s /\ B[k][2] \in Int
      BY <3>1
    <3>3. B[k][1] \in 1 .. s + 1 /\ B[k][1] \in 1 .. Len(Datagrams)
      BY <3>1, <3>2
    <3>4. Datagrams[B[k][1]] \in Nat
      BY <1>1, <3>3
    <3>5. C[k] \in (1 .. s + 1) \X Int
      BY <3>1, <3>2, <3>3
    <3>. QED BY <3>2, <3>3, <3>4, <3>5
  <2>9. Datagrams[B[k][1]] - B[k][2] \in Int
    <3>1. Datagrams[B[k][1]] \in Int /\ B[k][2] \in Int
      BY <2>2
    <3>. QED BY <3>1
  <2>3. k + (Datagrams[B[k][1]] - B[k][2]) < m
    <3>. DEFINE e == Datagrams[B[k][1]] - B[k][2]
    <3>1. e \in Int /\ k + e < n
      BY <2>1, <2>9
    <3>. HIDE DEF e
    <3>2. k + e < m
      BY <1>1, <3>1
    <3>. QED BY <3>2 DEF e
  <2>4. ASSUME NEW j \in 0 .. Datagrams[B[k][1]] - B[k][2] PROVE C[k + j] = <<B[k][1], B[k][2] + j>>
    <3>. DEFINE e == Datagrams[B[k][1]] - B[k][2]
    <3>2. e \in Int /\ k + e < n /\ j \in 0 .. e
      BY <2>1, <2>9
    <3>. HIDE DEF e
    <3>1. k + j \in 0 .. n - 1
      BY <3>2
    <3>. QED BY <1>5, <2>1, <3>1
  <2>5. ASSUME B[k][2] = Datagrams[B[k][1]], k + 1 < m PROVE C[k + 1][2] = 1 - h
    <3>1. CASE k + 1 < n
      <4>1. k + 1 \in 0 .. n - 1 /\ B[k + 1][2] = 1 - h
        BY <2>1, <2>5, <3>1 DEF h
      <4>. QED BY <1>5, <4>1
    <3>2. CASE ~(k + 1 < n)
      <4>1. k + 1 \in n .. m - 1 /\ k + 1 - n + 1 - h = 1 - h
        BY <1>1, <3>2
      <4>. QED BY <1>5, <4>1
    <3>. QED BY <3>1, <3>2
  <2>. QED BY <2>1, <2>2, <2>3, <2>4, <2>5 DEF h
<1>7. ASSUME NEW k \in n .. m - 1 PROVE Whole(C, m, s + 1, k)
  <2>1. C[k] = <<s + 1, k - n + 1 - h>> /\ C[k][1] = s + 1 /\ C[k][2] = k - n + 1 - h
    BY <1>5
  <2>2. C[k] \in (1 .. s + 1) \X Int /\ C[k][2] \in 1 - h .. D /\ k + (D - C[k][2]) < m
    BY <1>1, <2>1
  <2>3. ASSUME NEW j \in 0 .. D - C[k][2] PROVE C[k + j] = <<s + 1, C[k][2] + j>>
    <3>1. k + j \in n .. m - 1 /\ k + j - n + 1 - h = C[k][2] + j
      BY <1>1, <2>1
    <3>. QED BY <1>5, <3>1
  <2>4. C[k][2] = D => ~(k + 1 < m)
    <3>1. C[k][2] = D => k - n + 1 - h = D
      BY <2>1
    <3>2. k - n + 1 - h = D => ~(k + 1 < m)
      BY <1>1
    <3>. QED BY <3>1, <3>2
  <2>. QED BY <2>1, <2>2, <2>3, <2>4 DEF h, D
<1>8. ASSUME NEW i \in 0 .. m - 1, NEW k \in i + 1 .. m - 1
      PROVE  C[i][1] < C[k][1] \/ (C[i][1] = C[k][1] /\ C[i][2] < C[k][2])
  <2>1. CASE k < n
    <3>1. i \in 0 .. n - 1 /\ k \in i + 1 .. n - 1 /\ k \in 0 .. n - 1
      BY <1>1, <2>1
    <3>2. C[i] = B[i] /\ C[k] = B[k]
      BY <1>5, <3>1
    <3>3. InTurn(B, n)
      BY DEF Packets
    <3>. QED BY <3>1, <3>2, <3>3 DEF InTurn
  <2>2. CASE ~(k < n) /\ i < n
    <3>1. i \in 0 .. n - 1 /\ k \in n .. m - 1
      BY <1>1, <2>2
    <3>2. C[i] = B[i] /\ C[k][1] = s + 1 /\ B[i] \in (1 .. s) \X Int
      BY <1>5, <3>1 DEF Packets
    <3>. QED BY <3>2
  <2>3. CASE ~(i < n)
    <3>1. i \in n .. m - 1 /\ k \in n .. m - 1
      BY <1>1, <2>3
    <3>2. C[i] = <<s + 1, i - n + 1 - h>> /\ C[k] = <<s + 1, k - n + 1 - h>>
      BY <1>5, <3>1
    <3>3. i - n + 1 - h < k - n + 1 - h
      BY <1>1
    <3>. QED BY <3>2, <3>3
  <2>. QED BY <2>1, <2>2, <2>3
<1>9. m > 0 => C[0][2] = IF rest = 0 THEN 1 - h ELSE Datagrams[C[0][1]] - rest + 1
  <2>1. CASE n > 0
    <3>1. 0 \in 0 .. n - 1
      BY <2>1
    <3>. QED BY <1>5, <2>1, <3>1 DEF Packets, h
  <2>2. CASE n = 0
    <3>1. rest = 0 /\ 0 \in n .. m - 1
      BY <1>1, <2>2 DEF Packets
    <3>. QED BY <1>1, <1>5, <2>2, <3>1
  <2>. QED BY <2>1, <2>2
<1>10. rest > 0 => C[0][2] >= 1
  <2>1. ASSUME rest > 0 PROVE 0 \in 0 .. n - 1 /\ B[0][2] >= 1
    BY <2>1 DEF Packets
  <2>. QED BY <1>5, <2>1
<1>11. \A k \in 0 .. m - 1 : Whole(C, m, s + 1, k)
  <2>1. ASSUME NEW k \in 0 .. m - 1 PROVE Whole(C, m, s + 1, k)
    <3>1. k \in 0 .. n - 1 \/ k \in n .. m - 1
      BY <1>1
    <3>. HIDE DEF Whole
    <3>. QED BY <1>6, <1>7, <3>1
  <2>. QED BY <2>1
<1>12. s + 1 <= Len(Datagrams) /\ rest <= m
  BY <1>1 DEF Packets
<1>18. InTurn(C, m)
  BY <1>8 DEF InTurn
<1>13. Packets(C, m, s + 1, rest)
  BY <1>18, <1>9, <1>10, <1>11, <1>12 DEF Packets, h
<1>. QED BY <1>13, <1>16, <1>17 DEF h, D, C, E, q

\* What is left after the first m bytes are datagrams again.
LEMMA PacketsBeyond ==
  ASSUME Receive!Buffers, NEW B, NEW n \in Nat, NEW s \in Nat, NEW rest \in Nat, Packets(B, n, s, rest),
         NEW m \in 1 .. n, NEW r \in Nat, r <= n - m,
         m < n => B[m][2] = IF r = 0 THEN 1 - Header ELSE Datagrams[B[m][1]] - r + 1,
         r > 0 => B[m][2] >= 1
  PROVE  Packets(Beyond(B, n, m), n - m, s, r)
<1>. DEFINE C == Beyond(B, n, m)
<1>1. \A k \in 0 .. n - m - 1 : C[k] = B[m + k] /\ m + k \in 0 .. n - 1
  BY DEF Beyond
<1>9. s <= Len(Datagrams)
  BY DEF Packets
<1>2. s <= Len(Datagrams) /\ \A d \in 1 .. Len(Datagrams) : Datagrams[d] \in Nat
  BY <1>9, DatagramsAre
<1>. HIDE DEF C
<1>3. ASSUME NEW k \in 0 .. n - m - 1
      PROVE  /\ C[k] \in (1 .. s) \X Int
             /\ C[k][2] \in 1 - Header .. Datagrams[C[k][1]]
             /\ k + (Datagrams[C[k][1]] - C[k][2]) < n - m
             /\ \A j \in 0 .. Datagrams[C[k][1]] - C[k][2] : C[k + j] = <<C[k][1], C[k][2] + j>>
             /\ C[k][2] = Datagrams[C[k][1]] /\ k + 1 < n - m => C[k + 1][2] = 1 - Header
  <2>. DEFINE i == m + k
              e == Datagrams[B[i][1]] - B[i][2]
  <2>1. i \in 0 .. n - 1 /\ C[k] = B[i]
    BY <1>1
  <2>. HIDE DEF i
  <2>2. /\ B[i] \in (1 .. s) \X Int /\ B[i][2] \in 1 - Header .. Datagrams[B[i][1]]
        /\ i + e < n
        /\ \A j \in 0 .. e : B[i + j] = <<B[i][1], B[i][2] + j>>
        /\ B[i][2] = Datagrams[B[i][1]] /\ i + 1 < n => B[i + 1][2] = 1 - Header
    BY <2>1 DEF Packets
  <2>3. e \in Nat /\ e = Datagrams[C[k][1]] - C[k][2]
    <3>. DEFINE d == B[i][1]
                p == B[i][2]
    <3>1. d \in 1 .. s /\ p \in Int /\ p <= Datagrams[d]
      BY <2>2
    <3>. HIDE DEF d, p
    <3>2. Datagrams[d] \in Nat
      BY <1>2, <3>1
    <3>3. Datagrams[d] - p \in Nat
      BY <3>1, <3>2
    <3>. QED BY <2>1, <3>3 DEF d, p
  <2>. HIDE DEF e
  <2>4. k + e < n - m
    BY <2>2, <2>3 DEF i
  <2>5. ASSUME NEW j \in 0 .. e PROVE C[k + j] = <<C[k][1], C[k][2] + j>>
    <3>1. k + j \in 0 .. n - m - 1 /\ m + (k + j) = i + j
      BY <2>3, <2>4 DEF i
    <3>2. C[k + j] = B[i + j]
      BY <1>1, <3>1
    <3>. QED BY <2>1, <2>2, <3>2
  <2>6. ASSUME k + 1 < n - m PROVE C[k + 1] = B[i + 1] /\ i + 1 < n
    <3>1. k + 1 \in 0 .. n - m - 1 /\ m + (k + 1) = i + 1 /\ i + 1 < n
      BY <2>6 DEF i
    <3>. QED BY <1>1, <3>1
  <2>. QED BY <2>1, <2>2, <2>3, <2>4, <2>5, <2>6
<1>4. InTurn(C, n - m)
  <2>1. ASSUME NEW i \in 0 .. n - m - 1, NEW k \in i + 1 .. n - m - 1
        PROVE  C[i][1] < C[k][1] \/ (C[i][1] = C[k][1] /\ C[i][2] < C[k][2])
    <3>. DEFINE a == m + i
                b == m + k
    <3>1. a \in 0 .. n - 1 /\ b \in a + 1 .. n - 1 /\ k \in 0 .. n - m - 1
      OBVIOUS
    <3>2. C[i] = B[a] /\ C[k] = B[b]
      BY <1>1, <3>1
    <3>. HIDE DEF a, b
    <3>3. InTurn(B, n)
      BY DEF Packets
    <3>. QED BY <3>1, <3>2, <3>3 DEF InTurn
  <2>. QED BY <2>1 DEF InTurn
<1>5. m < n => C[0] = B[m]
  <2>1. ASSUME m < n PROVE 0 \in 0 .. n - m - 1 /\ m + 0 = m
    BY <2>1
  <2>. QED BY <1>1, <2>1
<1>6. n - m > 0 => C[0][2] = IF r = 0 THEN 1 - Header ELSE Datagrams[C[0][1]] - r + 1
  <2>1. n - m > 0 => m < n
    OBVIOUS
  <2>. QED BY <1>5, <2>1
<1>7. r > 0 => C[0][2] >= 1
  <2>1. r > 0 => m < n
    OBVIOUS
  <2>. QED BY <1>5, <2>1
<1>8. Packets(C, n - m, s, r)
  BY <1>2, <1>3, <1>4, <1>6, <1>7 DEF Packets
<1>. QED BY <1>8 DEF C

\* Of the datagram that is being read: its bytes stand first, and a later byte is of another.
ToCome(B) == Datagrams[B[0][1]] - B[0][2] + 1

LEMMA FirstOf ==
  ASSUME Receive!Buffers, NEW B, NEW n \in Nat, NEW s \in Nat, NEW rest \in Nat, Packets(B, n, s, rest), n > 0
  PROVE  /\ B[0][1] \in 1 .. s /\ Datagrams[B[0][1]] \in Nat /\ B[0][2] \in Int /\ ToCome(B) \in 1 .. n
         /\ ToCome(B) = IF rest = 0 THEN Header + Datagrams[B[0][1]] ELSE rest
         /\ \A j \in 0 .. ToCome(B) - 1 : B[j] = <<B[0][1], B[0][2] + j>>
         /\ ToCome(B) < n => B[ToCome(B)][2] = 1 - Header
         /\ \A k \in ToCome(B) .. n - 1 : B[k][1] > B[0][1]
<1>. DEFINE d == B[0][1]
            p == B[0][2]
            l == Datagrams[d] - p + 1
<1>1. /\ B[0] \in (1 .. s) \X Int /\ p \in 1 - Header .. Datagrams[d] /\ 0 + (Datagrams[d] - p) < n
      /\ \A j \in 0 .. Datagrams[d] - p : B[0 + j] = <<d, p + j>>
      /\ p = IF rest = 0 THEN 1 - Header ELSE Datagrams[d] - rest + 1
  <2>1. 0 \in 0 .. n - 1
    OBVIOUS
  <2>. QED BY <2>1 DEF Packets
<1>2. d \in 1 .. s /\ p \in Int /\ Datagrams[d] \in Nat /\ Header \in Nat
  <2>1. s <= Len(Datagrams)
    BY DEF Packets
  <2>2. d \in 1 .. s /\ p \in Int
    BY <1>1
  <2>. HIDE DEF d, p
  <2>. QED BY <2>1, <2>2, ReceiveSizes, DatagramsAre
<1>3. l \in 1 .. n /\ l = IF rest = 0 THEN Header + Datagrams[d] ELSE rest
  BY <1>1, <1>2
<1>4. ASSUME NEW j \in 0 .. l - 1 PROVE B[j] = <<d, p + j>>
  <2>1. j \in 0 .. Datagrams[d] - p /\ 0 + j = j
    BY <1>2
  <2>. QED BY <1>1, <2>1
<1>. HIDE DEF d, p
<1>5. B[l - 1] = <<d, Datagrams[d]>> /\ l - 1 \in 0 .. n - 1
  <2>2. p + (l - 1) = Datagrams[d]
    BY <1>2
  <2>3. l \in 1 .. n
    BY <1>3
  <2>. HIDE DEF l
  <2>1. l - 1 \in 0 .. l - 1 /\ l - 1 \in 0 .. n - 1
    BY <2>3
  <2>. QED BY <1>4, <2>1, <2>2
<1>. HIDE DEF l
<1>6. ASSUME l < n PROVE B[l][2] = 1 - Header
  <2>1. B[l - 1][2] = Datagrams[B[l - 1][1]] /\ (l - 1) + 1 < n /\ (l - 1) + 1 = l
    BY <1>3, <1>5, <1>6
  <2>. QED BY <1>5, <2>1 DEF Packets
<1>7. ASSUME NEW k \in l .. n - 1 PROVE B[k][1] > d
  <2>1. k \in (l - 1) + 1 .. n - 1 /\ k \in 0 .. n - 1
    BY <1>3
  <2>2. B[l - 1][1] < B[k][1] \/ (B[l - 1][1] = B[k][1] /\ B[l - 1][2] < B[k][2])
    <3>1. InTurn(B, n)
      BY DEF Packets
    <3>. QED BY <1>5, <2>1, <3>1 DEF InTurn
  <2>3. B[k][2] <= Datagrams[B[k][1]] /\ B[k] \in (1 .. s) \X Int
    <3>1. B[k] \in (1 .. s) \X Int /\ B[k][2] \in 1 - Header .. Datagrams[B[k][1]]
      BY <2>1 DEF Packets
    <3>. QED BY <3>1
  <2>4. B[k][1] \in Int /\ B[k][2] \in Int
    BY <2>3
  <2>. QED BY <1>2, <1>5, <2>2, <2>3, <2>4
<1>8. l = ToCome(B)
  BY DEF l, d, p, ToCome
<1>. QED BY <1>2, <1>3, <1>4, <1>6, <1>7, <1>8 DEF d, p

\* Some of the datagram that is being read is taken, or the header of the next.
LEMMA RestTaken ==
  ASSUME Receive!Buffers, NEW B, NEW n \in Nat, NEW s \in Nat, NEW rest \in Nat, Packets(B, n, s, rest),
         NEW m \in 1 .. rest
  PROVE  Packets(Beyond(B, n, m), n - m, s, rest - m)
<1>. DEFINE d == B[0][1]
            p == B[0][2]
            l == ToCome(B)
<1>1. rest <= n /\ n > 0 /\ m <= n /\ p >= 1
  BY DEF Packets
<1>2. l = rest /\ p \in Int /\ (\A j \in 0 .. l - 1 : B[j] = <<d, p + j>>) /\ (l < n => B[l][2] = 1 - Header)
      /\ Datagrams[d] \in Nat /\ l = Datagrams[d] - p + 1
  <2>1. rest # 0 /\ n > 0
    BY <1>1
  <2>2. l = Datagrams[d] - p + 1
    BY DEF ToCome
  <2>. QED BY <2>1, <2>2, FirstOf
<1>. HIDE DEF d, p, l
<1>3. CASE m < rest
  <2>1. B[m] = <<d, p + m>>
    <3>1. m \in 0 .. l - 1
      BY <1>2, <1>3
    <3>. QED BY <1>2, <3>1
  <2>2. B[m][2] = Datagrams[B[m][1]] - (rest - m) + 1 /\ B[m][2] >= 1 /\ rest - m > 0
    <3>1. p + m = Datagrams[d] - (rest - m) + 1 /\ p + m >= 1 /\ rest - m > 0
      BY <1>1, <1>2, <1>3
    <3>. QED BY <2>1, <3>1
  <2>. QED BY <1>1, <1>3, <2>2, PacketsBeyond
<1>4. CASE m = rest
  <2>1. m < n => B[m][2] = 1 - Header
    BY <1>2, <1>4
  <2>. QED BY <1>1, <1>4, <2>1, PacketsBeyond
<1>. QED BY <1>3, <1>4

\* When nothing of a datagram is left to read, a whole header stands first, if anything.
LEMMA HeadTaken ==
  ASSUME Receive!Buffers, NEW B, NEW n \in Nat, NEW s \in Nat, Packets(B, n, s, 0), n > 0
  PROVE  /\ B[0][1] \in 1 .. s /\ Header <= n
         /\ \A j \in 0 .. Header - 1 : B[j] = <<B[0][1], 1 - Header + j>>
         /\ Packets(Beyond(B, n, Header), n - Header, s, Datagrams[B[0][1]])
<1>. DEFINE d == B[0][1]
            p == B[0][2]
            l == ToCome(B)
<1>1. /\ d \in 1 .. s /\ Datagrams[d] \in Nat /\ p \in Int /\ l \in 1 .. n /\ l = Header + Datagrams[d]
      /\ (\A j \in 0 .. l - 1 : B[j] = <<d, p + j>>) /\ (l < n => B[l][2] = 1 - Header)
  BY FirstOf
<1>2. p = 1 - Header /\ Header \in Nat \ {0}
  BY ReceiveSizes DEF Packets
<1>. HIDE DEF d, p, l
<1>3. Header <= n /\ \A j \in 0 .. Header - 1 : B[j] = <<d, 1 - Header + j>>
  <2>1. \A j \in 0 .. Header - 1 : j \in 0 .. l - 1
    BY <1>1, <1>2
  <2>. QED BY <1>1, <1>2, <2>1
<1>4. CASE Datagrams[d] > 0
  <2>1. Header \in 0 .. l - 1 /\ p + Header = 1
    BY <1>1, <1>2, <1>4
  <2>2. B[Header] = <<d, 1>>
    BY <1>1, <2>1
  <2>3. Datagrams[d] <= n - Header /\ B[Header][2] = Datagrams[B[Header][1]] - Datagrams[d] + 1 /\ B[Header][2] >= 1
    BY <1>1, <1>2, <2>2
  <2>4. Header \in 1 .. n /\ Datagrams[d] # 0
    BY <1>2, <1>3, <1>4
  <2>5. Packets(Beyond(B, n, Header), n - Header, s, Datagrams[d])
    BY <1>1, <2>3, <2>4, PacketsBeyond
  <2>. QED BY <1>1, <1>3, <2>5 DEF d
<1>5. CASE Datagrams[d] = 0
  <2>1. l = Header /\ Header \in 1 .. n
    BY <1>1, <1>2, <1>5
  <2>2. Packets(Beyond(B, n, Header), n - Header, s, 0)
    <3>1. Header < n => B[Header][2] = 1 - Header
      BY <1>1, <2>1
    <3>2. 0 <= n - Header
      BY <2>1
    <3>. QED BY <2>1, <3>1, <3>2, PacketsBeyond
  <2>. QED BY <1>1, <1>3, <1>5, <2>2 DEF d
<1>. QED BY <1>1, <1>4, <1>5

-----------------------------------------------------------------------------
\* The bytes given so far stand one after the other or begin a later datagram, and
\* what waits comes after them.
FollowsOn(a, b) == (b[1] = a[1] /\ b[2] = a[2] + 1) \/ (b[1] > a[1] /\ b[2] = 1)
GivenSoFar(g, B, n, s, rest) ==
  /\ \A i \in 2 .. Len(g) : FollowsOn(g[i - 1], g[i])
  /\ Len(g) > 0 =>
       /\ g[Len(g)][1] <= s
       /\ \A k \in 0 .. n - 1 : /\ g[Len(g)][1] <= B[k][1]
                                /\ g[Len(g)][1] = B[k][1] => k < rest
       /\ rest > 0 => FollowsOn(g[Len(g)], B[0])

LEMMA Longer ==
  ASSUME NEW S, NEW g \in Seq(S), NEW h \in Seq(S)
  PROVE  /\ g \o h \in Seq(S) /\ Len(g \o h) = Len(g) + Len(h) /\ Len(g) \in Nat /\ Len(h) \in Nat
         /\ \A i \in 1 .. Len(g) : (g \o h)[i] = g[i]
         /\ \A i \in 1 .. Len(h) : (g \o h)[Len(g) + i] = h[i]
OBVIOUS

\* A datagram that arrives comes after everything that was given.
LEMMA GivenAdded ==
  ASSUME Receive!Buffers, NEW B, NEW n \in Nat, NEW s \in Nat, NEW rest \in Nat, Packets(B, n, s, rest),
         NEW g \in Seq(StreamByte), GivenSoFar(g, B, n, s, rest), s < Len(Datagrams)
  PROVE  GivenSoFar(g, Joined(B, n, Receive!Packet(s + 1)), n + Header + Datagrams[s + 1], s + 1, rest)
<1>. DEFINE m == n + Header + Datagrams[s + 1]
            C == Joined(B, n, Receive!Packet(s + 1))
            a == g[Len(g)]
<1>1. Datagrams[s + 1] \in Nat /\ Header \in Nat \ {0} /\ m \in Nat /\ Len(g) \in Nat
  BY ReceiveSizes, DatagramsAre
<1>2. Packets(C, m, s + 1, rest)
  BY PacketAdded
<1>3. \A k \in 0 .. n - 1 : C[k] = B[k]
  <2>1. Len(Receive!Packet(s + 1)) = Header + Datagrams[s + 1]
    BY PacketAdded
  <2>2. \A k \in 0 .. n - 1 : k \in 0 .. n + Len(Receive!Packet(s + 1)) - 1 /\ k < n
    BY <1>1, <2>1
  <2>. QED BY <2>2 DEF Joined
<1>4. ASSUME NEW k \in n .. m - 1 PROVE C[k][1] = s + 1
  <2>. DEFINE i == k - n + 1
              q == Header + Datagrams[s + 1]
  <2>0. Len(Receive!Packet(s + 1)) = q
    BY PacketAdded
  <2>1. q = Datagrams[s + 1] - (1 - Header) + 1 /\ q \in Nat /\ m = n + q
    <3>. DEFINE D == Datagrams[s + 1]
    <3>1. D \in Nat /\ q = Header + D /\ m = n + Header + D
      BY <1>1
    <3>. HIDE DEF D, q, m
    <3>2. q = D - (1 - Header) + 1 /\ q \in Nat /\ m = n + q
      BY <1>1, <3>1
    <3>. QED BY <3>2 DEF D
  <2>. HIDE DEF q, m
  <2>2. i \in 1 .. q /\ k \in 0 .. n + q - 1 /\ ~(k < n)
    BY <2>1
  <2>. HIDE DEF q
  <2>3. C[k] = Receive!Packet(s + 1)[i]
    BY <2>0, <2>2 DEF Joined
  <2>. HIDE DEF i
  <2>4. Receive!Packet(s + 1)[i][1] = s + 1
    BY <2>1, <2>2 DEF Receive!Packet, Receive!Bytes
  <2>. QED BY <2>3, <2>4
<1>. HIDE DEF C, m
<1>5. ASSUME Len(g) > 0
      PROVE  /\ a[1] <= s + 1
             /\ \A k \in 0 .. m - 1 : a[1] <= C[k][1] /\ (a[1] = C[k][1] => k < rest)
             /\ rest > 0 => FollowsOn(a, C[0])
  <2>1. a[1] \in Nat /\ a[1] <= s
    <3>1. a \in StreamByte
      BY <1>1, <1>5
    <3>. QED BY <1>5, <3>1 DEF GivenSoFar, StreamByte
  <2>2. ASSUME NEW k \in 0 .. m - 1 PROVE a[1] <= C[k][1] /\ (a[1] = C[k][1] => k < rest)
    <3>1. CASE k < n
      <4>1. k \in 0 .. n - 1
        BY <1>1, <3>1
      <4>2. a[1] <= B[k][1] /\ (a[1] = B[k][1] => k < rest)
        BY <1>5, <4>1 DEF GivenSoFar
      <4>. QED BY <1>3, <4>1, <4>2
    <3>2. CASE ~(k < n)
      <4>1. k \in n .. m - 1
        BY <1>1, <3>2
      <4>2. C[k][1] = s + 1
        BY <1>4, <4>1
      <4>. QED BY <2>1, <4>2
    <3>. QED BY <3>1, <3>2
  <2>3. ASSUME rest > 0 PROVE FollowsOn(a, C[0])
    <3>1. rest <= n
      BY DEF Packets
    <3>2. 0 \in 0 .. n - 1
      BY <2>3, <3>1
    <3>3. C[0] = B[0] /\ FollowsOn(a, B[0])
      BY <1>3, <1>5, <2>3, <3>2 DEF GivenSoFar
    <3>. QED BY <3>3
  <2>4. a[1] <= s + 1
    BY <2>1
  <2>. QED BY <2>2, <2>3, <2>4
<1>6. GivenSoFar(g, C, m, s + 1, rest)
  BY <1>5 DEF GivenSoFar
<1>. QED BY <1>6 DEF C, m

\* Nor does taking a header change the order,
LEMMA GivenHead ==
  ASSUME Receive!Buffers, NEW B, NEW n \in Nat, NEW s \in Nat, Packets(B, n, s, 0), n > 0,
         NEW g \in Seq(StreamByte), GivenSoFar(g, B, n, s, 0)
  PROVE  GivenSoFar(g, Beyond(B, n, Header), n - Header, s, Datagrams[B[0][1]])
<1>. DEFINE C == Beyond(B, n, Header)
            D == Datagrams[B[0][1]]
            a == g[Len(g)]
<1>7. Header <= n
  BY HeadTaken
<1>1. Header \in Nat \ {0} /\ Header <= n /\ Len(g) \in Nat
  BY <1>7, ReceiveSizes
<1>2. \A k \in 0 .. n - Header - 1 : C[k] = B[Header + k] /\ Header + k \in 0 .. n - 1
  BY <1>1 DEF Beyond
<1>3. D > 0 => B[Header] = <<B[0][1], 1>> /\ 0 \in 0 .. n - Header - 1 /\ C[0] = B[Header]
  <2>1. ToCome(B) = Header + D /\ D \in Nat /\ ToCome(B) \in 1 .. n /\ B[0][2] = 1 - Header
        /\ \A j \in 0 .. ToCome(B) - 1 : B[j] = <<B[0][1], B[0][2] + j>>
    <3>1. ToCome(B) = Header + D /\ D \in Nat /\ ToCome(B) \in 1 .. n
          /\ \A j \in 0 .. ToCome(B) - 1 : B[j] = <<B[0][1], B[0][2] + j>>
      BY FirstOf
    <3>2. B[0][2] = 1 - Header
      BY DEF Packets
    <3>. QED BY <3>1, <3>2
  <2>. HIDE DEF D, C
  <2>2. ASSUME D > 0 PROVE B[Header] = <<B[0][1], 1>> /\ 0 \in 0 .. n - Header - 1 /\ C[0] = B[Header]
    <3>1. Header \in 0 .. ToCome(B) - 1 /\ (1 - Header) + Header = 1 /\ 0 \in 0 .. n - Header - 1 /\ Header + 0 = Header
      BY <1>1, <2>1, <2>2
    <3>. QED BY <1>2, <2>1, <3>1
  <2>. QED BY <2>2
<1>. HIDE DEF C, D
<1>4. ASSUME Len(g) > 0, NEW k \in 0 .. n - 1 PROVE a[1] < B[k][1]
  <2>1. a[1] <= B[k][1] /\ ~(a[1] = B[k][1])
    BY <1>4 DEF GivenSoFar
  <2>2. a \in StreamByte /\ B[k] \in (1 .. s) \X Int
    <3>1. a \in StreamByte
      BY <1>1, <1>4
    <3>. QED BY <3>1 DEF Packets
  <2>3. a[1] \in Int /\ B[k][1] \in Int
    BY <2>2 DEF StreamByte
  <2>. HIDE DEF a
  <2>. QED BY <2>1, <2>3
<1>5. ASSUME Len(g) > 0
      PROVE  /\ a[1] <= s
             /\ \A k \in 0 .. n - Header - 1 : a[1] <= C[k][1] /\ (a[1] = C[k][1] => k < D)
             /\ D > 0 => FollowsOn(a, C[0])
  <2>1. a[1] <= s
    BY <1>5 DEF GivenSoFar
  <2>2. a \in StreamByte /\ a[1] \in Int
    <3>1. a \in StreamByte
      BY <1>1, <1>5
    <3>. QED BY <3>1 DEF StreamByte
  <2>3. ASSUME NEW k \in 0 .. n - Header - 1 PROVE a[1] <= C[k][1] /\ (a[1] = C[k][1] => k < D)
    <3>1. Header + k \in 0 .. n - 1 /\ C[k] = B[Header + k]
      BY <1>2
    <3>2. a[1] < C[k][1]
      BY <1>4, <1>5, <3>1
    <3>3. C[k][1] \in Int
      BY <3>1 DEF Packets
    <3>. HIDE DEF a
    <3>. QED BY <2>2, <3>2, <3>3
  <2>4. ASSUME D > 0 PROVE FollowsOn(a, C[0])
    <3>1. C[0] = <<B[0][1], 1>> /\ a[1] < B[0][1]
      BY <1>1, <1>3, <1>4, <1>5, <2>4
    <3>. QED BY <3>1 DEF FollowsOn
  <2>. QED BY <2>1, <2>3, <2>4
<1>6. GivenSoFar(g, C, n - Header, s, D)
  BY <1>5 DEF GivenSoFar
<1>. QED BY <1>6 DEF C, D

\* nor dropping the rest of a datagram,
LEMMA GivenDropped ==
  ASSUME Receive!Buffers, NEW B, NEW n \in Nat, NEW s \in Nat, NEW rest \in 1 .. n, NEW g \in Seq(StreamByte),
         GivenSoFar(g, B, n, s, rest)
  PROVE  GivenSoFar(g, Beyond(B, n, rest), n - rest, s, 0)
<1>. DEFINE C == Beyond(B, n, rest)
<1>1. ASSUME NEW k \in 0 .. n - rest - 1 PROVE C[k] = B[rest + k] /\ rest + k \in 0 .. n - 1 /\ ~(rest + k < rest)
  BY DEF Beyond
<1>. HIDE DEF C
<1>2. ASSUME Len(g) > 0
      PROVE  /\ g[Len(g)][1] <= s
             /\ \A k \in 0 .. n - rest - 1 : g[Len(g)][1] <= C[k][1] /\ g[Len(g)][1] # C[k][1]
  <2>1. g[Len(g)][1] <= s /\ \A k \in 0 .. n - 1 : g[Len(g)][1] <= B[k][1] /\ (g[Len(g)][1] = B[k][1] => k < rest)
    BY <1>2 DEF GivenSoFar
  <2>. QED BY <1>1, <2>1
<1>3. GivenSoFar(g, C, n - rest, s, 0)
  BY <1>2 DEF GivenSoFar
<1>. QED BY <1>3 DEF C

\* nor giving its next bytes.
LEMMA GivenTaken ==
  ASSUME Receive!Buffers, NEW B, NEW n \in Nat, NEW s \in Nat, NEW rest \in Nat, Packets(B, n, s, rest),
         NEW g \in Seq(StreamByte), GivenSoFar(g, B, n, s, rest), NEW m \in 1 .. rest,
         NEW h \in Seq(StreamByte), Len(h) = m, \A i \in 1 .. m : h[i] = B[i - 1]
  PROVE  GivenSoFar(g \o h, Beyond(B, n, m), n - m, s, rest - m)
<1>. DEFINE C == Beyond(B, n, m)
            d == B[0][1]
            p == B[0][2]
            f == g \o h
            L == Len(g)
<1>1. rest <= n /\ n > 0 /\ p >= 1 /\ rest # 0 /\ rest > 0
  BY DEF Packets
<1>2. /\ d \in 1 .. s /\ p \in Int
      /\ (\A j \in 0 .. rest - 1 : B[j] = <<d, p + j>>)
      /\ \A k \in rest .. n - 1 : B[k][1] > d
  <2>1. ToCome(B) = rest
    BY <1>1, FirstOf
  <2>. QED BY <1>1, <2>1, FirstOf
<1>3. \A k \in 0 .. n - m - 1 : C[k] = B[m + k] /\ m + k \in 0 .. n - 1
  BY <1>1 DEF Beyond
<1>4. /\ f \in Seq(StreamByte) /\ Len(f) = L + m /\ L \in Nat
      /\ \A i \in 1 .. L : f[i] = g[i]
      /\ \A i \in 1 .. m : f[L + i] = h[i]
  <2>2. f \in Seq(StreamByte) /\ L \in Nat
    OBVIOUS
  <2>3. Len(f) = L + Len(h)
    OBVIOUS
  <2>4. \A i \in 1 .. L : f[i] = g[i]
    OBVIOUS
  <2>5. \A i \in 1 .. Len(h) : f[L + i] = h[i]
    OBVIOUS
  <2>. HIDE DEF f, L
  <2>. QED BY <2>2, <2>3, <2>4, <2>5
<1>. HIDE DEF C, d, p, f, L
<1>5. \A i \in 1 .. m : f[L + i] = <<d, p + (i - 1)>>
  <2>1. ASSUME NEW i \in 1 .. m PROVE f[L + i] = <<d, p + (i - 1)>>
    <3>1. i - 1 \in 0 .. rest - 1
      OBVIOUS
    <3>. QED BY <1>2, <1>4, <3>1
  <2>. QED BY <2>1
<1>6. ASSUME NEW i \in 2 .. Len(f) PROVE FollowsOn(f[i - 1], f[i])
  <2>1. CASE i <= L
    <3>1. i \in 1 .. L /\ i - 1 \in 1 .. L /\ i \in 2 .. L
      BY <1>4, <2>1
    <3>. QED BY <1>4, <3>1 DEF GivenSoFar, L
  <2>2. CASE i = L + 1
    <3>1. L > 0 /\ L \in 1 .. L /\ i - 1 = L
      BY <1>4, <2>2
    <3>2. f[i - 1] = g[L] /\ FollowsOn(g[L], B[0])
      BY <1>1, <1>4, <3>1 DEF GivenSoFar, L
    <3>3. f[i] = B[0]
      BY <1>4, <2>2
    <3>. QED BY <3>2, <3>3
  <2>3. CASE i > L + 1
    <3>. DEFINE j == i - L
    <3>1. j \in 1 .. m /\ j - 1 \in 1 .. m /\ L + j = i /\ L + (j - 1) = i - 1
      <4>1. Len(f) = L + m /\ L \in Nat
        BY <1>4
      <4>. QED BY <2>3, <4>1
    <3>. HIDE DEF j
    <3>2. f[i] = <<d, p + (j - 1)>> /\ f[i - 1] = <<d, p + ((j - 1) - 1)>>
      BY <1>5, <3>1
    <3>3. p + (j - 1) = p + ((j - 1) - 1) + 1
      BY <1>2, <3>1
    <3>. QED BY <3>2, <3>3 DEF FollowsOn
  <2>. QED BY <1>4, <2>1, <2>2, <2>3
<1>7. f[Len(f)] = <<d, p + (m - 1)>>
  <2>1. m \in 1 .. m
    OBVIOUS
  <2>. QED BY <1>4, <1>5, <2>1
<1>8. ASSUME NEW k \in 0 .. n - m - 1 PROVE d <= C[k][1] /\ (d = C[k][1] => k < rest - m)
  <2>1. C[k] = B[m + k] /\ m + k \in 0 .. n - 1
    BY <1>3
  <2>2. CASE m + k < rest
    <3>1. m + k \in 0 .. rest - 1 /\ k < rest - m
      BY <2>1, <2>2
    <3>2. C[k] = <<d, p + (m + k)>>
      BY <1>2, <2>1, <3>1
    <3>. QED BY <1>2, <3>1, <3>2
  <2>3. CASE ~(m + k < rest)
    <3>1. m + k \in rest .. n - 1
      BY <2>1, <2>3
    <3>2. B[m + k][1] > d /\ B[m + k] \in (1 .. s) \X Int
      BY <1>2, <2>1, <3>1 DEF Packets
    <3>3. B[m + k][1] \in Int /\ d \in Int /\ B[m + k][1] > d
      BY <1>2, <3>2
    <3>. DEFINE b == B[m + k][1]
    <3>4. C[k][1] = b
      BY <2>1
    <3>. HIDE DEF b
    <3>5. d <= b /\ d # b
      BY <3>3 DEF b
    <3>. QED BY <3>4, <3>5
  <2>. QED BY <2>2, <2>3
<1>9. ASSUME rest - m > 0 PROVE FollowsOn(<<d, p + (m - 1)>>, C[0])
  <2>1. m \in 0 .. rest - 1 /\ 0 \in 0 .. n - m - 1 /\ m + 0 = m
    BY <1>1, <1>9
  <2>3. C[0] = B[m]
    BY <1>3, <2>1
  <2>4. B[m] = <<d, p + m>>
    BY <1>2, <2>1
  <2>5. p + m = p + (m - 1) + 1
    BY <1>2
  <2>2. C[0] = <<d, p + m>> /\ p + m = p + (m - 1) + 1
    BY <2>3, <2>4, <2>5
  <2>. QED BY <2>2 DEF FollowsOn
<1>10. d <= s
  BY <1>2
<1>11. GivenSoFar(f, C, n - m, s, rest - m)
  BY <1>6, <1>7, <1>8, <1>9, <1>10 DEF GivenSoFar
<1>. QED BY <1>11 DEF f, C

-----------------------------------------------------------------------------
RecvType ==
  /\ recvKind \in {"tcp", "udp"} /\ recvSent \in Nat /\ recvRemaining \in Nat /\ recvParsing \in BOOLEAN
  /\ recvRing \in [0 .. RxBuffer - 1 -> StreamByte] /\ recvGot \in Seq(StreamByte) /\ recvHeads \in Seq(Seq(StreamByte))

\* A TCP peer's bytes: those given, then those that wait.
TcpInv == recvKind = "tcp" =>
  /\ ~recvParsing /\ Len(recvGot) + Unread = recvSent
  /\ \A i \in 1 .. Len(recvGot) : recvGot[i] = <<0, i>>
  /\ \A k \in 0 .. Unread - 1 : Left[k] = <<0, Len(recvGot) + 1 + k>>

\* A UDP peer's bytes: those given and those that wait, in their order, and headers that are heads.
UdpInv == recvKind = "udp" =>
  /\ Packets(Left, Unread, recvSent, recvRemaining) /\ GivenSoFar(recvGot, Left, Unread, recvSent, recvRemaining)
  /\ \A h \in 1 .. Len(recvHeads) : recvHeads[h] = Receive!Bytes(recvHeads[h][1][1], 1 - Header, 0)

RecvInv == RecvType /\ PointersInv /\ TcpInv /\ UdpInv

LEMMA RecvInit == ASSUME Receive!Buffers, Receive!Init PROVE RecvInv
<1>1. /\ RxBuffer \in Nat \ {0} /\ RxPointers \in Nat \ {0}
  BY ReceiveSizes
<1>2. RecvType
  <2>1. <<0, 0>> \in StreamByte
    BY DEF StreamByte
  <2>2. recvRing \in [0 .. RxBuffer - 1 -> StreamByte]
    BY <2>1 DEF Receive!Init
  <2>3. <<>> \in Seq(StreamByte)
    OBVIOUS
  <2>4. <<>> \in Seq(Seq(StreamByte))
    OBVIOUS
  <2>5. recvKind \in {"tcp", "udp"} /\ recvSent = 0 /\ recvRemaining = 0 /\ recvParsing = FALSE /\ recvGot = <<>> /\ recvHeads = <<>>
    BY DEF Receive!Init
  <2>. QED BY <2>2, <2>3, <2>4, <2>5 DEF RecvType
<1>3. Ahead(RxPointers, 0, 0) = 0
  BY <1>1, AheadIs
<1>4. PointersInv
  BY <1>1, <1>3 DEF Receive!Init, PointersInv, Unread
<1>5. Unread = 0 /\ Len(recvGot) = 0 /\ Len(recvHeads) = 0 /\ recvSent = 0 /\ recvRemaining = 0 /\ recvParsing = FALSE
  BY DEF Receive!Init, Unread
<1>6. TcpInv
  BY <1>5 DEF TcpInv
<1>7. Packets(Left, 0, 0, 0)
  <2>1. 0 <= Len(Datagrams)
    BY DatagramsAre
  <2>. QED BY <2>1 DEF Packets, InTurn
<1>8. UdpInv
  BY <1>5, <1>7 DEF UdpInv, GivenSoFar
<1>. QED BY <1>2, <1>4, <1>6, <1>8 DEF RecvInv

\* The steps of SocketReceive, one by one.
LEMMA SegmentKeeps == ASSUME Receive!Buffers, RecvInv, Receive!Segment PROVE RecvInv'
<1>1. PICK n \in 1 .. Receive!Least(Receive!Room, StreamBytes - recvSent) : Receive!Put(Receive!Bytes(0, recvSent + 1, recvSent + n)) /\ recvSent' = recvSent + n
  BY DEF Receive!Segment
<1>2. recvKind = "tcp" /\ UNCHANGED <<recvKind, Receive!driver, recvRemaining, recvParsing, recvGot, recvHeads>>
  BY DEF Receive!Segment
<1>. DEFINE b == Receive!Bytes(0, recvSent + 1, recvSent + n)
<1>3. recvSent \in Nat /\ StreamBytes \in Nat /\ RxBuffer \in Nat /\ recvRsr \in 0 .. RxBuffer
  BY ReceiveSizes DEF RecvInv, RecvType, PointersInv
<1>4. n \in Nat \ {0} /\ n <= Receive!Room
  BY <1>3 DEF Receive!Least, Receive!Room
<1>5. b \in Seq(StreamByte) /\ Len(b) = n /\ \A i \in 1 .. n : b[i] = <<0, recvSent + i>>
  <2>1. (recvSent + n) - (recvSent + 1) + 1 = n
    BY <1>3, <1>4
  <2>2. b = [i \in 1 .. n |-> <<0, recvSent + 1 + i - 1>>]
    BY <2>1 DEF Receive!Bytes
  <2>3. \A i \in 1 .. n : recvSent + 1 + i - 1 = recvSent + i /\ <<0, recvSent + 1 + i - 1>> \in StreamByte
    BY <1>3 DEF StreamByte
  <2>. HIDE DEF b
  <2>4. b \in [1 .. n -> StreamByte] /\ \A i \in 1 .. n : b[i] = <<0, recvSent + i>>
    BY <2>2, <2>3
  <2>. QED BY <1>4, <2>2, <2>4
<1>. HIDE DEF b
<1>6. /\ PointersInv' /\ Unread' = Unread + n /\ Left' = Joined(Left, Unread, b)
      /\ recvRing' \in [0 .. RxBuffer - 1 -> StreamByte]
  <2>1. PointersInv /\ recvRing \in [0 .. RxBuffer - 1 -> StreamByte]
    BY DEF RecvInv, RecvType
  <2>2. Receive!Put(b) /\ UNCHANGED Receive!driver /\ Len(b) <= Receive!Room
    BY <1>1, <1>2, <1>4, <1>5 DEF b
  <2>. QED BY <1>5, <2>1, <2>2, PutBytes
<1>7. RecvType'
  BY <1>1, <1>2, <1>3, <1>4, <1>6 DEF RecvInv, RecvType
<1>8. TcpInv'
  <2>. DEFINE u == Unread
              l == Len(recvGot)
  <2>1. /\ ~recvParsing /\ l + u = recvSent
        /\ \A i \in 1 .. l : recvGot[i] = <<0, i>>
        /\ \A k \in 0 .. u - 1 : Left[k] = <<0, l + 1 + k>>
    BY <1>2 DEF RecvInv, TcpInv
  <2>2. u \in Nat /\ l \in Nat
    BY <1>3 DEF RecvInv, RecvType, PointersInv, Unread
  <2>3. Left' = [k \in 0 .. u + n - 1 |-> IF k < u THEN Left[k] ELSE b[k - u + 1]]
    BY <1>5, <1>6 DEF Joined
  <2>. HIDE DEF u, l
  <2>4. ASSUME NEW k \in 0 .. u + n - 1 PROVE Left'[k] = <<0, l + 1 + k>>
    <3>1. CASE k < u
      <4>1. k \in 0 .. u - 1
        BY <2>2, <3>1
      <4>. QED BY <2>1, <2>3, <3>1, <4>1
    <3>2. CASE ~(k < u)
      <4>. DEFINE i == k - u + 1
      <4>1. i \in 1 .. n /\ recvSent + i = l + 1 + k
        BY <1>4, <2>1, <2>2, <3>2
      <4>2. Left'[k] = b[i]
        BY <2>3, <3>2
      <4>. HIDE DEF i
      <4>. QED BY <1>5, <4>1, <4>2
    <3>. QED BY <3>1, <3>2
  <2>5. Unread' = u + n /\ Len(recvGot') = l /\ recvSent' = recvSent + n /\ recvGot' = recvGot /\ recvParsing' = recvParsing
    BY <1>1, <1>2, <1>6 DEF u, l
  <2>6. l + (u + n) = recvSent + n
    BY <1>3, <1>4, <2>1, <2>2
  <2>7. ~recvParsing' /\ Len(recvGot') + Unread' = recvSent'
    BY <2>1, <2>5, <2>6
  <2>8. \A i \in 1 .. Len(recvGot') : recvGot'[i] = <<0, i>>
    BY <2>1, <2>5
  <2>9. \A k \in 0 .. Unread' - 1 : Left'[k] = <<0, Len(recvGot') + 1 + k>>
    <3>1. Unread' - 1 = u + n - 1
      BY <1>4, <2>2, <2>5
    <3>. QED BY <2>4, <2>5, <3>1
  <2>. QED BY <2>7, <2>8, <2>9 DEF TcpInv
<1>9. UdpInv'
  BY <1>2 DEF UdpInv
<1>. QED BY <1>6, <1>7, <1>8, <1>9 DEF RecvInv

LEMMA DatagramKeeps == ASSUME Receive!Buffers, RecvInv, Receive!Datagram PROVE RecvInv'
<1>1. /\ recvKind = "udp" /\ recvSent < Len(Datagrams) /\ recvSent' = recvSent + 1
      /\ UNCHANGED <<recvKind, Receive!driver, recvRemaining, recvParsing, recvGot, recvHeads>>
  BY DEF Receive!Datagram
<1>. DEFINE u == Unread
            D == Datagrams[recvSent + 1]
<1>2. recvSent \in Nat /\ u \in Nat /\ recvRemaining \in Nat /\ D \in Nat /\ Header \in Nat /\ Len(Datagrams) \in Nat
      /\ recvGot \in Seq(StreamByte) /\ PointersInv /\ recvRing \in [0 .. RxBuffer - 1 -> StreamByte] /\ RxBuffer \in Nat /\ recvRsr \in 0 .. RxBuffer
  <2>1. recvSent \in Nat /\ recvRemaining \in Nat /\ recvGot \in Seq(StreamByte) /\ recvRing \in [0 .. RxBuffer - 1 -> StreamByte]
    BY DEF RecvInv, RecvType
  <2>2. PointersInv /\ u \in Nat /\ recvRsr \in 0 .. RxBuffer
    BY ReceiveSizes DEF RecvInv, PointersInv, Unread
  <2>3. recvSent + 1 \in 1 .. Len(Datagrams)
    BY ReceiveSizes, DatagramsAre, <1>1, <2>1
  <2>. QED BY ReceiveSizes, DatagramsAre, <2>1, <2>2, <2>3
<1>3. /\ Packets(Left, u, recvSent, recvRemaining) /\ GivenSoFar(recvGot, Left, u, recvSent, recvRemaining)
      /\ \A h \in 1 .. Len(recvHeads) : recvHeads[h] = Receive!Bytes(recvHeads[h][1][1], 1 - Header, 0)
  BY <1>1 DEF RecvInv, UdpInv
<1>. HIDE DEF u, D
<1>4. CASE Header + D <= Receive!Room /\ Receive!Put(Receive!Packet(recvSent + 1))
  <2>1. Receive!Packet(recvSent + 1) \in Seq(StreamByte) /\ Len(Receive!Packet(recvSent + 1)) = Header + D
        /\ Packets(Joined(Left, u, Receive!Packet(recvSent + 1)), u + Header + D, recvSent + 1, recvRemaining)
    BY <1>1, <1>2, <1>3, PacketAdded DEF D
  <2>2. GivenSoFar(recvGot, Joined(Left, u, Receive!Packet(recvSent + 1)), u + Header + D, recvSent + 1, recvRemaining)
    BY <1>1, <1>2, <1>3, GivenAdded DEF D
  <2>3. /\ PointersInv' /\ Unread' = u + Len(Receive!Packet(recvSent + 1)) /\ Left' = Joined(Left, u, Receive!Packet(recvSent + 1))
        /\ recvRing' \in [0 .. RxBuffer - 1 -> StreamByte]
    <3>1. Len(Receive!Packet(recvSent + 1)) <= Receive!Room /\ UNCHANGED Receive!driver
      BY <1>1, <1>4, <2>1
    <3>. QED BY <1>2, <1>4, <2>1, <3>1, PutBytes DEF u
  <2>4. Unread' = u + Header + D
    <3>1. Len(Receive!Packet(recvSent + 1)) = Header + D /\ Unread' = u + Len(Receive!Packet(recvSent + 1))
      BY <2>1, <2>3
    <3>. QED BY <1>2, <3>1
  <2>5. UdpInv'
    BY <1>1, <1>3, <2>1, <2>2, <2>3, <2>4 DEF UdpInv
  <2>6. RecvType'
    BY <1>1, <1>2, <2>3 DEF RecvInv, RecvType
  <2>7. TcpInv'
    BY <1>1 DEF TcpInv
  <2>. QED BY <2>3, <2>5, <2>6, <2>7 DEF RecvInv
<1>5. CASE UNCHANGED Receive!chip
  <2>1. UNCHANGED <<recvRing, recvWr, recvRxRd, recvRsr, recvRX_RD, recvRX_RSR, recvRX_inc>>
    BY <1>1, <1>5 DEF Receive!chip, Receive!driver
  <2>2. Left' = Left /\ Unread' = u /\ PointersInv'
    BY <1>2, <2>1 DEF Left, Unread, PointersInv, u
  <2>3. Packets(Left, u, recvSent + 1, recvRemaining)
    <3>1. \A k \in 0 .. u - 1 : Left[k] \in (1 .. recvSent + 1) \X Int
      <4>1. \A k \in 0 .. u - 1 : Left[k] \in (1 .. recvSent) \X Int
        BY <1>3 DEF Packets
      <4>2. 1 .. recvSent \subseteq 1 .. recvSent + 1
        BY <1>2
      <4>. QED BY <4>1, <4>2
    <3>2. recvSent + 1 <= Len(Datagrams)
      BY <1>1, <1>2
    <3>. QED BY <1>3, <3>1, <3>2 DEF Packets
  <2>4. GivenSoFar(recvGot, Left, u, recvSent + 1, recvRemaining)
    <3>1. ASSUME Len(recvGot) > 0 PROVE recvGot[Len(recvGot)][1] <= recvSent + 1
      <4>1. recvGot[Len(recvGot)][1] <= recvSent
        BY <1>3, <3>1 DEF GivenSoFar
      <4>2. recvGot[Len(recvGot)] \in StreamByte
        BY <1>2, <3>1
      <4>3. recvGot[Len(recvGot)][1] \in Nat
        BY <4>2 DEF StreamByte
      <4>. QED BY <1>2, <4>1, <4>3
    <3>. QED BY <1>3, <3>1 DEF GivenSoFar
  <2>5. UdpInv'
    BY <1>1, <1>3, <2>2, <2>3, <2>4 DEF UdpInv
  <2>6. RecvType'
    BY <1>1, <1>2, <2>1 DEF RecvInv, RecvType
  <2>7. TcpInv'
    BY <1>1 DEF TcpInv
  <2>. QED BY <2>2, <2>5, <2>6, <2>7 DEF RecvInv
<1>. QED BY <1>4, <1>5 DEF Receive!Datagram, D

\* What read() knows of and returns: something of what there is.
LEMMA Reading ==
  ASSUME Receive!Buffers, RecvInv, NEW len \in Nat \ {0}, Receive!Recvd(len) > 0
  PROVE  /\ Receive!Recvd(len) \in 1 .. Unread /\ Receive!Recvd(len) <= len
         /\ Receive!Known(len) - Receive!Recvd(len) \in 0 .. Unread - Receive!Recvd(len)
         /\ len <= Unread => Receive!Recvd(len) = len
<1>1. recvRX_RSR \in Nat /\ recvRX_RSR <= Unread /\ Unread \in Nat /\ Receive!Pending = Unread
  BY ReceiveSizes DEF RecvInv, PointersInv, Unread, Receive!Pending
<1>2. Receive!Known(len) \in Nat /\ Receive!Known(len) <= Unread /\ (len <= Unread => len <= Receive!Known(len))
  BY <1>1 DEF Receive!Known
<1>. QED BY <1>1, <1>2 DEF Receive!Recvd, Receive!Least

LEMMA ReadStretch ==
  ASSUME Receive!Buffers, RecvInv, NEW n \in 1 .. Unread
  PROVE  /\ Receive!BytesAt(recvRX_RD, n) \in Seq(StreamByte) /\ Len(Receive!BytesAt(recvRX_RD, n)) = n
         /\ \A i \in 1 .. n : Receive!BytesAt(recvRX_RD, n)[i] = Left[i - 1] /\ Left[i - 1] \in StreamByte
<1>1. RxBuffer \in Nat \ {0} /\ recvRX_RD \in Nat /\ Unread \in Nat /\ n \in Nat /\ recvRing \in [0 .. RxBuffer - 1 -> StreamByte]
  BY ReceiveSizes DEF RecvInv, RecvType, PointersInv, Unread
<1>2. ASSUME NEW i \in 1 .. n
      PROVE  recvRing[(recvRX_RD + i - 1) % RxBuffer] = Left[i - 1] /\ Left[i - 1] \in StreamByte
  <2>. DEFINE x == recvRX_RD + i - 1
  <2>1. x = recvRX_RD + (i - 1) /\ x \in Int /\ i - 1 \in 0 .. Unread - 1
    BY <1>1
  <2>2. After(RxBuffer, recvRX_RD, i - 1) = x % RxBuffer
    <3>. HIDE DEF x
    <3>. QED BY <2>1 DEF After
  <2>3. x % RxBuffer \in 0 .. RxBuffer - 1
    <3>. HIDE DEF x
    <3>. QED BY <1>1, <2>1, DivMod
  <2>4. Left[i - 1] = recvRing[x % RxBuffer]
    <3>. HIDE DEF x
    <3>. QED BY <2>1, <2>2 DEF Left
  <2>. HIDE DEF x
  <2>5. recvRing[x % RxBuffer] \in StreamByte
    BY <1>1, <2>3
  <2>. QED BY <2>4, <2>5 DEF x
<1>. DEFINE b == Receive!BytesAt(recvRX_RD, n)
<1>3. b = [i \in 1 .. n |-> recvRing[(recvRX_RD + i - 1) % RxBuffer]]
  BY DEF Receive!BytesAt
<1>. HIDE DEF b
<1>4. b \in [1 .. n -> StreamByte] /\ \A i \in 1 .. n : b[i] = Left[i - 1]
  BY <1>2, <1>3
<1>5. b \in Seq(StreamByte)
  BY <1>1, <1>4
<1>6. Len(b) = n
  BY <1>1, <1>3
<1>. QED BY <1>2, <1>4, <1>5, <1>6 DEF b

LEMMA TakeFrom ==
  ASSUME Receive!Buffers, RecvInv, NEW n \in 1 .. Unread, NEW left \in 0 .. Unread - n, Receive!Take(n, left)
  PROVE  /\ PointersInv' /\ Unread' = Unread - n /\ Left' = Beyond(Left, Unread, n)
         /\ recvRing' = recvRing /\ Unread \in Nat
<1>1. PointersInv
  BY DEF RecvInv
<1>2. Unread \in Nat
  BY <1>1, ReceiveSizes DEF PointersInv, Unread
<1>. QED BY <1>1, <1>2, TakeBytes

LEMMA ClientReadKeeps == ASSUME Receive!Buffers, RecvInv, NEW len \in ReadSizes, Receive!ClientRead(len) PROVE RecvInv'
<1>. DEFINE n == Receive!Recvd(len)
            b == Receive!BytesAt(recvRX_RD, n)
            u == Unread
            l == Len(recvGot)
<1>1. len \in Nat \ {0}
  BY ReadsTake
<1>2. recvKind = "tcp" /\ n > 0 /\ Receive!Take(n, Receive!Known(len) - n) /\ recvGot' = recvGot \o b
      /\ UNCHANGED <<recvKind, recvSent, recvRemaining, recvParsing, recvHeads>>
  BY DEF Receive!ClientRead
<1>3. n \in 1 .. u /\ Receive!Known(len) - n \in 0 .. u - n
  BY <1>1, <1>2, Reading
<1>4. b \in Seq(StreamByte) /\ Len(b) = n /\ \A i \in 1 .. n : b[i] = Left[i - 1]
  <2>. HIDE DEF n
  <2>. QED BY <1>3, ReadStretch
<1>5. /\ PointersInv' /\ Unread' = u - n /\ Left' = Beyond(Left, u, n) /\ recvRing' = recvRing /\ u \in Nat
  <2>. HIDE DEF n
  <2>. QED BY <1>2, <1>3, TakeFrom
<1>6. recvGot \in Seq(StreamByte) /\ l \in Nat
  BY DEF RecvInv, RecvType
<1>. HIDE DEF n, b, u, l
<1>7. /\ recvGot' \in Seq(StreamByte) /\ Len(recvGot') = l + n
      /\ \A i \in 1 .. l : recvGot'[i] = recvGot[i]
      /\ \A i \in 1 .. n : recvGot'[l + i] = Left[i - 1]
  <2>4. b \in Seq(StreamByte)
    BY <1>4
  <2>5. recvGot \o b \in Seq(StreamByte)
    BY <2>4, <1>6
  <2>1. Len(recvGot \o b) = Len(recvGot) + Len(b)
    BY <2>4, <1>6
  <2>2. \A i \in 1 .. Len(recvGot) : (recvGot \o b)[i] = recvGot[i]
    BY <1>4, <1>6
  <2>3. \A i \in 1 .. Len(b) : (recvGot \o b)[Len(recvGot) + i] = b[i]
    BY <1>4, <1>6
  <2>. QED BY <1>2, <1>4, <2>1, <2>2, <2>3, <2>5 DEF l
<1>8. RecvType'
  BY <1>2, <1>5, <1>7 DEF RecvInv, RecvType
<1>9. /\ ~recvParsing /\ l + u = recvSent
      /\ \A i \in 1 .. l : recvGot[i] = <<0, i>>
      /\ \A k \in 0 .. u - 1 : Left[k] = <<0, l + 1 + k>>
  BY <1>2 DEF RecvInv, TcpInv, l, u
<1>10. \A i \in 1 .. l + n : recvGot'[i] = <<0, i>>
  <2>1. ASSUME NEW i \in 1 .. l + n PROVE recvGot'[i] = <<0, i>>
    <3>1. CASE i <= l
      <4>1. i \in 1 .. l
        BY <1>6, <3>1
      <4>. QED BY <1>7, <1>9, <4>1
    <3>2. CASE ~(i <= l)
      <4>. DEFINE j == i - l
      <4>1. j \in 1 .. n /\ l + j = i /\ j - 1 \in 0 .. u - 1 /\ l + 1 + (j - 1) = i
        BY <1>3, <1>5, <1>6, <3>2
      <4>. HIDE DEF j
      <4>. QED BY <1>7, <1>9, <4>1
    <3>. QED BY <3>1, <3>2
  <2>. QED BY <2>1
<1>11. \A k \in 0 .. u - n - 1 : Left'[k] = <<0, (l + n) + 1 + k>>
  <2>1. ASSUME NEW k \in 0 .. u - n - 1 PROVE Left'[k] = <<0, (l + n) + 1 + k>>
    <3>1. n + k \in 0 .. u - 1 /\ l + 1 + (n + k) = (l + n) + 1 + k
      BY <1>3, <1>5, <1>6
    <3>2. Left'[k] = Left[n + k]
      BY <1>5 DEF Beyond
    <3>. QED BY <1>9, <3>1, <3>2
  <2>. QED BY <2>1
<1>12. TcpInv'
  <2>1. (l + n) + (u - n) = l + u
    BY <1>3, <1>5, <1>6
  <2>2. ~recvParsing' /\ Len(recvGot') + Unread' = recvSent'
    BY <1>2, <1>5, <1>7, <1>9, <2>1
  <2>3. \A i \in 1 .. Len(recvGot') : recvGot'[i] = <<0, i>>
    BY <1>7, <1>10
  <2>4. \A k \in 0 .. Unread' - 1 : Left'[k] = <<0, Len(recvGot') + 1 + k>>
    <3>1. Unread' - 1 = u - n - 1
      BY <1>5
    <3>. QED BY <1>7, <1>11, <3>1
  <2>. QED BY <2>2, <2>3, <2>4 DEF TcpInv
<1>13. UdpInv'
  BY <1>2 DEF UdpInv
<1>. QED BY <1>5, <1>8, <1>12, <1>13 DEF RecvInv

\* What has no influence on the ring.
LEMMA OthersKeep ==
  ASSUME Receive!Buffers, RecvInv, Receive!ClientAvailable \/ Receive!ParsePacket \/ Receive!NoPacket \/ UNCHANGED Receive!vars PROVE RecvInv'
<1>1. UNCHANGED <<recvKind, recvSent, recvRing, recvWr, recvRxRd, recvRsr, recvRX_RD, recvRX_inc, recvRemaining, recvGot, recvHeads>>
  BY DEF Receive!ClientAvailable, Receive!ParsePacket, Receive!NoPacket, Receive!vars, Receive!chip, Receive!driver
<1>2. recvRX_RSR' \in Nat /\ recvRX_RSR' <= Unread /\ Unread \in Nat
  BY ReceiveSizes DEF Receive!ClientAvailable, Receive!ParsePacket, Receive!NoPacket, Receive!vars, Receive!chip, Receive!driver, Receive!Available, Receive!Pending, RecvInv, PointersInv, Unread
<1>3. Unread' = Unread /\ Left' = Left
  BY <1>1 DEF Unread, Left
<1>4. PointersInv'
  <2>1. recvRX_inc + recvRX_RSR' <= recvRsr
    <3>1. recvRsr \in Int /\ recvRX_inc \in Int
      BY ReceiveSizes DEF RecvInv, PointersInv
    <3>2. recvRX_RSR' <= recvRsr - recvRX_inc
      BY <1>2 DEF Unread
    <3>3. recvRX_RSR' \in Int
      BY <1>2
    <3>4. \A a, b, c \in Int : a <= b - c => c + a <= b
      OBVIOUS
    <3>. QED BY <3>1, <3>2, <3>3, <3>4
  <2>. QED BY <1>1, <1>2, <1>3, <2>1 DEF RecvInv, PointersInv
<1>5. RecvType'
  <2>1. recvParsing' \in BOOLEAN
    BY DEF Receive!ClientAvailable, Receive!ParsePacket, Receive!NoPacket, Receive!vars, RecvInv, RecvType
  <2>. QED BY <1>1, <2>1 DEF RecvInv, RecvType
<1>6. TcpInv'
  <2>1. recvKind = "tcp" => ~recvParsing'
    BY DEF Receive!ClientAvailable, Receive!ParsePacket, Receive!NoPacket, Receive!vars, RecvInv, TcpInv
  <2>. QED BY <1>1, <1>3, <2>1 DEF RecvInv, TcpInv
<1>7. UdpInv'
  BY <1>1, <1>3 DEF RecvInv, UdpInv
<1>. QED BY <1>4, <1>5, <1>6, <1>7 DEF RecvInv

LEMMA ReopenKeeps == ASSUME Receive!Buffers, RecvInv, Receive!Reopen PROVE RecvInv'
<1>1. /\ recvKind = "udp" /\ recvWr' = 0 /\ recvRxRd' = 0 /\ recvRsr' = 0 /\ recvRX_RD' = 0 /\ recvRX_RSR' = 0 /\ recvRX_inc' = 0
      /\ recvRemaining' = 0 /\ UNCHANGED <<recvKind, recvSent, recvRing, recvParsing, recvGot, recvHeads>>
  BY DEF Receive!Reopen
<1>2. Unread' = 0
  BY <1>1 DEF Unread
<1>3. PointersInv'
  <2>1. RxBuffer \in Nat \ {0} /\ RxPointers \in Nat \ {0}
    BY ReceiveSizes
  <2>2. Ahead(RxPointers, 0, 0) = 0
    BY <2>1, AheadIs
  <2>. QED BY <1>1, <1>2, <2>1, <2>2 DEF PointersInv
<1>4. RecvType' /\ TcpInv'
  BY <1>1 DEF RecvInv, RecvType, TcpInv
<1>5. UdpInv'
  <2>1. Packets(Left, Unread, recvSent, recvRemaining) /\ GivenSoFar(recvGot, Left, Unread, recvSent, recvRemaining)
        /\ \A h \in 1 .. Len(recvHeads) : recvHeads[h] = Receive!Bytes(recvHeads[h][1][1], 1 - Header, 0)
    BY <1>1 DEF RecvInv, UdpInv
  <2>2. Packets(Left', 0, recvSent, 0)
    <3>1. recvSent <= Len(Datagrams)
      BY <2>1 DEF Packets
    <3>. QED BY <3>1 DEF Packets, InTurn
  <2>3. GivenSoFar(recvGot, Left', 0, recvSent, 0)
    BY <2>1 DEF GivenSoFar
  <2>. QED BY <1>1, <1>2, <2>1, <2>2, <2>3 DEF UdpInv
<1>. QED BY <1>3, <1>4, <1>5 DEF RecvInv

LEMMA DiscardKeeps == ASSUME Receive!Buffers, RecvInv, Receive!Discard PROVE RecvInv'
<1>. DEFINE n == Receive!Recvd(recvRemaining)
            u == Unread
<1>1. /\ recvParsing /\ recvRemaining > 0 /\ n > 0 /\ Receive!Take(n, Receive!Known(recvRemaining) - n) /\ recvRemaining' = recvRemaining - n
      /\ UNCHANGED <<recvKind, recvSent, recvParsing, recvGot, recvHeads>>
  BY DEF Receive!Discard, Receive!MustDiscard
<1>2. recvKind = "udp" /\ recvRemaining \in Nat \ {0} /\ recvSent \in Nat /\ recvGot \in Seq(StreamByte)
  BY <1>1 DEF RecvInv, TcpInv, RecvType
<1>3. /\ Packets(Left, u, recvSent, recvRemaining) /\ GivenSoFar(recvGot, Left, u, recvSent, recvRemaining)
      /\ \A h \in 1 .. Len(recvHeads) : recvHeads[h] = Receive!Bytes(recvHeads[h][1][1], 1 - Header, 0)
  BY <1>2 DEF RecvInv, UdpInv
<1>4. n = recvRemaining /\ n \in 1 .. u /\ Receive!Known(recvRemaining) - n \in 0 .. u - n
  <2>1. recvRemaining <= u
    BY <1>3 DEF Packets
  <2>. QED BY <1>1, <1>2, <2>1, Reading
<1>5. /\ PointersInv' /\ Unread' = u - n /\ Left' = Beyond(Left, u, n) /\ recvRing' = recvRing /\ u \in Nat
  <2>. HIDE DEF n
  <2>. QED BY <1>1, <1>4, TakeFrom
<1>. HIDE DEF n, u
<1>6. recvRemaining' = 0 /\ recvRemaining - n = 0 /\ n \in 1 .. recvRemaining
  BY <1>1, <1>2, <1>4
<1>7. Packets(Left', u - n, recvSent, 0)
  <2>1. Packets(Beyond(Left, u, n), u - n, recvSent, recvRemaining - n)
    BY <1>2, <1>3, <1>5, <1>6, RestTaken
  <2>. QED BY <1>5, <1>6, <2>1
<1>8. GivenSoFar(recvGot, Left', u - n, recvSent, 0)
  BY <1>2, <1>3, <1>4, <1>5, GivenDropped
<1>9. UdpInv'
  BY <1>1, <1>3, <1>5, <1>6, <1>7, <1>8 DEF UdpInv
<1>10. RecvType' /\ TcpInv'
  BY <1>1, <1>2, <1>5, <1>6 DEF RecvInv, RecvType, TcpInv
<1>. QED BY <1>5, <1>9, <1>10 DEF RecvInv

LEMMA PacketReadKeeps == ASSUME Receive!Buffers, RecvInv, NEW len \in ReadSizes, Receive!PacketRead(len) PROVE RecvInv'
<1>. DEFINE m == Receive!Least(recvRemaining, len)
            n == Receive!Recvd(m)
            b == Receive!BytesAt(recvRX_RD, n)
            u == Unread
<1>1. /\ recvKind = "udp" /\ recvRemaining > 0 /\ n > 0 /\ Receive!Take(n, Receive!Known(m) - n) /\ recvRemaining' = recvRemaining - n
      /\ recvGot' = recvGot \o b /\ UNCHANGED <<recvKind, recvSent, recvParsing, recvHeads>>
  BY DEF Receive!PacketRead
<1>2. recvRemaining \in Nat \ {0} /\ recvSent \in Nat /\ recvGot \in Seq(StreamByte) /\ len \in Nat \ {0}
  BY ReadsTake, <1>1 DEF RecvInv, RecvType
<1>3. /\ Packets(Left, u, recvSent, recvRemaining) /\ GivenSoFar(recvGot, Left, u, recvSent, recvRemaining)
      /\ \A h \in 1 .. Len(recvHeads) : recvHeads[h] = Receive!Bytes(recvHeads[h][1][1], 1 - Header, 0)
  BY <1>1 DEF RecvInv, UdpInv
<1>4. m \in Nat \ {0} /\ m <= recvRemaining
  BY <1>2 DEF Receive!Least
<1>. HIDE DEF m
<1>5. n \in 1 .. u /\ n <= m /\ Receive!Known(m) - n \in 0 .. u - n
  BY <1>1, <1>4, Reading
<1>6. /\ PointersInv' /\ Unread' = u - n /\ Left' = Beyond(Left, u, n) /\ recvRing' = recvRing /\ u \in Nat
  <2>. HIDE DEF n
  <2>. QED BY <1>1, <1>5, TakeFrom
<1>7. b \in Seq(StreamByte) /\ Len(b) = n /\ \A i \in 1 .. n : b[i] = Left[i - 1]
  <2>. HIDE DEF n
  <2>. QED BY <1>5, ReadStretch
<1>. HIDE DEF n, u, b
<1>8. n \in 1 .. recvRemaining /\ recvRemaining' \in Nat
  BY <1>1, <1>2, <1>4, <1>5, <1>6
<1>9. Packets(Left', u - n, recvSent, recvRemaining')
  <2>1. Packets(Beyond(Left, u, n), u - n, recvSent, recvRemaining - n)
    BY <1>2, <1>3, <1>6, <1>8, RestTaken
  <2>. QED BY <1>1, <1>6, <2>1
<1>10. GivenSoFar(recvGot', Left', u - n, recvSent, recvRemaining')
  <2>1. GivenSoFar(recvGot \o b, Beyond(Left, u, n), u - n, recvSent, recvRemaining - n)
    BY <1>2, <1>3, <1>6, <1>7, <1>8, GivenTaken
  <2>. QED BY <1>1, <1>6, <2>1
<1>11. UdpInv'
  BY <1>1, <1>3, <1>6, <1>9, <1>10 DEF UdpInv
<1>12. recvGot' \in Seq(StreamByte)
  <2>1. b \in Seq(StreamByte)
    BY <1>7
  <2>. QED BY <1>1, <1>2, <2>1
<1>13. RecvType' /\ TcpInv'
  BY <1>1, <1>2, <1>6, <1>8, <1>12 DEF RecvInv, RecvType, TcpInv
<1>. QED BY <1>6, <1>11, <1>13 DEF RecvInv

LEMMA ReadHeadKeeps == ASSUME Receive!Buffers, RecvInv, Receive!ReadHead PROVE RecvInv'
<1>. DEFINE known == IF Receive!Available < Header THEN Receive!Pending ELSE Receive!Available
            n == Receive!Least(known, Header)
            b == Receive!BytesAt(recvRX_RD, n)
            u == Unread
            d == Left[0][1]
<1>1. /\ recvParsing /\ ~(recvRemaining > 0) /\ Receive!Available > 0 /\ Receive!Take(n, known - n)
      /\ recvHeads' = Append(recvHeads, b) /\ recvRemaining' = Receive!LengthIn(b[1]) /\ recvParsing' = FALSE
      /\ UNCHANGED <<recvKind, recvSent, recvGot>>
  BY DEF Receive!ReadHead, Receive!MustDiscard
<1>2. recvKind = "udp" /\ recvRemaining = 0 /\ recvSent \in Nat /\ recvGot \in Seq(StreamByte) /\ recvHeads \in Seq(Seq(StreamByte))
      /\ Header \in Nat \ {0}
  BY ReceiveSizes, <1>1 DEF RecvInv, TcpInv, RecvType
<1>3. /\ Packets(Left, u, recvSent, 0) /\ GivenSoFar(recvGot, Left, u, recvSent, 0)
      /\ \A h \in 1 .. Len(recvHeads) : recvHeads[h] = Receive!Bytes(recvHeads[h][1][1], 1 - Header, 0)
  BY <1>2 DEF RecvInv, UdpInv
<1>4. Receive!Available \in Nat /\ Receive!Available <= u /\ u \in Nat /\ Receive!Pending = u
  BY ReceiveSizes DEF RecvInv, PointersInv, Unread, Receive!Pending, Receive!Available
<1>5. u > 0
  <2>. HIDE DEF u
  <2>. QED BY <1>1, <1>4
<1>6. /\ d \in 1 .. recvSent /\ Header <= u
      /\ \A j \in 0 .. Header - 1 : Left[j] = <<d, 1 - Header + j>>
      /\ Packets(Beyond(Left, u, Header), u - Header, recvSent, Datagrams[d])
  <2>. HIDE DEF u
  <2>. QED BY <1>2, <1>3, <1>4, <1>5, HeadTaken
<1>7. n = Header /\ known - n \in 0 .. u - n /\ n \in 1 .. u
  <2>. HIDE DEF u
  <2>1. known \in Nat /\ Header <= known /\ known <= u
    BY <1>2, <1>4, <1>6
  <2>. HIDE DEF known
  <2>2. n = Header
    BY <1>2, <2>1 DEF Receive!Least
  <2>. HIDE DEF n
  <2>. QED BY <1>2, <1>4, <2>1, <2>2
<1>8. /\ PointersInv' /\ Unread' = u - n /\ Left' = Beyond(Left, u, n) /\ recvRing' = recvRing
  <2>. HIDE DEF n, known
  <2>. QED BY <1>1, <1>7, TakeFrom
<1>9. b \in Seq(StreamByte) /\ Len(b) = n /\ \A i \in 1 .. n : b[i] = Left[i - 1]
  <2>. HIDE DEF n
  <2>. QED BY <1>7, ReadStretch
<1>10. GivenSoFar(recvGot, Beyond(Left, u, Header), u - Header, recvSent, Datagrams[d])
  <2>. HIDE DEF u
  <2>. QED BY <1>2, <1>3, <1>4, <1>5, GivenHead
<1>. HIDE DEF known, n, b, u, d
<1>11. \A i \in 1 .. Header : b[i] = <<d, i - Header>>
  <2>1. ASSUME NEW i \in 1 .. Header PROVE b[i] = <<d, i - Header>>
    <3>1. i - 1 \in 0 .. Header - 1 /\ 1 - Header + (i - 1) = i - Header /\ i \in 1 .. n
      BY <1>2, <1>7
    <3>. QED BY <1>6, <1>9, <3>1
  <2>. QED BY <2>1
<1>12. b[1][1] = d /\ d # 0 /\ Receive!LengthIn(b[1]) = Datagrams[d] /\ Datagrams[d] \in Nat
  <2>1. 1 \in 1 .. Header
    BY <1>2
  <2>2. b[1][1] = d
    BY <1>11, <2>1
  <2>3. d # 0
    BY <1>6
  <2>4. Datagrams[d] \in Nat
    <3>1. recvSent <= Len(Datagrams)
      BY <1>3 DEF Packets
    <3>. QED BY DatagramsAre, <1>2, <1>6, <3>1
  <2>. QED BY <2>2, <2>3, <2>4 DEF Receive!LengthIn
<1>13. b = Receive!Bytes(b[1][1], 1 - Header, 0)
  <2>1. 0 - (1 - Header) + 1 = Header
    BY <1>2
  <2>2. Receive!Bytes(d, 1 - Header, 0) = [i \in 1 .. Header |-> <<d, 1 - Header + i - 1>>]
    BY <2>1 DEF Receive!Bytes
  <2>3. b = [i \in 1 .. Header |-> b[i]]
    BY <1>7, <1>9
  <2>4. \A i \in 1 .. Header : 1 - Header + i - 1 = i - Header
    BY <1>2
  <2>. QED BY <1>11, <1>12, <2>2, <2>3, <2>4
<1>14. /\ recvHeads' \in Seq(Seq(StreamByte)) /\ Len(recvHeads') = Len(recvHeads) + 1 /\ recvHeads'[Len(recvHeads) + 1] = b
       /\ \A h \in 1 .. Len(recvHeads) : recvHeads'[h] = recvHeads[h]
  BY <1>1, <1>2, <1>9
<1>15. \A h \in 1 .. Len(recvHeads') : recvHeads'[h] = Receive!Bytes(recvHeads'[h][1][1], 1 - Header, 0)
  <2>1. ASSUME NEW h \in 1 .. Len(recvHeads') PROVE recvHeads'[h] = Receive!Bytes(recvHeads'[h][1][1], 1 - Header, 0)
    <3>1. h \in 1 .. Len(recvHeads) \/ h = Len(recvHeads) + 1
      BY <1>2, <1>14
    <3>2. CASE h \in 1 .. Len(recvHeads)
      BY <1>3, <1>14, <3>2
    <3>3. CASE h = Len(recvHeads) + 1
      BY <1>13, <1>14, <3>3
    <3>. QED BY <3>1, <3>2, <3>3
  <2>. QED BY <2>1
<1>16. UdpInv'
  <2>1. Packets(Left', Unread', recvSent', recvRemaining') /\ GivenSoFar(recvGot', Left', Unread', recvSent', recvRemaining')
    BY <1>1, <1>6, <1>7, <1>8, <1>10, <1>12
  <2>. QED BY <1>15, <2>1 DEF UdpInv
<1>17. RecvType' /\ TcpInv'
  BY <1>1, <1>2, <1>8, <1>12, <1>14 DEF RecvInv, RecvType, TcpInv
<1>. QED BY <1>8, <1>16, <1>17 DEF RecvInv

LEMMA RecvStays == ASSUME Receive!Buffers, RecvInv, [Receive!Next]_(Receive!vars) PROVE RecvInv'
BY SegmentKeeps, DatagramKeeps, ClientReadKeeps, OthersKeep, ReopenKeeps, DiscardKeeps, PacketReadKeeps,
   ReadHeadKeeps DEF Receive!Next, Receive!Peer, Receive!Application

LEMMA RecvGives == ASSUME Receive!Buffers, RecvInv PROVE Receive!CountsAgree /\ Receive!StreamInOrder /\ Receive!HeadersAreHeads
<1>1. Receive!CountsAgree
  <2>. DEFINE x == recvRX_RD - recvRX_inc - recvRxRd
  <2>1. recvRX_inc + recvRX_RSR <= recvRsr
    BY DEF RecvInv, PointersInv
  <2>2. RxPointers \in Nat \ {0} /\ recvRX_RD \in 0 .. RxPointers - 1 /\ recvRxRd \in 0 .. RxPointers - 1
        /\ recvRX_inc = Ahead(RxPointers, recvRxRd, recvRX_RD)
    BY ReceiveSizes DEF RecvInv, PointersInv
  <2>3. x \in Int /\ (x = 0 \/ x = -RxPointers)
    <3>1. recvRX_inc \in Nat /\ recvRX_RD \in {recvRxRd + recvRX_inc, recvRxRd + recvRX_inc - RxPointers}
      BY <2>2, AheadIs
    <3>. QED BY <2>2, <3>1
  <2>. HIDE DEF x
  <2>4. x % RxPointers = 0
    <3>1. x >= -RxPointers /\ x < RxPointers
      BY <2>2, <2>3
    <3>2. x % RxPointers = IF x < 0 THEN x + RxPointers ELSE x
      BY <2>2, <2>3, <3>1, ModBelow
    <3>. QED BY <2>2, <2>3, <3>2
  <2>. QED BY <2>1, <2>4 DEF Receive!CountsAgree, x
<1>2. Receive!StreamInOrder
  <2>1. ASSUME recvKind = "tcp", recvRX_RSR > 0 PROVE recvRing[recvRX_RD % RxBuffer] = <<0, Len(recvGot) + 1>>
    <3>1. 0 \in 0 .. Unread - 1 /\ recvRX_RD + 0 = recvRX_RD /\ Len(recvGot) + 1 + 0 = Len(recvGot) + 1
      BY ReceiveSizes, <2>1 DEF RecvInv, PointersInv, Unread, RecvType
    <3>2. Left[0] = <<0, Len(recvGot) + 1 + 0>>
      BY <2>1, <3>1 DEF RecvInv, TcpInv
    <3>3. Left[0] = recvRing[After(RxBuffer, recvRX_RD, 0)]
      BY <3>1 DEF Left
    <3>. QED BY <3>1, <3>2, <3>3 DEF After
  <2>2. ASSUME recvKind = "tcp" PROVE \A i \in DOMAIN recvGot : recvGot[i] = <<0, i>>
    <3>1. DOMAIN recvGot = 1 .. Len(recvGot)
      BY DEF RecvInv, RecvType
    <3>2. \A i \in 1 .. Len(recvGot) : recvGot[i] = <<0, i>>
      BY <2>2 DEF RecvInv, TcpInv
    <3>. QED BY <3>1, <3>2
  <2>. QED BY <2>1, <2>2 DEF Receive!StreamInOrder
<1>3. Receive!HeadersAreHeads
  <2>1. ASSUME recvKind = "udp"
        PROVE  /\ \A h \in DOMAIN recvHeads : recvHeads[h] = Receive!Bytes(recvHeads[h][1][1], 1 - Header, 0)
               /\ \A i \in 2 .. Len(recvGot) :
                    \/ recvGot[i][1] = recvGot[i - 1][1] /\ recvGot[i][2] = recvGot[i - 1][2] + 1
                    \/ recvGot[i][1] > recvGot[i - 1][1] /\ recvGot[i][2] = 1
    <3>1. DOMAIN recvHeads = 1 .. Len(recvHeads)
      BY DEF RecvInv, RecvType
    <3>2. \A h \in 1 .. Len(recvHeads) : recvHeads[h] = Receive!Bytes(recvHeads[h][1][1], 1 - Header, 0)
      BY <2>1 DEF RecvInv, UdpInv
    <3>3. \A i \in 2 .. Len(recvGot) : FollowsOn(recvGot[i - 1], recvGot[i])
      BY <2>1 DEF RecvInv, UdpInv, GivenSoFar
    <3>. QED BY <3>1, <3>2, <3>3 DEF FollowsOn
  <2>. QED BY <2>1 DEF Receive!HeadersAreHeads
<1>. QED BY <1>1, <1>2, <1>3

-----------------------------------------------------------------------------
(* HttpGet: the answer of a node, read through its header into a buffer *)

getAnswer    == x1
getArrived   == x2
getGot       == x3
getConnected == x4
getStage     == x5
getCrlf      == x6
getOut       == x7
getClock     == x8
getDeadline  == x9
getResult    == x10
getUnwatched == x11

USE DEF getAnswer, getArrived, getGot, getConnected, getStage, getCrlf, getOut, getClock,
        getDeadline, getResult, getUnwatched

\* Every header is lines of three bytes and an empty one.
HeadLen(n) == 3 * n + 2
HeadByte(n, i) == IF i % 3 = 1 /\ i <= 3 * n THEN "x" ELSE IF (i % 3 = 2) = (i <= 3 * n) THEN "r" ELSE "n"

\* The header of an answer, byte by byte.
LEMMA HeadIs ==
  ASSUME NEW n \in Nat \ {0}
  PROVE  /\ Get!HeadOf(n) \in Seq({"x", "r", "n"}) /\ Len(Get!HeadOf(n)) = 3 * n + 2
         /\ \A i \in 1 .. 3 * n + 2 : Get!HeadOf(n)[i] = HeadByte(n, i)
<1>. DEFINE Syms == {"x", "r", "n"}
            xrn == <<"x", "r", "n">>
            s == [i \in 1 .. n |-> xrn]
<1>1. xrn \in Seq(Syms) /\ Len(xrn) = 3 /\ xrn[1] = "x" /\ xrn[2] = "r" /\ xrn[3] = "n"
  OBVIOUS
<1>2. <<"r", "n">> \in Seq(Syms) /\ Len(<<"r", "n">>) = 2
  OBVIOUS
<1>. HIDE DEF xrn
<1>3. s \in Seq(Seq(Syms)) /\ Len(s) = n /\ \A i \in 1 .. n : s[i] = xrn
  <2>. HIDE DEF Syms
  <2>. QED BY <1>1
<1>4. Get!HeadOf(n) = Behind(<<"r", "n">>, Get!FlattenSeq(s))
  BY DEF Get!HeadOf, Behind, xrn
<1>. HIDE DEF s, Syms
<1>0. \A g, u \in Seq(Syms) :
        /\ Len(Behind(u, g)) = Len(g) + Len(u)
        /\ \A i \in 1 .. Len(g) : Behind(u, g)[i] = g[i]
        /\ \A i \in 1 .. Len(u) : Behind(u, g)[Len(g) + i] = u[i]
  BY BehindIs
<1>5. PICK f \in [1 .. n -> Seq(Syms)] : Chains(f, s) /\ Get!FlattenSeq(s) = f[n]
  <2>1. Len(s) > 0
    BY <1>3
  <2>2. \E f \in [1 .. Len(s) -> Seq(Syms)] : Chains(f, s) /\ Get!FlattenSeq(s) = f[Len(s)] /\ Request!FlattenSeq(s) = f[Len(s)]
    BY <1>3, <2>1, Flattened
  <2>. QED BY <1>3, <2>2
<1>6. \A i \in 1 .. n : f[i] \in Seq(Syms) /\ f[i] = IF i = 1 THEN xrn ELSE Behind(xrn, f[i - 1])
  BY <1>3, <1>5 DEF Chains
<1>. DEFINE Right(k) == Len(f[k]) = 3 * k /\ \A i \in 1 .. 3 * k : f[k][i] = HeadByte(n, i)
            Bad == {k \in 1 .. n : ~Right(k)}
<1>7. Bad = {}
  <2>. SUFFICES ASSUME Bad # {} PROVE FALSE
    OBVIOUS
  <2>. Bad \in SUBSET Nat
    OBVIOUS
  <2>. HIDE DEF Bad
  <2>1. PICK k \in Bad : \A m \in Bad : k <= m
    BY HasLeast
  <2>. HIDE DEF Right
  <2>2. k \in 1 .. n /\ ~Right(k) /\ (k > 1 => k - 1 \in 1 .. n /\ Right(k - 1))
    BY <2>1 DEF Bad
  <2>3. CASE k = 1
    <3>1. f[k] = xrn
      BY <1>6, <2>2, <2>3
    <3>2. HeadByte(n, 1) = "x" /\ HeadByte(n, 2) = "r" /\ HeadByte(n, 3) = "n"
      BY DEF HeadByte
    <3>. QED BY <1>1, <2>2, <2>3, <3>1, <3>2 DEF Right
  <2>4. CASE k > 1
    <3>1. f[k] = Behind(xrn, f[k - 1]) /\ f[k - 1] \in Seq(Syms)
      BY <1>6, <2>2, <2>4
    <3>2. Len(f[k - 1]) = 3 * k - 3 /\ \A i \in 1 .. 3 * k - 3 : f[k - 1][i] = HeadByte(n, i)
      <4>1. 3 * (k - 1) = 3 * k - 3
        BY <2>2
      <4>. QED BY <2>2, <2>4, <4>1 DEF Right
    <3>3. /\ Len(f[k]) = 3 * k /\ \A i \in 1 .. 3 * k - 3 : f[k][i] = HeadByte(n, i)
          /\ f[k][3 * k - 3 + 1] = "x" /\ f[k][3 * k - 3 + 2] = "r" /\ f[k][3 * k - 3 + 3] = "n"
      <4>. DEFINE g == f[k - 1]
                  u == xrn
                  t == f[k]
      <4>1. g \in Seq(Syms) /\ u \in Seq(Syms) /\ t = Behind(u, g)
        BY <1>1, <3>1
      <4>2. Len(g) = 3 * k - 3 /\ \A i \in 1 .. 3 * k - 3 : g[i] = HeadByte(n, i)
        BY <3>2
      <4>3. Len(u) = 3 /\ u[1] = "x" /\ u[2] = "r" /\ u[3] = "n"
        BY <1>1
      <4>. HIDE DEF g, u, t
      <4>4. /\ Len(Behind(u, g)) = Len(g) + Len(u)
            /\ \A i \in 1 .. Len(g) : Behind(u, g)[i] = g[i]
            /\ \A i \in 1 .. Len(u) : Behind(u, g)[Len(g) + i] = u[i]
        BY <1>0, <4>1
      <4>5. /\ Len(t) = 3 * k - 3 + 3
            /\ \A i \in 1 .. 3 * k - 3 : t[i] = HeadByte(n, i)
            /\ \A i \in 1 .. 3 : t[3 * k - 3 + i] = u[i]
        BY <4>1, <4>2, <4>3, <4>4
      <4>. QED BY <2>2, <4>3, <4>5 DEF t
    <3>4. HeadByte(n, 3 * k - 2) = "x" /\ HeadByte(n, 3 * k - 1) = "r" /\ HeadByte(n, 3 * k) = "n"
      BY <2>2 DEF HeadByte
    <3>5. \A i \in 1 .. 3 * k : i \in 1 .. 3 * k - 3 \/ i \in {3 * k - 2, 3 * k - 1, 3 * k}
      BY <2>2
    <3>6. 3 * k - 3 + 1 = 3 * k - 2 /\ 3 * k - 3 + 2 = 3 * k - 1 /\ 3 * k - 3 + 3 = 3 * k
      BY <2>2
    <3>7. \A i \in 1 .. 3 * k : f[k][i] = HeadByte(n, i)
      BY <3>3, <3>4, <3>5, <3>6
    <3>. QED BY <2>2, <3>3, <3>7 DEF Right
  <2>. QED BY <2>2, <2>3, <2>4
<1>8. Get!FlattenSeq(s) \in Seq(Syms) /\ Right(n)
  <2>1. n \in 1 .. n
    OBVIOUS
  <2>2. f[n] \in Seq(Syms) /\ Get!FlattenSeq(s) = f[n]
    BY <1>5, <2>1
  <2>3. n \notin Bad
    BY <1>7
  <2>. QED BY <2>1, <2>2, <2>3
<1>. DEFINE h == Get!HeadOf(n)
<1>9. /\ h \in Seq(Syms) /\ Len(h) = 3 * n + 2
      /\ \A i \in 1 .. 3 * n : h[i] = HeadByte(n, i)
      /\ h[3 * n + 1] = "r" /\ h[3 * n + 2] = "n"
  <2>. DEFINE g == f[n]
              rn == <<"r", "n">>
  <2>1. g \in Seq(Syms) /\ rn \in Seq(Syms) /\ Len(rn) = 2 /\ rn[1] = "r" /\ rn[2] = "n" /\ h = Behind(rn, g)
    BY <1>2, <1>4, <1>5, <1>8
  <2>2. Len(g) = 3 * n /\ \A i \in 1 .. 3 * n : g[i] = HeadByte(n, i)
    BY <1>8
  <2>. HIDE DEF g, h, rn
  <2>3. /\ Len(h) = Len(g) + Len(rn)
        /\ \A i \in 1 .. Len(g) : h[i] = g[i]
        /\ \A i \in 1 .. Len(rn) : h[Len(g) + i] = rn[i]
    <3>1. g \in Seq(Syms) /\ rn \in Seq(Syms) /\ h = Behind(rn, g)
      BY <2>1
    <3>. QED BY <3>1, BehindIs
  <2>4. h \in Seq(Syms)
    BY <2>1, BehindIs
  <2>. QED BY <2>1, <2>2, <2>3, <2>4
<1>. HIDE DEF h
<1>10. HeadByte(n, 3 * n + 1) = "r" /\ HeadByte(n, 3 * n + 2) = "n"
  BY DEF HeadByte
<1>11. \A i \in 1 .. 3 * n + 2 : i \in 1 .. 3 * n \/ i = 3 * n + 1 \/ i = 3 * n + 2
  OBVIOUS
<1>. QED BY <1>9, <1>10, <1>11 DEF h, Syms

\* The state of the search for the empty line after so many bytes of the header.
CrlfAt(n, i) == IF i = 0 THEN 0 ELSE IF i = 3 * n + 1 THEN 3 ELSE
                IF i % 3 = 1 THEN 0 ELSE IF i % 3 = 2 THEN 1 ELSE 2

\* httpGet's search for the empty line finds it at its end and not before.
LEMMA CrlfStep ==
  ASSUME NEW n \in Nat \ {0}, NEW i \in 0 .. 3 * n + 1, getCrlf = CrlfAt(n, i)
  PROVE  Get!Step(HeadByte(n, i + 1)) = IF i = 3 * n + 1 THEN 4 ELSE CrlfAt(n, i + 1)
<1>1. CASE i = 3 * n + 1
  BY <1>1 DEF Get!Step, HeadByte, CrlfAt
<1>2. CASE i < 3 * n + 1 /\ i % 3 = 0
  <2>1. (i + 1) % 3 = 1 /\ (i = 3 * n \/ i + 1 <= 3 * n) /\ i + 1 # 0
    BY <1>2
  <2>. QED BY <1>2, <2>1 DEF Get!Step, HeadByte, CrlfAt
<1>3. CASE i < 3 * n + 1 /\ i % 3 = 1
  <2>1. (i + 1) % 3 = 2 /\ i + 1 <= 3 * n /\ i # 0
    BY <1>3
  <2>. QED BY <1>3, <2>1 DEF Get!Step, HeadByte, CrlfAt
<1>4. CASE i < 3 * n + 1 /\ i % 3 = 2
  <2>1. (i + 1) % 3 = 0 /\ i + 1 <= 3 * n /\ i # 0
    BY <1>4
  <2>. QED BY <1>4, <2>1 DEF Get!Step, HeadByte, CrlfAt
<1>. QED BY <1>1, <1>2, <1>3, <1>4

\* The bytes of the answer.
LEMMA StreamIs ==
  ASSUME NEW n \in Nat \ {0}, getAnswer.lines = n, NEW b \in Seq({"r", "n", "b"}), getAnswer.body = b
  PROVE  /\ Len(Get!Stream) = 3 * n + 2 + Len(b)
         /\ \A i \in 1 .. 3 * n + 2 : Get!Stream[i] = HeadByte(n, i)
         /\ \A i \in 1 .. Len(b) : Get!Stream[3 * n + 2 + i] = b[i]
<1>. DEFINE Syms == {"x", "r", "n", "b"}
            h == Get!HeadOf(n)
<1>1. h \in Seq(Syms) /\ Len(h) = 3 * n + 2 /\ \A i \in 1 .. 3 * n + 2 : h[i] = HeadByte(n, i)
  <2>1. /\ h \in Seq({"x", "r", "n"}) /\ Len(h) = 3 * n + 2
        /\ \A i \in 1 .. 3 * n + 2 : h[i] = HeadByte(n, i)
    BY HeadIs
  <2>. HIDE DEF h
  <2>2. h \in Seq(Syms)
    BY <2>1
  <2>. QED BY <2>1, <2>2
<1>2. b \in Seq(Syms)
  OBVIOUS
<1>3. Get!Stream = Behind(b, h)
  BY DEF Get!Stream, Behind
<1>. HIDE DEF h, Syms
<1>4. h \in Seq(Syms) /\ b \in Seq(Syms) /\ Get!Stream = Behind(b, h)
  BY <1>1, <1>2, <1>3
<1>5. /\ Len(Get!Stream) = Len(h) + Len(b)
      /\ \A i \in 1 .. Len(h) : Get!Stream[i] = h[i]
      /\ \A i \in 1 .. Len(b) : Get!Stream[Len(h) + i] = b[i]
  BY <1>4, BehindIs
<1>. QED BY <1>1, <1>5

\* Where the reader is ...
GetPlace ==
  /\ getAnswer.lines \in Nat \ {0} /\ getAnswer.body \in Seq({"r", "n", "b"})
  /\ getArrived \in 0 .. Len(Get!Stream) /\ getGot \in 0 .. getArrived
  /\ getStage \in {"connect", "header", "body", "done"}
  /\ getStage = "connect" => getGot = 0 /\ getCrlf = 0
  /\ getStage = "header" => getGot <= 3 * getAnswer.lines + 1 /\ getCrlf = CrlfAt(getAnswer.lines, getGot)

\* ... how much of the body it has kept ...
GetKept ==
  /\ getOut \in Seq({"r", "n", "b"})
  /\ getStage \in {"connect", "header"} => getOut = <<>>
  /\ getStage = "body" => /\ Len(getOut) = getGot - (3 * getAnswer.lines + 2)
                          /\ \A i \in 1 .. Len(getOut) : getOut[i] = getAnswer.body[i]

\* ... and how long it has been there.
GetTime ==
  /\ getClock \in Nat /\ getDeadline \in Nat /\ getUnwatched \in Nat
  /\ getStage = "connect" => getClock = 0
  /\ getStage \in {"header", "body"} => getDeadline < 2 * Timeout /\ getClock < getDeadline + getUnwatched
  /\ Get!LoopKeptBriefly

GetReturned == (getStage # "done" => getResult = -1) /\ Get!BodyReturned

GetInv == GetPlace /\ GetKept /\ GetTime /\ GetReturned

\* The call begins with nothing read.
LEMMA GetInit == ASSUME Get!Limits, Get!Init PROVE GetInv
<1>1. getAnswer.lines \in Nat \ {0} /\ getAnswer.body \in Seq({"r", "n", "b"})
  BY DEF Get!Init, Get!Limits
<1>2. Len(Get!Stream) \in Nat
  BY <1>1, StreamIs
<1>. QED BY <1>1, <1>2 DEF Get!Init, Get!Limits, GetInv, GetPlace, GetKept, GetTime, GetReturned, Get!LoopKeptBriefly, Get!BodyReturned

\* The time, whatever is done.
LEMMA TimeKeeps == ASSUME Get!Limits, GetTime, Get!Next PROVE GetTime'
<1>1. Timeout \in Nat \ {0} /\ YieldMax \in Nat \ {0} /\ ReadMax \in Nat
  BY DEF Get!Limits
<1>2. CASE UNCHANGED <<getClock, getDeadline, getUnwatched>> /\ getStage' \in {getStage, "done"}
  BY <1>1, <1>2 DEF GetTime, Get!LoopKeptBriefly
<1>3. ASSUME NEW d \in 0 .. Timeout, Get!Connect(d) PROVE GetTime'
  BY <1>1, <1>3 DEF Get!Connect, Get!Return, GetTime, Get!LoopKeptBriefly
<1>4. ASSUME NEW d \in 1 .. YieldMax, Get!Yield(d) PROVE GetTime'
  <2>1. /\ getStage \in {"header", "body"} /\ getClock' = getClock + d /\ getDeadline' = getDeadline
        /\ \/ getStage' = "done" /\ getUnwatched' = getUnwatched
           \/ getStage' = getStage /\ getUnwatched' = 0 /\ ~(getClock' >= getDeadline)
    BY <1>4, Zenon DEF Get!Yield, Get!Return
  <2>2. /\ getClock \in Nat /\ getDeadline \in Nat /\ getUnwatched \in Nat /\ d \in 1 .. YieldMax
        /\ getDeadline < 2 * Timeout /\ getClock < getDeadline + getUnwatched
    BY <2>1 DEF GetTime
  <2>. QED BY <1>1, <2>1, <2>2 DEF GetTime, Get!LoopKeptBriefly
<1>5. ASSUME NEW d \in 0 .. ReadMax, Get!ReadHeader(d) PROVE GetTime'
  <2>1. /\ getStage = "header" /\ getClock' = getClock + d /\ getDeadline' = getDeadline
        /\ \/ getStage' = "done" /\ getUnwatched' = getUnwatched + d
           \/ getStage' = "header" /\ getUnwatched' = getUnwatched + d
           \/ getStage' = "body" /\ getUnwatched' = 0 /\ getClock' < getDeadline'
    <3>0. d \in Nat
      BY <1>1
    <3>1. getClock' \in Int /\ getDeadline' \in Int
      BY <1>5, <3>0 DEF Get!ReadHeader, Get!Reads, Get!DeadlineKept, GetTime
    <3>2. \/ getStage' = "done"
          \/ getStage' = "header"
          \/ getStage' = "body" /\ getClock' < getDeadline'
      BY <1>5, <3>1 DEF Get!ReadHeader, Get!Return
    <3>. QED BY <1>5, <3>2 DEF Get!ReadHeader, Get!Reads, Get!DeadlineKept
  <2>. QED BY <1>1, <2>1 DEF GetTime, Get!LoopKeptBriefly
<1>6. ASSUME NEW d \in 0 .. ReadMax, Get!ReadBody(d) PROVE GetTime'
  BY <1>1, <1>6 DEF Get!ReadBody, Get!Reads, GetTime, Get!LoopKeptBriefly
<1>. QED BY <1>2, <1>3, <1>4, <1>5, <1>6 DEF Get!Next, Get!Arrive, Get!Close, Get!NoneLeft,
       Get!Closed, Get!Returned, Get!Return, Get!vars

\* Each step of the node or of httpGet keeps the invariant.
LEMMA GetStep == ASSUME Get!Limits, GetInv, Get!Next PROVE GetInv'
<1>. DEFINE n == getAnswer.lines
            b == getAnswer.body
<1>1. n \in Nat \ {0} /\ b \in Seq({"r", "n", "b"}) /\ Len(b) \in Nat
  BY DEF GetInv, GetPlace
<1>2. /\ Len(Get!Stream) = 3 * n + 2 + Len(b)
      /\ \A i \in 1 .. 3 * n + 2 : Get!Stream[i] = HeadByte(n, i)
      /\ \A i \in 1 .. Len(b) : Get!Stream[3 * n + 2 + i] = b[i]
  BY <1>1, StreamIs
<1>3. getAnswer' = getAnswer /\ Get!Stream' = Get!Stream
  BY DEF Get!Next, Get!Arrive, Get!Close, Get!ReadHeader, Get!ReadBody, Get!NoneLeft, Get!Closed, Get!Returned,
         Get!Connect, Get!Yield, Get!wire, Get!vars, Get!Stream
<1>4. GetTime'
  BY TimeKeeps DEF GetInv
<1>5. /\ getArrived \in Nat /\ getGot \in Nat /\ getGot <= getArrived /\ getArrived <= 3 * n + 2 + Len(b)
      /\ getOut \in Seq({"r", "n", "b"}) /\ Len(getOut) \in Nat
  <2>1. getArrived \in 0 .. Len(Get!Stream) /\ getGot \in 0 .. getArrived /\ getOut \in Seq({"r", "n", "b"})
    BY DEF GetInv, GetPlace, GetKept
  <2>2. Len(Get!Stream) = 3 * n + 2 + Len(b)
    BY <1>2
  <2>. HIDE DEF n, b
  <2>. QED BY <1>1, <2>1, <2>2
<1>6. CASE \/ Get!Arrive \/ Get!Close \/ Get!NoneLeft
           \/ (\E d \in 1 .. YieldMax : Get!Yield(d)) /\ getStage' = getStage
  <2>1. /\ UNCHANGED <<getGot, getStage, getCrlf, getOut, getResult>> /\ getStage # "done"
        /\ getArrived' \in getArrived .. Len(Get!Stream)
    BY <1>2, <1>5, <1>6 DEF Get!Arrive, Get!Close, Get!NoneLeft, Get!Yield, Get!Return, Get!wire
  <2>2. GetPlace' /\ GetKept' /\ GetReturned'
    BY <1>2, <1>3, <1>5, <2>1 DEF GetInv, GetPlace, GetKept, GetReturned, Get!BodyReturned
  <2>. QED BY <1>4, <2>2 DEF GetInv
<1>7. ASSUME NEW d \in 0 .. ReadMax, Get!ReadHeader(d) PROVE GetInv'
  <2>1. getGot < getArrived /\ getGot' = getGot + 1 /\ getGot \in 0 .. 3 * n + 1 /\ getCrlf = CrlfAt(n, getGot)
    BY <1>1, <1>5, <1>7 DEF Get!ReadHeader, Get!Reads, Get!Available, GetInv, GetPlace
  <2>2. getCrlf' = IF getGot = 3 * n + 1 THEN 4 ELSE CrlfAt(n, getGot')
    <3>1. Get!Byte = HeadByte(n, getGot + 1)
      BY <1>1, <1>2, <2>1 DEF Get!Byte
    <3>. HIDE DEF n, b
    <3>. QED BY <1>1, <1>7, <2>1, <3>1, CrlfStep DEF Get!ReadHeader
  <2>3. getCrlf' = 4 <=> getGot = 3 * n + 1
    BY <1>1, <2>1, <2>2 DEF CrlfAt
  <2>4. /\ UNCHANGED <<getArrived, getOut>> /\ getStage = "header"
        /\ \/ getStage' = "header" /\ getGot # 3 * n + 1 /\ getResult' = getResult
           \/ getStage' = "body" /\ getGot = 3 * n + 1 /\ getResult' = getResult
           \/ getStage' = "done" /\ (Get!Full \/ getClock' >= getDeadline') /\ getResult' = 0
    BY <1>7, <2>3 DEF Get!ReadHeader, Get!Return, Get!wire
  <2>9. getOut = <<>>
    BY <2>4 DEF GetInv, GetKept
  <2>5. GetPlace'
    <3>1. getGot' \in 0 .. getArrived /\ getArrived \in 0 .. Len(Get!Stream) /\ (getGot # 3 * n + 1 => getGot' <= 3 * n + 1)
      <4>1. Len(Get!Stream) = 3 * n + 2 + Len(b)
        BY <1>2
      <4>. HIDE DEF n, b
      <4>2. n \in Nat /\ getGot \in Nat /\ getGot <= 3 * n + 1
        BY <1>1, <2>1
      <4>. QED BY <1>1, <1>5, <2>1, <4>1, <4>2
    <3>. QED BY <1>1, <1>3, <2>2, <2>4, <3>1 DEF GetPlace
  <2>6. GetKept'
    BY <1>1, <1>3, <2>1, <2>4, <2>9 DEF GetKept
  <2>7. GetReturned'
    <3>1. CASE getStage' # "done"
      BY <2>4, <3>1 DEF GetInv, GetReturned, Get!BodyReturned
    <3>2. CASE getStage' = "done"
      <4>1. Get!IsPrefix(<<>>, b)
        <5>. HIDE DEF b
        <5>. QED BY <1>1 DEF Get!IsPrefix
      <4>2. ~Get!Late' /\ Len(b) < OutCap => b = <<>>
        <5>1. ~Get!Late' => Get!Full
          BY <2>4, <3>2 DEF Get!Late
        <5>2. Get!Full /\ Len(b) < OutCap => Len(b) = 0
          <6>. HIDE DEF b
          <6>. QED BY <1>1, <2>9 DEF Get!Full, Get!Limits
        <5>. HIDE DEF b
        <5>. QED BY <1>1, <5>1, <5>2
      <4>. QED BY <1>3, <2>4, <2>9, <3>2, <4>1, <4>2 DEF GetReturned, Get!BodyReturned
    <3>. QED BY <3>1, <3>2
  <2>. QED BY <1>4, <2>5, <2>6, <2>7 DEF GetInv
<1>8. ASSUME NEW d \in 0 .. ReadMax, Get!ReadBody(d) PROVE GetInv'
  <2>1. /\ getGot < getArrived /\ getGot' = getGot + 1 /\ getGot = Len(getOut) + 3 * n + 2
        /\ UNCHANGED <<getArrived, getConnected, getStage, getCrlf, getResult>> /\ getStage = "body"
    <3>1. getGot = Len(getOut) + 3 * n + 2
      <4>1. Len(getOut) = getGot - (3 * n + 2)
        BY <1>8, Zenon DEF Get!ReadBody, GetInv, GetKept
      <4>. HIDE DEF n, b
      <4>. QED BY <1>1, <1>5, <4>1
    <3>. QED BY <1>8, <3>1 DEF Get!ReadBody, Get!Reads, Get!Available, Get!wire
  <2>2. Len(getOut) + 1 \in 1 .. Len(b) /\ Get!Byte = b[Len(getOut) + 1]
    <3>1. Len(getOut) + 1 \in 1 .. Len(b) /\ getGot + 1 = 3 * n + 2 + (Len(getOut) + 1)
      <4>. HIDE DEF n, b
      <4>. QED BY <1>1, <1>5, <2>1
    <3>. QED BY <1>2, <3>1 DEF Get!Byte
  <2>3. /\ getOut' \in Seq({"r", "n", "b"}) /\ Len(getOut') = Len(getOut) + 1
        /\ \A i \in 1 .. Len(getOut') : getOut'[i] = b[i]
    <3>1. getOut' = Append(getOut, b[Len(getOut) + 1]) /\ b[Len(getOut) + 1] \in {"r", "n", "b"}
      BY <1>1, <1>8, <2>2 DEF Get!ReadBody
    <3>2. getOut \in Seq({"r", "n", "b"}) /\ \A i \in 1 .. Len(getOut) : getOut[i] = b[i]
      BY <2>1, Zenon DEF GetInv, GetKept
    <3>. HIDE DEF b
    <3>. QED BY <3>1, <3>2
  <2>4. GetPlace'
    <3>1. getGot' \in 0 .. getArrived /\ getArrived \in 0 .. Len(Get!Stream)
      <4>1. getArrived \in 0 .. Len(Get!Stream) /\ getGot \in 0 .. getArrived
        BY DEF GetInv, GetPlace
      <4>. QED BY <2>1, <4>1
    <3>. QED BY <1>1, <1>3, <2>1, <3>1 DEF GetPlace
  <2>5. GetKept'
    <3>1. Len(getOut') = getGot' - (3 * n + 2)
      <4>1. getOut \in Seq({"r", "n", "b"})
        BY DEF GetInv, GetKept
      <4>. DEFINE l == Len(getOut)
      <4>2. l \in Nat /\ n \in Nat /\ getGot' = l + 3 * n + 2 + 1 /\ Len(getOut') = l + 1
        BY <1>1, <2>1, <2>3, <4>1
      <4>. HIDE DEF l, n, b
      <4>. QED BY <4>2
    <3>. QED BY <1>3, <2>1, <2>3, <3>1 DEF GetKept
  <2>6. GetReturned'
    BY <2>1 DEF GetInv, GetReturned, Get!BodyReturned
  <2>. QED BY <1>4, <2>4, <2>5, <2>6 DEF GetInv
<1>9. CASE (Get!Closed \/ \E d \in 1 .. YieldMax : Get!Yield(d)) /\ getStage = "body" /\ getStage' # getStage
  <2>1. /\ UNCHANGED <<getArrived, getGot, getConnected, getCrlf, getOut, getDeadline>>
        /\ getStage = "body" /\ getStage' = "done" /\ getResult' = Len(getOut)
    BY <1>9 DEF Get!Closed, Get!Yield, Get!Result, Get!Return, Get!wire
  <2>2. getGot = Len(getOut) + 3 * n + 2 /\ \A i \in 1 .. Len(getOut) : getOut[i] = b[i]
    <3>1. Len(getOut) = getGot - (3 * n + 2) /\ \A i \in 1 .. Len(getOut) : getOut[i] = b[i]
      BY <2>1, Zenon DEF GetInv, GetKept
    <3>. DEFINE l == Len(getOut)
    <3>2. l \in Nat /\ getGot \in Nat /\ n \in Nat /\ l = getGot - (3 * n + 2)
      BY <1>1, <1>5, <3>1
    <3>. HIDE DEF l, n, b
    <3>3. getGot = l + 3 * n + 2
      BY <3>2
    <3>. QED BY <3>1, <3>3 DEF l
  <2>3. Len(getOut) <= Len(b)
    BY <1>1, <1>5, <2>2
  <2>4. Get!IsPrefix(getOut, b)
    <3>. HIDE DEF b
    <3>. QED BY <1>1, <1>5, <2>2, <2>3 DEF Get!IsPrefix
  <2>5. (getArrived = Len(Get!Stream) /\ ~Get!Late' /\ Len(b) < OutCap) => getOut = b
    <3>1. (getArrived = Len(Get!Stream) /\ ~Get!Late' /\ Len(b) < OutCap) => Len(getOut) = Len(b)
      <4>1. Get!Full \/ Get!Over \/ Get!Late'
        BY <1>9 DEF Get!Closed, Get!Yield, Get!Late
      <4>2. Get!Over => getGot = getArrived
        BY <1>5 DEF Get!Over, Get!Available
      <4>3. Get!Full /\ Len(b) < OutCap => Len(getOut) = Len(b)
        BY <1>1, <1>5, <2>3 DEF Get!Full, Get!Limits
      <4>. QED BY <1>1, <1>2, <1>5, <2>2, <2>3, <4>1, <4>2, <4>3
    <3>2. Len(getOut) = Len(b) => getOut = b
      <4>. HIDE DEF b
      <4>. QED BY <1>1, <1>5, <2>2
    <3>. QED BY <3>1, <3>2
  <2>6. GetReturned'
    BY <1>3, <2>1, <2>4, <2>5 DEF GetReturned, Get!BodyReturned
  <2>7. GetPlace' /\ GetKept'
    BY <1>3, <2>1 DEF GetInv, GetPlace, GetKept
  <2>. QED BY <1>4, <2>6, <2>7 DEF GetInv
<1>10. CASE Get!Returned
  BY <1>10 DEF Get!Returned, Get!wire, Get!vars, GetInv, GetPlace, GetKept, GetTime, GetReturned, Get!LoopKeptBriefly,
     Get!BodyReturned, Get!Late, Get!Stream
<1>11. CASE \/ \E d \in 0 .. Timeout : Get!Connect(d)
            \/ (Get!Closed \/ \E d \in 1 .. YieldMax : Get!Yield(d)) /\ getStage = "header" /\ getStage' # getStage
  <2>1. /\ UNCHANGED <<getArrived, getGot, getCrlf, getOut>> /\ getResult' \in {getResult, -1}
        /\ getStage' = "done" \/ (getStage' = "header" /\ getStage = "connect")
        /\ getStage \in {"connect", "header"}
    BY <1>11 DEF Get!Closed, Get!Yield, Get!Result, Get!Connect, Get!Return, Get!wire
  <2>4. getResult' = -1
    BY <2>1 DEF GetInv, GetReturned
  <2>2. getGot = 0 /\ getCrlf = 0 => getCrlf = CrlfAt(n, getGot)
    BY DEF CrlfAt
  <2>3. GetPlace' /\ GetKept'
    BY <1>1, <1>3, <2>1, <2>2 DEF GetInv, GetPlace, GetKept
  <2>5. GetReturned'
    BY <2>4 DEF GetReturned, Get!BodyReturned
  <2>. QED BY <1>4, <2>3, <2>5 DEF GetInv
<1>12. Get!Closed => getStage \in {"header", "body"} /\ getStage' # getStage
  BY DEF Get!Closed, Get!Return
<1>13. \A d \in 1 .. YieldMax : Get!Yield(d) => getStage \in {"header", "body"}
  BY DEF Get!Yield
<1>. QED BY <1>6, <1>7, <1>8, <1>9, <1>10, <1>11, <1>12, <1>13 DEF Get!Next

\* So does a step of nobody.
LEMMA GetStays == ASSUME Get!Limits, GetInv, [Get!Next]_(Get!vars) PROVE GetInv'
<1>1. ASSUME UNCHANGED Get!vars PROVE GetInv'
  BY <1>1 DEF Get!vars, Get!wire, GetInv, GetPlace, GetKept, GetTime, GetReturned, Get!LoopKeptBriefly, Get!BodyReturned, Get!Stream, Get!Late
<1>. QED BY <1>1, GetStep

-----------------------------------------------------------------------------
(* HttpRequest: the arguments of a query *)

\* The symbols of a request: text, and those its lines are made of.
Fixed   == {"r", "n", "get", "post", "uri", "host:", "h", "type:", "multipart", "boundary", "encoded", "json", "length:",
            "0", "1", "&"}
Symbols == STRING \union Fixed

\* One step of _parseArguments, from a place in the query on.
ArgAt(g, data, pos) ==
  LET equal == Request!Find(data, "=", pos)
      next  == Request!Find(data, "&", pos)
      rest  == IF next = 0 THEN <<>> ELSE g[next + 1]
      last  == IF next = 0 THEN Len(data) ELSE next - 1
  IN  IF Request!NoEqual(equal, next) THEN rest
      ELSE Behind(rest, << [key |-> SubSeq(data, pos, equal - 1), value |-> SubSeq(data, equal + 1, last)] >>)

\* indexOf: the first place of a symbol from a place on, or 0.
LEMMA FindIs ==
  ASSUME NEW data \in Seq(Symbols), NEW sym, NEW from \in 1 .. Len(data) + 1
  PROVE  \/ /\ Request!Find(data, sym, from) = 0
            /\ \A i \in from .. Len(data) : data[i] # sym
         \/ /\ Request!Find(data, sym, from) \in from .. Len(data)
            /\ data[Request!Find(data, sym, from)] = sym
            /\ \A i \in from .. Len(data) : i < Request!Find(data, sym, from) => data[i] # sym
<1>. DEFINE at == {i \in from .. Len(data) : data[i] = sym}
<1>1. CASE at = {}
  BY <1>1 DEF Request!Find
<1>2. CASE at # {}
  <2>1. at \in SUBSET Nat
    OBVIOUS
  <2>2. PICK m \in at : \A j \in at : m <= j
    <3>. HIDE DEF at
    <3>. QED BY <1>2, <2>1, HasLeast
  <2>3. \A i \in at : (\A j \in at : i <= j) <=> i = m
    <3>. HIDE DEF at
    <3>. QED BY <2>1, <2>2
  <2>4. Request!Find(data, sym, from) = m
    <3>1. (CHOOSE i \in at : \A j \in at : i <= j) = m
      <4>. HIDE DEF at
      <4>. QED BY <2>2, <2>3
    <3>. QED BY <1>2, <3>1 DEF Request!Find
  <2>. QED BY <2>2, <2>4
<1>. QED BY <1>1, <1>2

\* The function ParseArguments chooses exists, for queries of every length.
LEMMA ArgsExist ==
  ASSUME NEW data \in Seq(Symbols)
  PROVE  \E g : g = [pos \in 1 .. Len(data) + 1 |-> ArgAt(g, data, pos)]
<1>. DEFINE N == Len(data) + 1
            Part(n, g) == \A pos \in N - n .. N : g[pos] = ArgAt(g, data, pos)
            Bad == {n \in 0 .. N - 1 : ~\E g : Part(n, g)}
<1>1. N \in Nat \ {0} /\ N - 1 \in 0 .. N - 1
  OBVIOUS
<1>2. ASSUME NEW g, NEW h, NEW n \in 0 .. N - 1, NEW pos \in N - n .. N, \A p \in pos + 1 .. N : g[p] = h[p]
      PROVE  ArgAt(g, data, pos) = ArgAt(h, data, pos)
  <2>. DEFINE next == Request!Find(data, "&", pos)
  <2>1. next = 0 \/ next + 1 \in pos + 1 .. N
    <3>1. pos \in 1 .. Len(data) + 1
      BY <1>1
    <3>2. next = 0 \/ next \in pos .. Len(data)
      BY <3>1, FindIs
    <3>. HIDE DEF next
    <3>. QED BY <3>1, <3>2
  <2>2. next # 0 => g[next + 1] = h[next + 1]
    <3>. HIDE DEF next
    <3>. QED BY <1>2, <2>1
  <2>. QED BY <2>2 DEF ArgAt
<1>3. Bad = {}
  <2>. SUFFICES ASSUME Bad # {} PROVE FALSE
    OBVIOUS
  <2>. Bad \in SUBSET Nat
    OBVIOUS
  <2>. HIDE DEF Bad
  <2>1. PICK n \in Bad : \A m \in Bad : n <= m
    BY HasLeast
  <2>2. n \in 0 .. N - 1 /\ ~\E g : Part(n, g)
    BY <2>1 DEF Bad
  <2>3. n > 0 => n - 1 \in 0 .. N - 1 /\ n - 1 \notin Bad
    <3>. HIDE DEF Part
    <3>. QED BY <1>1, <2>1, <2>2
  <2>4. \E f : \A pos \in N - n + 1 .. N : f[pos] = ArgAt(f, data, pos)
    <3>1. CASE n = 0
      <4>1. N - n + 1 .. N = {}
        BY <1>1, <3>1
      <4>. QED BY <4>1
    <3>2. CASE n > 0
      <4>1. PICK f : Part(n - 1, f)
        BY <2>3, <3>2 DEF Bad
      <4>2. N - (n - 1) = N - n + 1
        BY <1>1, <2>2
      <4>. QED BY <4>1, <4>2
    <3>. QED BY <2>2, <3>1, <3>2
  <2>5. PICK f : \A pos \in N - n + 1 .. N : f[pos] = ArgAt(f, data, pos)
    BY <2>4
  <2>. DEFINE g == [pos \in N - n .. N |-> IF pos = N - n THEN ArgAt(f, data, pos) ELSE f[pos]]
  <2>6. \A p \in N - n + 1 .. N : g[p] = f[p]
    BY <1>1, <2>2
  <2>7. g[N - n] = ArgAt(f, data, N - n)
    BY <1>1, <2>2
  <2>. HIDE DEF g
  <2>8. ASSUME NEW pos \in N - n .. N PROVE g[pos] = ArgAt(g, data, pos)
    <3>1. \A p \in pos + 1 .. N : g[p] = f[p]
      BY <1>1, <2>2, <2>6
    <3>2. ArgAt(g, data, pos) = ArgAt(f, data, pos)
      <4>. HIDE DEF N
      <4>. QED BY <1>2, <2>2, <3>1
    <3>3. pos = N - n \/ pos \in N - n + 1 .. N
      BY <1>1, <2>2
    <3>. QED BY <2>5, <2>6, <2>7, <3>2, <3>3
  <2>9. Part(n, g)
    BY <2>8
  <2>. QED BY <2>2, <2>9
<1>4. PICK f : Part(N - 1, f)
  <2>1. N - 1 \notin Bad
    BY <1>3
  <2>. QED BY <1>1, <2>1
<1>. DEFINE g == [pos \in 1 .. N |-> f[pos]]
<1>5. \A pos \in 1 .. N : g[pos] = f[pos] /\ f[pos] = ArgAt(f, data, pos)
  <2>1. N - (N - 1) = 1
    BY <1>1
  <2>. QED BY <1>4, <2>1
<1>6. g = [pos \in 1 .. N |-> g[pos]]
  OBVIOUS
<1>. HIDE DEF g
<1>7. ASSUME NEW pos \in 1 .. N PROVE g[pos] = ArgAt(g, data, pos)
  <2>1. pos \in N - (N - 1) .. N /\ N - 1 \in 0 .. N - 1 /\ \A p \in pos + 1 .. N : g[p] = f[p]
    BY <1>1, <1>5
  <2>2. ArgAt(g, data, pos) = ArgAt(f, data, pos)
    <3>. HIDE DEF N
    <3>. QED BY <1>2, <2>1
  <2>. QED BY <1>5, <2>2
<1>8. g = [pos \in 1 .. N |-> ArgAt(g, data, pos)]
  BY <1>6, <1>7
<1>. QED BY <1>8

\* The parts of a query, as Reference has them, without the sequences between.
Cuts(data) == {0, Len(data) + 1} \union {i \in DOMAIN data : data[i] = "&"}
PartOf(data, c, d) == /\ c \in Cuts(data) /\ d \in Cuts(data) /\ c < d
                    /\ ~\E k \in Cuts(data) : c < k /\ k < d
HasEqual(data, c, d) == \E i \in c + 1 .. d - 1 : data[i] = "="
Pair(data, c, d) == LET e == Request!Find(data, "=", c + 1)
                    IN  [key |-> SubSeq(data, c + 1, e - 1), value |-> SubSeq(data, e + 1, d - 1)]
PairsFrom(data, pos) ==
  {Pair(data, p[1], p[2]) : p \in {c \in Cuts(data) \X Cuts(data) :
     PartOf(data, c[1], c[2]) /\ HasEqual(data, c[1], c[2]) /\ c[1] >= pos - 1}}
Argument == [key : Seq(Symbols), value : Seq(Symbols)]

\* The first "=" of a part is the query's first from there on.
LEMMA PartFound ==
  ASSUME NEW data \in Seq(Symbols), NEW c \in 0 .. Len(data) + 1, NEW d \in 0 .. Len(data) + 1, c < d,
         NEW q \in Seq(Symbols), Len(q) = d - 1 - c, \A i \in 1 .. Len(q) : q[i] = data[c + i]
  PROVE  /\ (\E i \in 1 .. Len(q) : q[i] = "=") <=> HasEqual(data, c, d)
         /\ HasEqual(data, c, d) => /\ Request!Find(q, "=", 1) \in 1 .. Len(q)
                                   /\ Request!Find(data, "=", c + 1) = c + Request!Find(q, "=", 1)
<1>1. (\E i \in 1 .. Len(q) : q[i] = "=") <=> HasEqual(data, c, d)
  <2>1. ASSUME NEW i \in 1 .. Len(q), q[i] = "=" PROVE HasEqual(data, c, d)
    <3>1. c + i \in c + 1 .. d - 1 /\ data[c + i] = "="
      BY <2>1
    <3>. QED BY <3>1 DEF HasEqual
  <2>2. ASSUME NEW i \in c + 1 .. d - 1, data[i] = "=" PROVE \E j \in 1 .. Len(q) : q[j] = "="
    <3>1. i - c \in 1 .. Len(q) /\ c + (i - c) = i
      OBVIOUS
    <3>2. q[i - c] = data[c + (i - c)]
      BY <3>1
    <3>. QED BY <2>2, <3>1, <3>2
  <2>. QED BY <2>1, <2>2 DEF HasEqual
<1>2. ASSUME HasEqual(data, c, d)
      PROVE  /\ Request!Find(q, "=", 1) \in 1 .. Len(q)
             /\ Request!Find(data, "=", c + 1) = c + Request!Find(q, "=", 1)
  <2>. DEFINE e == Request!Find(data, "=", c + 1)
              h == Request!Find(q, "=", 1)
  <2>1. PICK k \in 1 .. Len(q) : q[k] = "="
    BY <1>1, <1>2
  <2>2. c + 1 \in 1 .. Len(data) + 1 /\ 1 \in 1 .. Len(q) + 1
    OBVIOUS
  <2>3. \/ e = 0 /\ \A i \in c + 1 .. Len(data) : data[i] # "="
        \/ e \in c + 1 .. Len(data) /\ data[e] = "=" /\ \A i \in c + 1 .. Len(data) : i < e => data[i] # "="
    BY <2>2, FindIs
  <2>4. \/ h = 0 /\ \A i \in 1 .. Len(q) : q[i] # "="
        \/ h \in 1 .. Len(q) /\ q[h] = "=" /\ \A i \in 1 .. Len(q) : i < h => q[i] # "="
    BY <2>2, FindIs
  <2>. HIDE DEF e, h
  <2>5. h \in 1 .. Len(q) /\ q[h] = "=" /\ \A i \in 1 .. Len(q) : i < h => q[i] # "="
    BY <2>1, <2>4
  <2>6. c + h \in c + 1 .. Len(data) /\ data[c + h] = "="
    <3>1. q[h] = data[c + h]
      BY <2>5
    <3>. QED BY <2>5, <3>1
  <2>7. e \in c + 1 .. c + h /\ data[e] = "="
    BY <2>3, <2>5, <2>6
  <2>8. ~ (e < c + h)
    <3>. SUFFICES ASSUME e < c + h PROVE FALSE
      OBVIOUS
    <3>1. e - c \in 1 .. Len(q) /\ e - c < h /\ c + (e - c) = e
      BY <2>5, <2>7
    <3>2. q[e - c] = data[c + (e - c)]
      BY <3>1
    <3>. QED BY <2>5, <2>7, <3>1, <3>2
  <2>9. e = c + h
    BY <2>5, <2>7, <2>8
  <2>. QED BY <2>5, <2>9 DEF e, h
<1>. QED BY <1>1, <1>2

\* So a part cut out of the query gives the same argument as the query itself.
LEMMA PartIs ==
  ASSUME NEW data \in Seq(Symbols), NEW c \in 0 .. Len(data) + 1, NEW d \in 0 .. Len(data) + 1, c < d,
         NEW q, q = SubSeq(data, c + 1, d - 1)
  PROVE  /\ (\E i \in DOMAIN q : q[i] = "=") <=> HasEqual(data, c, d)
         /\ HasEqual(data, c, d) =>
              [key |-> SubSeq(q, 1, Request!Find(q, "=", 1) - 1),
               value |-> SubSeq(q, Request!Find(q, "=", 1) + 1, Len(q))] = Pair(data, c, d)
<1>1. q \in Seq(Symbols) /\ Len(q) = d - 1 - c /\ DOMAIN q = 1 .. Len(q) /\ \A i \in 1 .. Len(q) : q[i] = data[c + i]
  OBVIOUS
<1>. DEFINE e == Request!Find(data, "=", c + 1)
            h == Request!Find(q, "=", 1)
<1>2. (\E i \in 1 .. Len(q) : q[i] = "=") <=> HasEqual(data, c, d)
  BY <1>1, PartFound
<1>3. HasEqual(data, c, d) => h \in 1 .. Len(q) /\ e = c + h
  BY <1>1, PartFound
<1>. HIDE DEF e, h
<1>4. ASSUME HasEqual(data, c, d)
      PROVE SubSeq(q, 1, h - 1) = SubSeq(data, c + 1, e - 1) /\ SubSeq(q, h + 1, Len(q)) = SubSeq(data, e + 1, d - 1)
  <2>1. h \in 1 .. Len(q) /\ e = c + h
    BY <1>3, <1>4
  <2>2. SubSeq(q, 1, h - 1) = SubSeq(data, c + 1, e - 1)
    BY <1>1, <2>1
  <2>3. SubSeq(q, h + 1, Len(q)) = SubSeq(data, e + 1, d - 1)
    BY <1>1, <2>1
  <2>. QED BY <2>2, <2>3
<1>. QED BY <1>1, <1>2, <1>4 DEF e, h, Pair

\* Reference, in places of the query instead of parts cut out of it.
LEMMA ReferenceIs ==
  ASSUME NEW data \in Seq(Symbols)
  PROVE  Request!Reference(data) = PairsFrom(data, 1)
<1>. DEFINE cut(p) == SubSeq(data, p[1] + 1, p[2] - 1)
            both == {c \in Cuts(data) \X Cuts(data) : c[1] < c[2] /\ ~\E k \in Cuts(data) : c[1] < k /\ k < c[2]}
            parts == {cut(p) : p \in both}
            asked(q) == [key |-> SubSeq(q, 1, Request!Find(q, "=", 1) - 1),
                         value |-> SubSeq(q, Request!Find(q, "=", 1) + 1, Len(q))]
            equals == {q \in parts : \E i \in DOMAIN q : q[i] = "="}
            mine == {c \in Cuts(data) \X Cuts(data) : PartOf(data, c[1], c[2]) /\ HasEqual(data, c[1], c[2]) /\ c[1] >= 1 - 1}
<1>1. Request!Reference(data) = {asked(q) : q \in equals}
  BY DEF Request!Reference, Cuts
<1>2. PairsFrom(data, 1) = {Pair(data, p[1], p[2]) : p \in mine}
  BY DEF PairsFrom
<1>3. Cuts(data) \subseteq 0 .. Len(data) + 1
  BY DEF Cuts
<1>4. ASSUME NEW p \in both
      PROVE  /\ (\E i \in DOMAIN cut(p) : cut(p)[i] = "=") <=> HasEqual(data, p[1], p[2])
             /\ HasEqual(data, p[1], p[2]) => asked(cut(p)) = Pair(data, p[1], p[2])
  <2>1. p[1] \in 0 .. Len(data) + 1 /\ p[2] \in 0 .. Len(data) + 1 /\ p[1] < p[2]
    BY <1>3
  <2>. QED BY <2>1, PartIs
<1>5. \A p : p \in mine <=> p \in both /\ HasEqual(data, p[1], p[2])
  BY <1>3 DEF PartOf
<1>. HIDE DEF both, mine, asked, cut
<1>6. ASSUME NEW q \in equals PROVE \E p \in mine : asked(q) = Pair(data, p[1], p[2])
  BY <1>4, <1>5
<1>7. ASSUME NEW p \in mine PROVE \E q \in equals : asked(q) = Pair(data, p[1], p[2])
  BY <1>4, <1>5
<1>. HIDE DEF equals
<1>. QED BY <1>1, <1>2, <1>6, <1>7

\* The set of arguments of a list that has one more in front.
LEMMA OneMoreArgument ==
  ASSUME NEW x \in Argument, NEW r \in Seq(Argument)
  PROVE  Behind(r, <<x>>) \in Seq(Argument) /\ Request!ToSet(Behind(r, <<x>>)) = {x} \union Request!ToSet(r)
<1>. DEFINE b == Behind(r, <<x>>)
<1>1. <<x>> \in Seq(Argument) /\ Len(<<x>>) = 1 /\ <<x>>[1] = x
  OBVIOUS
<1>. DEFINE s == <<x>>
<1>2. s \in Seq(Argument) /\ r \in Seq(Argument)
  BY <1>1
<1>. HIDE DEF s
<1>3. /\ Len(Behind(r, s)) = Len(s) + Len(r)
      /\ \A i \in 1 .. Len(s) : Behind(r, s)[i] = s[i]
      /\ \A i \in 1 .. Len(r) : Behind(r, s)[Len(s) + i] = r[i]
  BY <1>2, BehindIs
<1>4. Behind(r, s) \in Seq(Argument)
  BY <1>2, BehindIs
<1>5. /\ b \in Seq(Argument) /\ Len(b) = 1 + Len(r) /\ b[1] = x /\ \A i \in 1 .. Len(r) : b[1 + i] = r[i]
  BY <1>1, <1>3, <1>4 DEF s
<1>. HIDE DEF b
<1>6. DOMAIN b = 1 .. 1 + Len(r) /\ DOMAIN r = 1 .. Len(r) /\ Len(r) \in Nat
  BY <1>5
<1>7. ASSUME NEW i \in DOMAIN b PROVE b[i] = x \/ \E j \in DOMAIN r : b[i] = r[j]
  <2>1. i = 1 \/ (i - 1 \in 1 .. Len(r) /\ 1 + (i - 1) = i)
    BY <1>6
  <2>. QED BY <1>5, <1>6, <2>1
<1>8. 1 \in DOMAIN b /\ \A j \in DOMAIN r : 1 + j \in DOMAIN b /\ b[1 + j] = r[j]
  BY <1>5, <1>6
<1>9. Request!ToSet(b) = {x} \union Request!ToSet(r)
  BY <1>5, <1>7, <1>8 DEF Request!ToSet
<1>. QED BY <1>5, <1>9 DEF b

\* The part that begins at a place, and the others behind it.
LEMMA PartAt ==
  ASSUME NEW data \in Seq(Symbols), NEW pos \in 1 .. Len(data) + 1, pos - 1 \in Cuts(data),
         NEW next, next = Request!Find(data, "&", pos),
         NEW d, d = IF next = 0 THEN Len(data) + 1 ELSE next
  PROVE  /\ d \in pos .. Len(data) + 1 /\ (next # 0 => next \in pos .. Len(data) /\ next \in Cuts(data))
         /\ PartOf(data, pos - 1, d)
         /\ \A c1, c2 : PartOf(data, c1, c2) /\ c1 >= pos - 1 => (c1 = pos - 1 /\ c2 = d) \/ (next # 0 /\ c1 >= next)
<1>1. \/ next = 0 /\ \A i \in pos .. Len(data) : data[i] # "&"
      \/ next \in pos .. Len(data) /\ data[next] = "&" /\ \A i \in pos .. Len(data) : i < next => data[i] # "&"
  BY FindIs
<1>2. \A k : k \in Cuts(data) <=> k = 0 \/ k = Len(data) + 1 \/ (k \in 1 .. Len(data) /\ data[k] = "&")
  BY DEF Cuts
<1>3. d \in pos .. Len(data) + 1 /\ d \in Cuts(data) /\ (next # 0 => next \in pos .. Len(data) /\ next \in Cuts(data))
  BY <1>1, <1>2
<1>4. \A k \in Cuts(data) : pos - 1 < k => d <= k
  BY <1>1, <1>2
<1>5. \A k \in Cuts(data) : k \in 0 .. Len(data) + 1
  BY <1>2
<1>6. PartOf(data, pos - 1, d)
  BY <1>3, <1>4, <1>5 DEF PartOf
<1>7. ASSUME NEW c1, NEW c2, PartOf(data, c1, c2), c1 >= pos - 1
      PROVE  (c1 = pos - 1 /\ c2 = d) \/ (next # 0 /\ c1 >= next)
  <2>1. /\ c1 \in Cuts(data) /\ c2 \in Cuts(data) /\ c1 < c2 /\ c1 \in 0 .. Len(data) + 1 /\ c2 \in 0 .. Len(data) + 1
        /\ \A k \in Cuts(data) : ~ (c1 < k /\ k < c2)
    BY <1>5, <1>7 DEF PartOf
  <2>2. CASE c1 = pos - 1
    <3>1. ~ (d < c2) /\ d <= c2
      BY <1>3, <1>4, <2>1, <2>2
    <3>. QED BY <1>3, <2>1, <2>2, <3>1
  <2>3. CASE c1 > pos - 1
    BY <1>3, <1>4, <2>1, <2>3
  <2>. QED BY <1>7, <2>1, <2>2, <2>3
<1>. QED BY <1>3, <1>6, <1>7

\* _parseArguments skips a part exactly if there is no "=" before its end.
LEMMA EqualIs ==
  ASSUME NEW data \in Seq(Symbols), NEW pos \in 1 .. Len(data) + 1,
         NEW next, next = 0 \/ next \in pos .. Len(data),
         NEW d, d = IF next = 0 THEN Len(data) + 1 ELSE next
  PROVE  /\ (next = 0 \/ data[next] = "&") => (Request!NoEqual(Request!Find(data, "=", pos), next) <=> ~HasEqual(data, pos - 1, d))
         /\ HasEqual(data, pos - 1, d) => Request!Find(data, "=", pos) \in pos .. d - 1
<1>. DEFINE e == Request!Find(data, "=", pos)
<1>1. \/ e = 0 /\ \A i \in pos .. Len(data) : data[i] # "="
      \/ e \in pos .. Len(data) /\ data[e] = "=" /\ \A i \in pos .. Len(data) : i < e => data[i] # "="
  BY FindIs
<1>2. HasEqual(data, pos - 1, d) <=> \E i \in pos .. d - 1 : data[i] = "="
  BY DEF HasEqual
<1>3. pos .. d - 1 \subseteq pos .. Len(data)
  OBVIOUS
<1>. HIDE DEF e
<1>4. HasEqual(data, pos - 1, d) => e \in pos .. d - 1
  BY <1>1, <1>2, <1>3
<1>5. e \in pos .. d - 1 => HasEqual(data, pos - 1, d)
  BY <1>1, <1>2
<1>6. e \in pos .. d - 1 <=> ~ (e = 0 \/ (e >= d))
  BY <1>1
<1>7. next # 0 /\ data[next] = "&" => e # next
  BY <1>1
<1>8. (next = 0 \/ data[next] = "&") => (Request!NoEqual(e, next) <=> e = 0 \/ e >= d)
  BY <1>1, <1>7 DEF Request!NoEqual
<1>. QED BY <1>4, <1>5, <1>6, <1>8 DEF e

\* The arguments from a place on are the part there and those behind it.
LEMMA PairsStep ==
  ASSUME NEW data \in Seq(Symbols), NEW pos \in 1 .. Len(data) + 1, pos - 1 \in Cuts(data),
         NEW next, next = Request!Find(data, "&", pos),
         NEW d, d = IF next = 0 THEN Len(data) + 1 ELSE next
  PROVE  PairsFrom(data, pos) = (IF HasEqual(data, pos - 1, d) THEN {Pair(data, pos - 1, d)} ELSE {})
                                  \union (IF next = 0 THEN {} ELSE PairsFrom(data, next + 1))
<1>. DEFINE mine(p) == {c \in Cuts(data) \X Cuts(data) : PartOf(data, c[1], c[2]) /\ HasEqual(data, c[1], c[2]) /\ c[1] >= p - 1}
<1>1. /\ d \in pos .. Len(data) + 1 /\ (next # 0 => next \in pos .. Len(data) /\ next \in Cuts(data))
      /\ PartOf(data, pos - 1, d)
      /\ \A c1, c2 : PartOf(data, c1, c2) /\ c1 >= pos - 1 => (c1 = pos - 1 /\ c2 = d) \/ (next # 0 /\ c1 >= next)
  BY PartAt
<1>2. \A p : PairsFrom(data, p) = {Pair(data, c[1], c[2]) : c \in mine(p)}
  BY DEF PairsFrom
<1>3. \A c : c \in Cuts(data) => c \in Int
  BY DEF Cuts
<1>4. ASSUME NEW c \in mine(pos), ~ (c[1] = pos - 1 /\ c[2] = d) PROVE next # 0 /\ c \in mine(next + 1)
  <2>1. next # 0 /\ c[1] >= next
    BY <1>1, <1>4
  <2>. QED BY <1>1, <1>3, <2>1
<1>5. ASSUME NEW c \in mine(next + 1), next # 0 PROVE c \in mine(pos)
  BY <1>1, <1>3, <1>5
<1>6. HasEqual(data, pos - 1, d) => <<pos - 1, d>> \in mine(pos)
  BY <1>1 DEF PartOf
<1>7. \A c \in mine(pos) : HasEqual(data, c[1], c[2])
  OBVIOUS
<1>. HIDE DEF mine
<1>8. ASSUME NEW x \in PairsFrom(data, pos)
      PROVE  (HasEqual(data, pos - 1, d) /\ x = Pair(data, pos - 1, d)) \/ (next # 0 /\ x \in PairsFrom(data, next + 1))
  <2>1. PICK c \in mine(pos) : x = Pair(data, c[1], c[2])
    BY <1>2, <1>8
  <2>2. CASE c[1] = pos - 1 /\ c[2] = d
    BY <1>7, <2>1, <2>2
  <2>3. CASE ~ (c[1] = pos - 1 /\ c[2] = d)
    BY <1>2, <1>4, <2>1, <2>3
  <2>. QED BY <2>2, <2>3
<1>9. ASSUME HasEqual(data, pos - 1, d) PROVE Pair(data, pos - 1, d) \in PairsFrom(data, pos)
  <2>1. <<pos - 1, d>>[1] = pos - 1 /\ <<pos - 1, d>>[2] = d
    OBVIOUS
  <2>2. \E c \in mine(pos) : Pair(data, pos - 1, d) = Pair(data, c[1], c[2])
    BY <1>6, <1>9, <2>1
  <2>. QED BY <1>2, <2>2
<1>10. ASSUME next # 0, NEW x \in PairsFrom(data, next + 1) PROVE x \in PairsFrom(data, pos)
  BY <1>2, <1>5, <1>10
<1>. QED BY <1>8, <1>9, <1>10

\* What _parseArguments finds from a place on, for queries of every length.
LEMMA ArgumentsFrom ==
  ASSUME NEW data \in Seq(Symbols), NEW g, g = [pos \in 1 .. Len(data) + 1 |-> ArgAt(g, data, pos)]
  PROVE  \A pos \in 1 .. Len(data) + 1 : pos - 1 \in Cuts(data) => g[pos] \in Seq(Argument) /\ Request!ToSet(g[pos]) = PairsFrom(data, pos)
<1>. DEFINE N == Len(data) + 1
            Right(pos) == g[pos] \in Seq(Argument) /\ Request!ToSet(g[pos]) = PairsFrom(data, pos)
            Bad == {n \in 0 .. N : N - n \in 1 .. N /\ N - n - 1 \in Cuts(data) /\ ~Right(N - n)}
<1>1. Bad = {}
  <2>. SUFFICES ASSUME Bad # {} PROVE FALSE
    OBVIOUS
  <2>. Bad \in SUBSET Nat
    OBVIOUS
  <2>. HIDE DEF Bad
  <2>1. PICK n \in Bad : \A m \in Bad : n <= m
    BY HasLeast
  <2>. DEFINE pos == N - n
              next == Request!Find(data, "&", pos)
              equal == Request!Find(data, "=", pos)
              d == IF next = 0 THEN N ELSE next
              rest == IF next = 0 THEN <<>> ELSE g[next + 1]
              pair == Pair(data, pos - 1, d)
  <2>2. pos \in 1 .. N /\ pos - 1 \in Cuts(data) /\ ~Right(pos)
    BY <2>1 DEF Bad
  <2>3. /\ d \in pos .. N /\ (next # 0 => next \in pos .. Len(data) /\ next \in Cuts(data))
        /\ (next = 0 \/ data[next] = "&")
    <3>1. pos \in 1 .. Len(data) + 1
      BY <2>2
    <3>2. next = 0 \/ (next \in pos .. Len(data) /\ data[next] = "&")
      <4>. HIDE DEF pos
      <4>. QED BY <3>1, FindIs
    <3>. HIDE DEF pos, next
    <3>3. next # 0 => next \in Cuts(data)
      BY <3>1, <3>2 DEF Cuts
    <3>. QED BY <3>1, <3>2, <3>3
  <2>4. rest \in Seq(Argument) /\ Request!ToSet(rest) = IF next = 0 THEN {} ELSE PairsFrom(data, next + 1)
    <3>1. CASE next = 0
      <4>1. Request!ToSet(<<>>) = {} /\ <<>> \in Seq(Argument)
        BY DEF Request!ToSet
      <4>. HIDE DEF next
      <4>. QED BY <3>1, <4>1
    <3>2. CASE next # 0
      <4>1. next \in pos .. Len(data) /\ next \in Cuts(data)
        <5>. HIDE DEF next, pos
        <5>. QED BY <2>3, <3>2
      <4>2. N - (next + 1) < n /\ N - (next + 1) \in 0 .. N /\ N - (N - (next + 1)) = next + 1 /\ next + 1 - 1 = next /\ next + 1 \in 1 .. N
            /\ N - (N - (next + 1)) - 1 = next
        <5>1. n \in 0 .. N /\ N \in Nat
          BY <2>1 DEF Bad
        <5>. HIDE DEF next
        <5>. QED BY <2>2, <4>1, <5>1
      <4>3. N - (next + 1) \notin Bad
        <5>. HIDE DEF next
        <5>. QED BY <2>1, <4>2
      <4>4. Right(next + 1)
        <5>. HIDE DEF next, Right
        <5>. QED BY <4>1, <4>2, <4>3 DEF Bad
      <4>. HIDE DEF next
      <4>. QED BY <3>2, <4>4
    <3>. QED BY <3>1, <3>2
  <2>5. g[pos] = IF ~HasEqual(data, pos - 1, d) THEN rest ELSE Behind(rest, <<pair>>)
    <3>1. g[pos] = ArgAt(g, data, pos)
      <4>. HIDE DEF pos
      <4>. QED BY <2>2
    <3>2. Request!NoEqual(equal, next) <=> ~HasEqual(data, pos - 1, d)
      <4>1. pos \in 1 .. Len(data) + 1 /\ (next = 0 \/ next \in pos .. Len(data)) /\ (next = 0 \/ data[next] = "&")
        BY <2>2, <2>3
      <4>. HIDE DEF pos, next
      <4>. QED BY <4>1, EqualIs
    <3>3. pos - 1 + 1 = pos
      BY <2>2
    <3>4. pair = [key |-> SubSeq(data, pos, equal - 1), value |-> SubSeq(data, equal + 1, d - 1)]
      <4>. HIDE DEF pos, next, d
      <4>. QED BY <3>3 DEF Pair
    <3>5. d - 1 = IF next = 0 THEN Len(data) ELSE next - 1
      <4>. HIDE DEF pos, next
      <4>. QED BY <2>3
    <3>. HIDE DEF pair
    <3>. QED BY <3>1, <3>2, <3>4, <3>5 DEF ArgAt
  <2>6. HasEqual(data, pos - 1, d) => pair \in Argument
    <3>. SUFFICES ASSUME HasEqual(data, pos - 1, d) PROVE pair \in Argument
      OBVIOUS
    <3>1. equal \in pos .. d - 1
      <4>1. pos \in 1 .. Len(data) + 1 /\ (next = 0 \/ next \in pos .. Len(data))
        BY <2>2, <2>3
      <4>. HIDE DEF pos, next
      <4>. QED BY <4>1, EqualIs
    <3>2. pos - 1 + 1 = pos /\ pos \in 1 .. N /\ d \in pos .. N
      BY <2>2, <2>3
    <3>3. pair = [key |-> SubSeq(data, pos, equal - 1), value |-> SubSeq(data, equal + 1, d - 1)]
      <4>. HIDE DEF pos, next, d
      <4>. QED BY <3>2 DEF Pair
    <3>. HIDE DEF pair, pos, next, d, equal
    <3>4. SubSeq(data, pos, equal - 1) \in Seq(Symbols)
      BY <3>1, <3>2
    <3>5. SubSeq(data, equal + 1, d - 1) \in Seq(Symbols)
      BY <3>1, <3>2
    <3>. QED BY <3>3, <3>4, <3>5 DEF Argument
  <2>7. PairsFrom(data, pos) = (IF HasEqual(data, pos - 1, d) THEN {pair} ELSE {}) \union Request!ToSet(rest)
    <3>1. pos \in 1 .. Len(data) + 1
      BY <2>2
    <3>2. PairsFrom(data, pos) = (IF HasEqual(data, pos - 1, d) THEN {pair} ELSE {})
                                  \union (IF next = 0 THEN {} ELSE PairsFrom(data, next + 1))
      <4>. HIDE DEF pos
      <4>. QED BY <2>2, <3>1, PairsStep
    <3>. HIDE DEF pos, next, d, rest, pair
    <3>. QED BY <2>4, <3>2
  <2>. HIDE DEF pos, next, d, rest, pair
  <2>8. Right(pos)
    <3>1. CASE HasEqual(data, pos - 1, d)
      <4>1. g[pos] = Behind(rest, <<pair>>) /\ pair \in Argument
        BY <2>5, <2>6, <3>1
      <4>2. g[pos] \in Seq(Argument) /\ Request!ToSet(g[pos]) = {pair} \union Request!ToSet(rest)
        BY <2>4, <4>1, OneMoreArgument
      <4>. QED BY <2>7, <3>1, <4>2
    <3>2. CASE ~HasEqual(data, pos - 1, d)
      BY <2>4, <2>5, <2>7, <3>2
    <3>. QED BY <3>1, <3>2
  <2>. QED BY <2>2, <2>8
<1>2. ASSUME NEW pos \in 1 .. N, pos - 1 \in Cuts(data) PROVE Right(pos)
  <2>1. N - pos \in 0 .. N /\ N - (N - pos) = pos
    OBVIOUS
  <2>2. N - pos \notin Bad
    BY <1>1
  <2>. HIDE DEF Right
  <2>. QED BY <1>2, <2>1, <2>2
<1>. QED BY <1>2

\* _parseArguments: exactly the parts of the query that have a "=", each cut at its first one.
LEMMA ArgumentsAre ==
  ASSUME NEW data \in Seq(Symbols)
  PROVE  Request!ToSet(Request!ParseArguments(data)) = Request!Reference(data)
<1>. DEFINE g == CHOOSE h : h = [pos \in 1 .. Len(data) + 1 |-> ArgAt(h, data, pos)]
<1>1. g = [pos \in 1 .. Len(data) + 1 |-> ArgAt(g, data, pos)]
  BY ArgsExist
<1>2. Request!ParseArguments(data) = g[1]
  BY DEF Request!ParseArguments, ArgAt, Behind
<1>3. 1 \in 1 .. Len(data) + 1 /\ 1 - 1 \in Cuts(data)
  BY DEF Cuts
<1>. HIDE DEF g
<1>4. Request!ToSet(g[1]) = PairsFrom(data, 1)
  BY <1>1, <1>3, ArgumentsFrom
<1>. QED BY <1>2, <1>4, ReferenceIs

-----------------------------------------------------------------------------
(* HttpRequest: the lines, and the parser among bytes that may come late *)

reqRequest  == x1
reqArrived  == x2
reqGot      == x3
reqStage    == x4
reqText     == x5
reqSkipping == x6
reqLength   == x7
reqIsForm   == x8
reqPlain    == x9
reqArgs     == x10
reqLate     == x11
reqIsEncoded == x12

USE DEF reqRequest, reqArrived, reqGot, reqStage, reqText, reqSkipping, reqLength, reqIsForm,
        reqPlain, reqArgs, reqLate, reqIsEncoded

\* Where each sequence begins when several are sent one behind the other.
Placed(st, s) == /\ st \in [1 .. Len(s) + 1 -> Nat] /\ st[1] = 0
                /\ \A k \in 1 .. Len(s) : st[k + 1] = st[k] + Len(s[k])

\* Each sequence stands, in what FlattenSeq joins, where it begins.
LEMMA FlatIs ==
  ASSUME NEW S, NEW s \in Seq(Seq(S)), Len(s) > 0
  PROVE  /\ Request!FlattenSeq(s) \in Seq(S)
         /\ \E st : /\ Placed(st, s) /\ Len(Request!FlattenSeq(s)) = st[Len(s) + 1]
                    /\ \A k \in 1 .. Len(s) : \A j \in 1 .. Len(s[k]) :
                         /\ st[k] + j \in 1 .. st[Len(s) + 1]
                         /\ Request!FlattenSeq(s)[st[k] + j] = s[k][j]
<1>. DEFINE N == Len(s)
            flat == Request!FlattenSeq(s)
<1>0. N \in Nat \ {0} /\ \A k \in 1 .. N : s[k] \in Seq(S)
  OBVIOUS
<1>1. PICK f \in [1 .. N -> Seq(S)] : Chains(f, s) /\ flat = f[N]
  BY Flattened
<1>2. \A k \in 1 .. N : f[k] \in Seq(S) /\ f[k] = IF k = 1 THEN s[k] ELSE Behind(s[k], f[k - 1])
  BY <1>1 DEF Chains
<1>. HIDE DEF flat, N
<1>. DEFINE st == [k \in 1 .. N + 1 |-> IF k = 1 THEN 0 ELSE Len(f[k - 1])]
<1>3. st[1] = 0 /\ \A k \in 1 .. N : st[k + 1] = Len(f[k])
  BY <1>0
<1>4. st \in [1 .. N + 1 -> Nat]
  <2>1. ASSUME NEW k \in 1 .. N + 1 PROVE (IF k = 1 THEN 0 ELSE Len(f[k - 1])) \in Nat
    <3>1. k # 1 => k - 1 \in 1 .. N
      BY <1>0
    <3>. QED BY <1>2, <3>1
  <2>. QED BY <2>1
<1>. HIDE DEF st
<1>5. ASSUME NEW k \in 1 .. N
      PROVE  /\ st[k + 1] = st[k] + Len(s[k])
             /\ \A j \in 1 .. Len(s[k]) : f[k][st[k] + j] = s[k][j]
             /\ k > 1 => \A i \in 1 .. Len(f[k - 1]) : f[k][i] = f[k - 1][i]
  <2>1. CASE k = 1
    <3>1. f[k] = s[k] /\ st[k] = 0 /\ st[k + 1] = Len(f[k])
      BY <1>0, <1>2, <1>3, <2>1
    <3>. QED BY <1>0, <2>1, <3>1
  <2>2. CASE k > 1
    <3>1. k - 1 \in 1 .. N /\ k - 1 + 1 = k
      BY <1>0, <2>2
    <3>2. f[k] = Behind(s[k], f[k - 1]) /\ f[k - 1] \in Seq(S) /\ s[k] \in Seq(S) /\ st[k] = Len(f[k - 1]) /\ st[k + 1] = Len(f[k])
      BY <1>0, <1>2, <1>3, <2>2, <3>1
    <3>3. /\ Len(f[k]) = Len(f[k - 1]) + Len(s[k])
          /\ \A i \in 1 .. Len(f[k - 1]) : f[k][i] = f[k - 1][i]
          /\ \A i \in 1 .. Len(s[k]) : f[k][Len(f[k - 1]) + i] = s[k][i]
      <4>. DEFINE u == s[k]
                  v == f[k - 1]
      <4>1. u \in Seq(S) /\ v \in Seq(S) /\ f[k] = Behind(u, v)
        BY <3>2
      <4>. HIDE DEF u, v
      <4>2. /\ Len(f[k]) = Len(v) + Len(u)
            /\ \A i \in 1 .. Len(v) : f[k][i] = v[i]
            /\ \A i \in 1 .. Len(u) : f[k][Len(v) + i] = u[i]
        BY <4>1, BehindIs
      <4>. QED BY <4>2 DEF u, v
    <3>. QED BY <3>2, <3>3
  <2>. QED BY <2>1, <2>2
\* What is sent first stays in front.
<1>. DEFINE Front(k) == Len(f[k]) <= Len(flat) /\ \A i \in 1 .. Len(f[k]) : flat[i] = f[k][i]
            Bad == {n \in 0 .. N - 1 : ~Front(N - n)}
<1>6. Bad = {}
  <2>. SUFFICES ASSUME Bad # {} PROVE FALSE
    OBVIOUS
  <2>. Bad \in SUBSET Nat
    OBVIOUS
  <2>. HIDE DEF Bad
  <2>1. PICK n \in Bad : \A m \in Bad : n <= m
    BY HasLeast
  <2>2. n \in 0 .. N - 1 /\ ~Front(N - n)
    BY <2>1 DEF Bad
  <2>3. n # 0
    <3>1. N - 0 = N /\ Front(N)
      BY <1>0, <1>1
    <3>. HIDE DEF Front
    <3>. QED BY <2>2, <3>1
  <2>. DEFINE k == N - n + 1
  <2>4. k \in 2 .. N /\ N - n = k - 1 /\ N - (n - 1) = k /\ n - 1 \in 0 .. N - 1
    BY <1>0, <2>2, <2>3
  <2>5. Front(k)
    <3>1. n - 1 \notin Bad
      BY <2>1, <2>4
    <3>. HIDE DEF Front, k
    <3>. QED BY <2>4, <3>1 DEF Bad
  <2>. HIDE DEF k
  <2>6. /\ f[k - 1] \in Seq(S) /\ f[k] \in Seq(S) /\ Len(f[k - 1]) <= Len(f[k])
        /\ \A i \in 1 .. Len(f[k - 1]) : f[k][i] = f[k - 1][i]
    <3>1. k \in 1 .. N /\ k - 1 \in 1 .. N /\ k > 1 /\ k - 1 + 1 = k
      BY <1>0, <2>4
    <3>2. st[k + 1] = Len(f[k]) /\ st[k] = Len(f[k - 1]) /\ s[k] \in Seq(S)
      BY <1>0, <1>3, <3>1
    <3>3. st[k + 1] = st[k] + Len(s[k]) /\ \A i \in 1 .. Len(f[k - 1]) : f[k][i] = f[k - 1][i]
      BY <1>5, <3>1
    <3>4. f[k - 1] \in Seq(S) /\ f[k] \in Seq(S)
      BY <1>2, <3>1
    <3>5. Len(f[k - 1]) <= Len(f[k])
      <4>. DEFINE a == Len(f[k - 1])
                  b == Len(s[k])
                  c == Len(f[k])
      <4>1. a \in Nat /\ b \in Nat /\ c = a + b
        BY <3>2, <3>3, <3>4
      <4>. HIDE DEF a, b, c
      <4>2. a <= c
        BY <4>1
      <4>. QED BY <4>2 DEF a, c
    <3>. QED BY <3>3, <3>4, <3>5
  <2>7. Front(k - 1)
    BY <2>5, <2>6
  <2>. HIDE DEF Front
  <2>. QED BY <2>2, <2>4, <2>7
<1>7. \A k \in 1 .. N : Front(k)
  <2>1. ASSUME NEW k \in 1 .. N PROVE Front(k)
    <3>1. N - k \in 0 .. N - 1 /\ N - (N - k) = k
      BY <1>0
    <3>2. N - k \notin Bad
      BY <1>6
    <3>. HIDE DEF Front
    <3>. QED BY <3>1, <3>2
  <2>. HIDE DEF Front
  <2>. QED BY <2>1
<1>8. flat \in Seq(S) /\ Len(flat) = st[N + 1]
  BY <1>0, <1>1, <1>2, <1>3
<1>9. ASSUME NEW k \in 1 .. N, NEW j \in 1 .. Len(s[k])
      PROVE st[k] + j \in 1 .. st[N + 1] /\ flat[st[k] + j] = s[k][j]
  <2>1. /\ st[k] \in Nat /\ st[k + 1] = st[k] + Len(s[k]) /\ st[k + 1] = Len(f[k]) /\ s[k] \in Seq(S)
        /\ f[k][st[k] + j] = s[k][j]
    <3>1. k \in 1 .. N + 1
      BY <1>0
    <3>. QED BY <1>0, <1>3, <1>4, <1>5, <3>1
  <2>2. st[k] + j \in 1 .. Len(f[k])
    <3>. DEFINE a == st[k]
                b == Len(s[k])
                c == Len(f[k])
    <3>1. a \in Nat /\ b \in Nat /\ c = a + b /\ j \in 1 .. b
      BY <2>1
    <3>. HIDE DEF a, b, c
    <3>2. a + j \in 1 .. c
      BY <3>1
    <3>. QED BY <3>2 DEF a, c
  <2>3. Len(f[k]) <= Len(flat) /\ flat[st[k] + j] = f[k][st[k] + j]
    BY <1>7, <2>2
  <2>. QED BY <1>8, <2>1, <2>2, <2>3
<1>10. Placed(st, s)
  BY <1>3, <1>4, <1>5 DEF Placed, N
<1>. QED BY <1>8, <1>9, <1>10 DEF N, flat

\* The lines of a request.
Line(k) == Request!Lines(reqRequest)[k]
Last    == Len(Request!Lines(reqRequest))
Body    == reqRequest.body

\* Text is made of such symbols.
LEMMA SymbolsAre == \A t \in Seq(STRING) : t \in Seq(Symbols)
BY DEF Symbols

\* The parts of a request.
LEMMA RequestIs ==
  ASSUME Request!Texts, reqRequest \in Request!Requests
  PROVE  /\ reqRequest.kind \in {"get", "post", "form", "encoded"} /\ reqRequest.query \in Seq(STRING)
         /\ Body \in Seq(Symbols) /\ Len(Body) \in 0 .. 3 /\ (reqRequest.kind = "get" => Body = <<>>)
<1>1. <<>> \in Seq(STRING) /\ <<>> \in Seq(Symbols) /\ Len(<<>>) = 0
  OBVIOUS
<1>2. ASSUME reqRequest \in [kind : {"get"}, query : Queries, body : {<<>>}]
      PROVE reqRequest.kind = "get" /\ reqRequest.query \in Queries /\ Body = <<>>
  BY <1>2 DEF Body
<1>3. ASSUME reqRequest \in [kind : {"post", "form", "encoded"}, query : Queries, body : PostBodies]
      PROVE reqRequest.kind \in {"post", "form", "encoded"} /\ reqRequest.query \in Queries /\ Body \in PostBodies
  BY <1>3 DEF Body
<1>4. \/ reqRequest \in [kind : {"get"}, query : Queries, body : {<<>>}]
      \/ reqRequest \in [kind : {"post", "form", "encoded"}, query : Queries, body : PostBodies]
  BY DEF Request!Requests
<1>5. /\ \A q \in Queries : q \in Seq(STRING)
      /\ \A b \in PostBodies : b \in Seq(Symbols) /\ Len(b) <= 3
  BY SymbolsAre DEF Request!Texts
<1>. HIDE DEF Body
<1>6. CASE reqRequest \in [kind : {"get"}, query : Queries, body : {<<>>}]
  <2>1. reqRequest.kind = "get" /\ reqRequest.query \in Seq(STRING) /\ Body = <<>>
    BY <1>2, <1>5, <1>6
  <2>. QED BY <1>1, <2>1
<1>7. CASE reqRequest \in [kind : {"post", "form", "encoded"}, query : Queries, body : PostBodies]
  <2>1. /\ reqRequest.kind \in {"post", "form", "encoded"} /\ reqRequest.query \in Seq(STRING)
        /\ Body \in Seq(Symbols) /\ Len(Body) <= 3
    BY <1>3, <1>5, <1>7
  <2>2. Len(Body) \in 0 .. 3
    <3>. DEFINE n == Len(Body)
    <3>1. n \in Nat /\ n <= 3
      BY <2>1
    <3>. HIDE DEF n
    <3>2. n \in 0 .. 3
      BY <3>1
    <3>. QED BY <3>2 DEF n
  <2>. QED BY <2>1, <2>2
<1>. QED BY <1>4, <1>6, <1>7

\* Content-Length is read as it was written.
LEMMA LengthIs ==
  ASSUME NEW n \in 0 .. 3
  PROVE  /\ Request!LengthText(n) \in Seq({"0", "1"}) /\ Len(Request!LengthText(n)) \in {1, 2}
         /\ \A d \in Seq(Symbols) :
              /\ Len(d) = Len(Request!LengthText(n)) /\ \A i \in 1 .. Len(d) : d[i] = Request!LengthText(n)[i]
              => Request!Value(d) = n
<1>. DEFINE t == Request!LengthText(n)
<1>1. /\ t \in Seq({"0", "1"}) /\ Len(t) = (IF n < 2 THEN 1 ELSE 2)
      /\ n < 2 => t[1] = (IF n = 1 THEN "1" ELSE "0")
      /\ n >= 2 => t[1] = "1" /\ t[2] = (IF n = 3 THEN "1" ELSE "0")
  <2>1. CASE n < 2
    <3>1. t = <<IF n = 1 THEN "1" ELSE "0">>
      BY <2>1 DEF Request!LengthText, Request!Digits
    <3>2. \A x \in {"0", "1"} : <<x>> \in Seq({"0", "1"}) /\ Len(<<x>>) = 1 /\ <<x>>[1] = x
      OBVIOUS
    <3>. QED BY <2>1, <3>1, <3>2
  <2>2. CASE n >= 2
    <3>1. t = <<"1", IF n = 3 THEN "1" ELSE "0">>
      BY <2>2 DEF Request!LengthText, Request!Digits
    <3>2. \A x \in {"0", "1"} : <<"1", x>> \in Seq({"0", "1"}) /\ Len(<<"1", x>>) = 2 /\ <<"1", x>>[1] = "1" /\ <<"1", x>>[2] = x
      OBVIOUS
    <3>. QED BY <2>2, <3>1, <3>2
  <2>. QED BY <2>1, <2>2
<1>. HIDE DEF t
<1>2. t \in Seq({"0", "1"}) /\ Len(t) \in {1, 2}
  BY <1>1
<1>3. ASSUME NEW d \in Seq(Symbols), Len(d) = Len(t), \A i \in 1 .. Len(d) : d[i] = t[i]
      PROVE  Request!Value(d) = n
  <2>1. d # <<>> /\ Len(d) = (IF n < 2 THEN 1 ELSE 2)
    BY <1>1, <1>3
  <2>2. CASE n < 2
    <3>1. d[1] = (IF n = 1 THEN "1" ELSE "0")
      BY <1>1, <1>3, <2>1, <2>2
    <3>. QED BY <2>1, <2>2, <3>1 DEF Request!Value
  <2>3. CASE n >= 2
    <3>1. d[2] = (IF n = 3 THEN "1" ELSE "0")
      BY <1>1, <1>3, <2>1, <2>3
    <3>. QED BY <2>1, <2>3, <3>1 DEF Request!Value
  <2>. QED BY <2>2, <2>3
<1>. QED BY <1>2, <1>3 DEF t

\* A line of symbols none of which ends it, and none of which but the first names a header.
Plain(l) == /\ l \in Seq(Symbols) /\ \A j \in 1 .. Len(l) : l[j] \notin {"r", "n"}
            /\ \A j \in 2 .. Len(l) : l[j] \notin Request!Names

\* The lines of a request: which there are, and what they begin with.
LEMMA LinesAre ==
  ASSUME Request!Texts, reqRequest \in Request!Requests
  PROVE  /\ Request!Lines(reqRequest) \in Seq(Seq(Symbols))
         /\ Last = (IF reqRequest.kind = "get" THEN 3 ELSE 5)
         /\ \A k \in 1 .. Last : Plain(Line(k))
         /\ Len(Line(1)) = 2 /\ Line(1)[1] \notin Request!Names
         /\ Len(Line(2)) = 2 /\ Line(2)[1] = "host:" /\ Line(Last) = <<>>
         /\ reqRequest.kind # "get" =>
              /\ Len(Line(3)) >= 2 /\ Line(3)[1] = "type:" /\ (Line(3)[2] = "multipart" <=> reqRequest.kind = "form")
              /\ (Line(3)[2] = "encoded" <=> reqRequest.kind = "encoded")
              /\ Line(4) = Behind(Request!LengthText(Len(Body)), <<"length:">>)
              /\ Len(Line(4)) = 1 + Len(Request!LengthText(Len(Body))) /\ Line(4)[1] = "length:"
              /\ \A j \in 1 .. Len(Request!LengthText(Len(Body))) : Line(4)[1 + j] = Request!LengthText(Len(Body))[j]
<1>1. reqRequest.kind \in {"get", "post", "form", "encoded"} /\ Len(Body) \in 0 .. 3
  BY RequestIs
<1>. DEFINE first == Request!First(reqRequest)
            host == <<"host:", "h">>
            types == IF reqRequest.kind = "form" THEN <<"multipart", "boundary">>
                     ELSE IF reqRequest.kind = "encoded" THEN <<"encoded">> ELSE <<"json">>
            type == Behind(types, <<"type:">>)
            digits == Request!LengthText(Len(Body))
            size == Behind(digits, <<"length:">>)
            empty == <<>>
            front == <<first, host>>
            middle == IF reqRequest.kind = "get" THEN <<>> ELSE <<type, size>>
            end == <<empty>>
<1>2. Plain(first) /\ Len(first) = 2 /\ first[1] \notin Request!Names
  <2>1. first \in {<<"get", "uri">>, <<"post", "uri">>}
    BY DEF Request!First
  <2>. HIDE DEF first
  <2>2. first \in Seq(Symbols) /\ Len(first) = 2 /\ first[1] \in {"get", "post"} /\ first[2] = "uri"
    <3>1. CASE first = <<"get", "uri">>
      BY <3>1 DEF Symbols, Fixed
    <3>2. CASE first = <<"post", "uri">>
      BY <3>2 DEF Symbols, Fixed
    <3>. QED BY <2>1, <3>1, <3>2
  <2>3. \A j \in 1 .. Len(first) : j = 1 \/ j = 2
    BY <2>2
  <2>4. first[1] \notin Request!Names /\ first[1] \notin {"r", "n"} /\ first[2] \notin Request!Names /\ first[2] \notin {"r", "n"}
    BY <2>2 DEF Request!Names
  <2>5. \A j \in 2 .. Len(first) : j \in 1 .. Len(first) /\ j # 1
    BY <2>2
  <2>. QED BY <2>2, <2>3, <2>4, <2>5 DEF Plain
<1>3. Plain(host) /\ Len(host) = 2 /\ host[1] = "host:"
  <2>1. host \in Seq(Symbols) /\ Len(host) = 2 /\ host[1] = "host:" /\ host[2] = "h"
    BY DEF Symbols, Fixed
  <2>. HIDE DEF host
  <2>. QED BY <2>1 DEF Plain, Request!Names
<1>4. /\ Plain(type) /\ Len(type) >= 2 /\ type[1] = "type:" /\ (type[2] = "multipart" <=> reqRequest.kind = "form")
      /\ (type[2] = "encoded" <=> reqRequest.kind = "encoded")
  <2>. DEFINE name == <<"type:">>
  <2>1. /\ types \in Seq(Symbols) /\ Len(types) \in {1, 2} /\ (types[1] = "multipart" <=> reqRequest.kind = "form")
        /\ (types[1] = "encoded" <=> reqRequest.kind = "encoded")
        /\ \A j \in 1 .. Len(types) : types[j] \in {"multipart", "boundary", "encoded", "json"}
    <3>1. CASE reqRequest.kind = "form"
      BY <3>1 DEF Symbols, Fixed
    <3>2. CASE reqRequest.kind = "encoded"
      BY <3>2 DEF Symbols, Fixed
    <3>3. CASE reqRequest.kind \notin {"form", "encoded"}
      BY <3>3 DEF Symbols, Fixed
    <3>. QED BY <3>1, <3>2, <3>3
  <2>2. name \in Seq(Symbols) /\ Len(name) = 1 /\ name[1] = "type:"
    BY DEF Symbols, Fixed
  <2>3. type = Behind(types, name)
    OBVIOUS
  <2>0. types \in Seq(Symbols) /\ name \in Seq(Symbols) /\ type = Behind(types, name)
    BY <2>1, <2>2, <2>3
  <2>. HIDE DEF types, name, type
  <2>4. type \in Seq(Symbols) /\ Len(type) = Len(name) + Len(types)
    BY <2>0, BehindIs
  <2>5. /\ \A i \in 1 .. Len(name) : type[i] = name[i]
        /\ \A i \in 1 .. Len(types) : type[Len(name) + i] = types[i]
    BY <2>0, BehindIs
  <2>6. /\ type[1] = "type:" /\ type[1 + 1] = types[1]
        /\ \A j \in 2 .. Len(type) : type[j] \in {"multipart", "boundary", "encoded", "json"}
    <3>1. \A j \in 2 .. Len(type) : j - 1 \in 1 .. Len(types) /\ Len(name) + (j - 1) = j
      BY <2>1, <2>2, <2>4
    <3>. QED BY <2>1, <2>2, <2>5, <3>1
  <2>7. \A j \in 1 .. Len(type) : j = 1 \/ j \in 2 .. Len(type)
    BY <2>4
  <2>. QED BY <2>1, <2>2, <2>4, <2>6, <2>7 DEF Plain, Request!Names
<1>5. /\ Plain(size) /\ Len(size) = 1 + Len(digits) /\ size[1] = "length:"
      /\ \A j \in 1 .. Len(digits) : size[1 + j] = digits[j]
  <2>. DEFINE name == <<"length:">>
  <2>1. digits \in Seq({"0", "1"}) /\ Len(digits) \in {1, 2}
    BY <1>1, LengthIs
  <2>2. name \in Seq(Symbols) /\ Len(name) = 1 /\ name[1] = "length:"
    BY DEF Symbols, Fixed
  <2>3. size = Behind(digits, name)
    OBVIOUS
  <2>. HIDE DEF digits, name, size
  <2>4. digits \in Seq(Symbols) /\ \A j \in 1 .. Len(digits) : digits[j] \in {"0", "1"}
    <3>1. {"0", "1"} \subseteq Symbols
      BY DEF Symbols, Fixed
    <3>. QED BY <2>1, <3>1
  <2>0. digits \in Seq(Symbols) /\ name \in Seq(Symbols) /\ size = Behind(digits, name)
    BY <2>2, <2>3, <2>4
  <2>5. size \in Seq(Symbols) /\ Len(size) = Len(name) + Len(digits)
    BY <2>0, BehindIs
  <2>6. /\ \A i \in 1 .. Len(name) : size[i] = name[i]
        /\ \A i \in 1 .. Len(digits) : size[Len(name) + i] = digits[i]
    BY <2>0, BehindIs
  <2>7. \A j \in 2 .. Len(size) : size[j] \in {"0", "1"}
    <3>1. \A j \in 2 .. Len(size) : j - 1 \in 1 .. Len(digits) /\ Len(name) + (j - 1) = j
      BY <2>1, <2>2, <2>5
    <3>. QED BY <2>2, <2>4, <2>6, <3>1
  <2>8. \A j \in 1 .. Len(size) : j = 1 \/ j \in 2 .. Len(size)
    BY <2>5
  <2>9. size[1] = "length:"
    BY <2>2, <2>6
  <2>10. \A j \in 1 .. Len(size) : size[j] \notin {"r", "n"}
    BY <2>7, <2>8, <2>9
  <2>11. \A j \in 2 .. Len(size) : size[j] \notin Request!Names
    BY <2>7 DEF Request!Names
  <2>12. Plain(size)
    BY <2>5, <2>10, <2>11 DEF Plain
  <2>13. Len(size) = 1 + Len(digits) /\ \A j \in 1 .. Len(digits) : size[1 + j] = digits[j]
    BY <2>2, <2>5, <2>6
  <2>. QED BY <2>9, <2>12, <2>13
<1>6. Plain(empty)
  BY DEF Plain
<1>7. Request!Lines(reqRequest) = Behind(end, Behind(middle, front))
  BY DEF Request!Lines, Body, Behind
<1>8. first \in Seq(Symbols) /\ host \in Seq(Symbols) /\ type \in Seq(Symbols) /\ size \in Seq(Symbols) /\ empty \in Seq(Symbols)
  BY <1>2, <1>3, <1>4, <1>5, <1>6 DEF Plain
<1>. DEFINE lines == Request!Lines(reqRequest)
<1>9. /\ lines \in Seq(Seq(Symbols)) /\ lines[1] = first /\ lines[2] = host
      /\ reqRequest.kind = "get" => Len(lines) = 3 /\ lines[3] = <<>>
      /\ reqRequest.kind # "get" => Len(lines) = 5 /\ lines[3] = type /\ lines[4] = size /\ lines[5] = <<>>
  <2>. HIDE DEF first, host, type, size, lines
  <2>1. front \in Seq(Seq(Symbols)) /\ Len(front) = 2 /\ front[1] = first /\ front[2] = host
    BY <1>8
  <2>2. end \in Seq(Seq(Symbols)) /\ Len(end) = 1 /\ end[1] = <<>>
    BY <1>8
  <2>3. /\ middle \in Seq(Seq(Symbols))
        /\ reqRequest.kind = "get" => Len(middle) = 0
        /\ reqRequest.kind # "get" => Len(middle) = 2 /\ middle[1] = type /\ middle[2] = size
    BY <1>8
  <2>. DEFINE most == Behind(middle, front)
  <2>. HIDE DEF front, middle, end
  <2>0. middle \in Seq(Seq(Symbols)) /\ front \in Seq(Seq(Symbols)) /\ most = Behind(middle, front)
    BY <2>1, <2>3
  <2>. HIDE DEF most
  <2>4. most \in Seq(Seq(Symbols)) /\ Len(most) = Len(front) + Len(middle)
    BY <2>0, BehindIs
  <2>5. /\ \A i \in 1 .. Len(front) : most[i] = front[i]
        /\ \A i \in 1 .. Len(middle) : most[Len(front) + i] = middle[i]
    <3>. DEFINE T == Seq(Symbols)
    <3>1. middle \in Seq(T) /\ front \in Seq(T) /\ most = Behind(middle, front)
      BY <2>0
    <3>. HIDE DEF T
    <3>. QED BY <3>1, BehindIs
  <2>6. lines = Behind(end, most)
    BY <1>7 DEF lines, most, front, middle, end
  <2>11. end \in Seq(Seq(Symbols)) /\ most \in Seq(Seq(Symbols)) /\ lines = Behind(end, most)
    BY <2>2, <2>4, <2>6
  <2>7. lines \in Seq(Seq(Symbols)) /\ Len(lines) = Len(most) + Len(end)
    BY <2>11, BehindIs
  <2>8. /\ \A i \in 1 .. Len(most) : lines[i] = most[i]
        /\ \A i \in 1 .. Len(end) : lines[Len(most) + i] = end[i]
    <3>. DEFINE T == Seq(Symbols)
    <3>1. end \in Seq(T) /\ most \in Seq(T) /\ lines = Behind(end, most)
      BY <2>11
    <3>. HIDE DEF T
    <3>. QED BY <3>1, BehindIs
  <2>9. most[1] = first /\ most[2] = host
    BY <2>1, <2>5
  <2>10. lines[1] = first /\ lines[2] = host /\ lines[Len(most) + 1] = <<>>
    <3>1. 1 \in 1 .. Len(most) /\ 2 \in 1 .. Len(most) /\ 1 \in 1 .. Len(end)
      BY <2>1, <2>2, <2>3, <2>4
    <3>. QED BY <2>2, <2>8, <2>9, <3>1
  <2>13. reqRequest.kind # "get" => lines[3] = type /\ lines[4] = size
    <3>1. ASSUME reqRequest.kind # "get" PROVE most[3] = type /\ most[4] = size /\ Len(most) = 4
      <4>1. 1 \in 1 .. Len(middle) /\ 2 \in 1 .. Len(middle) /\ Len(front) + 1 = 3 /\ Len(front) + 2 = 4
        BY <2>1, <2>3, <3>1
      <4>. QED BY <2>1, <2>3, <2>4, <2>5, <3>1, <4>1
    <3>. QED BY <2>8, <3>1
  <2>12. Len(most) = IF reqRequest.kind = "get" THEN 2 ELSE 4
    <3>1. Len(front) = 2 /\ Len(middle) = IF reqRequest.kind = "get" THEN 0 ELSE 2
      BY <2>1, <2>3
    <3>. QED BY <2>4, <3>1
  <2>. QED BY <2>2, <2>7, <2>10, <2>12, <2>13
<1>. HIDE DEF first, host, type, digits, size, lines
<1>10. Last = (IF reqRequest.kind = "get" THEN 3 ELSE 5) /\ Line(Last) = <<>> /\ \A k : Line(k) = lines[k]
  BY <1>9 DEF Last, Line, lines
<1>11. ASSUME NEW k \in 1 .. Last PROVE Plain(Line(k))
  <2>1. CASE reqRequest.kind = "get"
    <3>1. k = 1 \/ k = 2 \/ k = 3
      BY <1>10, <2>1
    <3>. QED BY <1>2, <1>3, <1>6, <1>9, <1>10, <2>1, <3>1
  <2>2. CASE reqRequest.kind # "get"
    <3>1. k = 1 \/ k = 2 \/ k = 3 \/ k = 4 \/ k = 5
      BY <1>10, <2>2
    <3>. QED BY <1>2, <1>3, <1>4, <1>5, <1>6, <1>9, <1>10, <2>2, <3>1
  <2>. QED BY <2>1, <2>2
<1>12. ASSUME reqRequest.kind # "get" PROVE Line(3) = type /\ Line(4) = size
  BY <1>9, <1>10, <1>12
<1>13. Line(1) = first /\ Line(2) = host
  BY <1>9, <1>10
<1>. QED BY <1>2, <1>3, <1>4, <1>5, <1>9, <1>10, <1>11, <1>12, <1>13 DEF lines, size, digits

\* Where each line of the request begins, and the body behind the last.
LineStarts(st) ==
  /\ st \in [1 .. Last + 1 -> Nat] /\ st[1] = 0
  /\ \A k \in 1 .. Last : /\ st[k + 1] = st[k] + Len(Line(k)) + 2
                          /\ st[k + 1] <= Len(Request!Sent)
                          /\ \A j \in 1 .. Len(Line(k)) : Request!Sent[st[k] + j] = Line(k)[j]
                          /\ Request!Sent[st[k] + Len(Line(k)) + 1] = "r"
                          /\ Request!Sent[st[k] + Len(Line(k)) + 2] = "n"
  /\ Len(Request!Sent) = st[Last + 1] + Len(Body)
  /\ \A j \in 1 .. Len(Body) : Request!Sent[st[Last + 1] + j] = Body[j]

\* The bytes of a request are its lines, each with its "r" and "n", and the body.
LEMMA SentIs ==
  ASSUME Request!Texts, reqRequest \in Request!Requests
  PROVE  Request!Sent \in Seq(Symbols) /\ \E st : LineStarts(st)
<1>. DEFINE lines == Request!Lines(reqRequest)
            s == [i \in 1 .. Last |-> Behind(<<"r", "n">>, lines[i])]
            flat == Request!FlattenSeq(s)
            rn == <<"r", "n">>
            sent == Request!Sent
<1>1. lines \in Seq(Seq(Symbols)) /\ Len(lines) = Last /\ Last \in {3, 5} /\ \A k \in 1 .. Last : lines[k] = Line(k) /\ Line(k) \in Seq(Symbols)
  <2>1. lines \in Seq(Seq(Symbols)) /\ Last \in {3, 5}
    BY LinesAre
  <2>. QED BY <2>1, LinesAre DEF Line, Last, Plain
<1>2. rn \in Seq(Symbols) /\ Len(rn) = 2 /\ rn[1] = "r" /\ rn[2] = "n"
  BY DEF Symbols, Fixed
<1>3. Request!Sent = Behind(Body, flat)
  <2>1. DOMAIN lines = 1 .. Last
    BY <1>1
  <2>2. Request!Sent = Behind(reqRequest.body, Request!FlattenSeq([i \in DOMAIN lines |-> Behind(<<"r", "n">>, lines[i])]))
    BY DEF Request!Sent, Request!Crlf, Behind
  <2>. QED BY <2>1, <2>2 DEF Body
<1>. HIDE DEF lines, rn
<1>4. ASSUME NEW k \in 1 .. Last
      PROVE  /\ Behind(rn, Line(k)) \in Seq(Symbols) /\ Len(Behind(rn, Line(k))) = Len(Line(k)) + 2
             /\ \A j \in 1 .. Len(Line(k)) : Behind(rn, Line(k))[j] = Line(k)[j]
             /\ Behind(rn, Line(k))[Len(Line(k)) + 1] = "r" /\ Behind(rn, Line(k))[Len(Line(k)) + 2] = "n"
  <2>. DEFINE l == Line(k)
              b == Behind(rn, l)
  <2>0. l \in Seq(Symbols) /\ rn \in Seq(Symbols) /\ b = Behind(rn, l)
    BY <1>1, <1>2
  <2>. HIDE DEF l, b
  <2>1. b \in Seq(Symbols) /\ Len(b) = Len(l) + Len(rn)
    BY <2>0, BehindIs
  <2>2. /\ \A i \in 1 .. Len(l) : b[i] = l[i]
        /\ \A i \in 1 .. Len(rn) : b[Len(l) + i] = rn[i]
    BY <2>0, BehindIs
  <2>3. b[Len(l) + 1] = "r" /\ b[Len(l) + 2] = "n"
    BY <1>2, <2>2
  <2>. QED BY <1>2, <2>1, <2>2, <2>3 DEF l, b
<1>5. s \in Seq(Seq(Symbols)) /\ Len(s) = Last /\ \A k \in 1 .. Last : s[k] = Behind(rn, Line(k))
  <2>1. \A k \in 1 .. Last : Behind(rn, lines[k]) \in Seq(Symbols) /\ Behind(rn, lines[k]) = Behind(rn, Line(k))
    BY <1>1, <1>4
  <2>2. s = [i \in 1 .. Last |-> Behind(rn, lines[i])]
    BY DEF rn
  <2>. QED BY <1>1, <2>1, <2>2
<1>. HIDE DEF s
<1>6. Last \in Nat /\ Len(s) > 0
  BY <1>1, <1>5
<1>7. flat \in Seq(Symbols)
  BY <1>5, <1>6, FlatIs
<1>8. PICK st : /\ Placed(st, s) /\ Len(flat) = st[Len(s) + 1]
                /\ \A k \in 1 .. Len(s) : \A j \in 1 .. Len(s[k]) :
                     st[k] + j \in 1 .. st[Len(s) + 1] /\ flat[st[k] + j] = s[k][j]
  BY <1>5, <1>6, FlatIs
<1>. HIDE DEF flat
<1>9. Body \in Seq(Symbols)
  BY RequestIs
<1>10. sent = Behind(Body, flat) /\ Body \in Seq(Symbols) /\ flat \in Seq(Symbols)
  BY <1>3, <1>7, <1>9
<1>. HIDE DEF sent
<1>11. sent \in Seq(Symbols) /\ Len(sent) = Len(flat) + Len(Body)
  BY <1>10, BehindIs
<1>12. /\ \A i \in 1 .. Len(flat) : sent[i] = flat[i]
       /\ \A i \in 1 .. Len(Body) : sent[Len(flat) + i] = Body[i]
  BY <1>10, BehindIs
<1>13. st \in [1 .. Last + 1 -> Nat] /\ st[1] = 0 /\ Len(flat) = st[Last + 1]
  BY <1>5, <1>8 DEF Placed
<1>14. ASSUME NEW k \in 1 .. Last
       PROVE  /\ st[k + 1] = st[k] + Len(Line(k)) + 2
              /\ st[k + 1] <= Len(sent)
              /\ \A j \in 1 .. Len(Line(k)) : sent[st[k] + j] = Line(k)[j]
              /\ sent[st[k] + Len(Line(k)) + 1] = "r"
              /\ sent[st[k] + Len(Line(k)) + 2] = "n"
  <2>. DEFINE l == Line(k)
              b == Behind(rn, l)
              off == st[k]
  <2>1. /\ b \in Seq(Symbols) /\ Len(b) = Len(l) + 2 /\ l \in Seq(Symbols)
        /\ b[Len(l) + 1] = "r" /\ b[Len(l) + 2] = "n"
    BY <1>1, <1>4
  <2>2. \A j \in 1 .. Len(l) : b[j] = l[j]
    BY <1>4
  <2>3. off \in Nat /\ k \in 1 .. Len(s) /\ s[k] = b /\ st[k + 1] = off + Len(b)
    <3>1. k \in 1 .. Last + 1
      BY <1>6
    <3>. QED BY <1>5, <1>8, <1>13, <3>1 DEF Placed
  <2>4. \A j \in 1 .. Len(b) : off + j \in 1 .. Len(flat) /\ flat[off + j] = b[j]
    BY <1>8, <2>3
  <2>. HIDE DEF l, b, off
  <2>5. \A j \in 1 .. Len(b) : sent[off + j] = b[j]
    BY <1>12, <2>4
  <2>6. Len(l) \in Nat /\ Len(b) \in Nat /\ Len(flat) \in Nat /\ Len(Body) \in Nat
    BY <1>7, <1>9, <2>1
  <2>7. \A j \in 1 .. Len(l) : sent[off + j] = l[j]
    BY <2>1, <2>2, <2>5, <2>6
  <2>8. sent[off + (Len(l) + 1)] = "r" /\ sent[off + (Len(l) + 2)] = "n"
    BY <2>1, <2>5, <2>6
  <2>9. off + (Len(l) + 1) = off + Len(l) + 1 /\ off + (Len(l) + 2) = off + Len(l) + 2 /\ off + Len(b) = off + Len(l) + 2
    BY <2>1, <2>3, <2>6
  <2>10. off + Len(b) <= Len(sent)
    <3>1. off + Len(b) \in 1 .. Len(flat)
      <4>1. Len(b) \in 1 .. Len(b)
        BY <2>1, <2>6
      <4>. QED BY <2>4, <4>1
    <3>. QED BY <1>11, <2>6, <3>1
  <2>11. st[k + 1] = off + Len(l) + 2 /\ st[k + 1] <= Len(sent)
    BY <2>3, <2>9, <2>10
  <2>12. sent[off + Len(l) + 1] = "r" /\ sent[off + Len(l) + 2] = "n"
    BY <2>8, <2>9
  <2>. QED BY <2>7, <2>11, <2>12 DEF l, off
<1>15. Len(sent) = st[Last + 1] + Len(Body) /\ \A j \in 1 .. Len(Body) : sent[st[Last + 1] + j] = Body[j]
  BY <1>11, <1>12, <1>13
<1>16. LineStarts(st)
  BY <1>13, <1>14, <1>15 DEF LineStarts, sent
<1>. QED BY <1>11, <1>16 DEF sent

\* The byte that is next, at a place in a line.
LEMMA ByteAt ==
  ASSUME NEW st, LineStarts(st), Last \in Nat, NEW k \in 1 .. Last, Plain(Line(k)), reqGot \in Nat,
         st[k] <= reqGot, reqGot <= st[k] + Len(Line(k)) + 1
  PROVE  /\ st[k] \in Nat /\ Len(Line(k)) \in Nat /\ st[k + 1] = st[k] + Len(Line(k)) + 2 /\ st[k + 1] <= Len(Request!Sent)
         /\ Request!Byte = "n" <=> reqGot = st[k] + Len(Line(k)) + 1
         /\ Request!Byte = "r" <=> reqGot = st[k] + Len(Line(k))
         /\ Request!Byte \in Request!Names => reqGot = st[k]
         /\ reqGot < st[k] + Len(Line(k)) => Request!Byte = Line(k)[reqGot - st[k] + 1]
<1>. DEFINE l == Line(k)
            off == st[k]
            N == Len(l)
            B == Request!Byte
<1>1. /\ off \in Nat /\ N \in Nat /\ st[k + 1] = off + N + 2 /\ st[k + 1] <= Len(Request!Sent)
      /\ Request!Sent[off + N + 1] = "r" /\ Request!Sent[off + N + 2] = "n"
  <2>1. k \in 1 .. Last + 1 /\ l \in Seq(Symbols)
    BY DEF Plain
  <2>2. off \in Nat /\ N \in Nat
    BY <2>1 DEF LineStarts
  <2>. QED BY <2>2 DEF LineStarts
<1>2. \A j \in 1 .. N : Request!Sent[off + j] = l[j] /\ l[j] \notin {"r", "n"} /\ (j # 1 => l[j] \notin Request!Names)
  <2>1. \A j \in 1 .. N : j # 1 => j \in 2 .. N
    BY <1>1
  <2>. QED BY <2>1 DEF LineStarts, Plain
<1>0. B = Request!Sent[reqGot + 1]
  BY DEF Request!Byte
<1>. HIDE DEF B
<1>3. off <= reqGot /\ reqGot <= off + N + 1 /\ B = Request!Sent[reqGot + 1]
  BY <1>0
<1>. HIDE DEF l, off, N
<1>4. /\ B = "n" <=> reqGot = off + N + 1
      /\ B = "r" <=> reqGot = off + N
      /\ B \in Request!Names => reqGot = off
      /\ reqGot < off + N => B = l[reqGot - off + 1]
  <2>1. CASE reqGot < off + N
    <3>. DEFINE j == reqGot - off + 1
    <3>1. j \in 1 .. N /\ off + j = reqGot + 1 /\ (j = 1 <=> reqGot = off)
      BY <1>1, <1>3, <2>1
    <3>2. B = l[j] /\ B \notin {"r", "n"} /\ (reqGot # off => B \notin Request!Names)
      BY <1>2, <1>3, <3>1
    <3>3. reqGot # off + N /\ reqGot # off + N + 1
      BY <1>1, <2>1
    <3>. QED BY <3>2, <3>3
  <2>2. CASE reqGot = off + N
    <3>1. B = "r"
      BY <1>1, <1>3, <2>2
    <3>2. ~ (reqGot < off + N) /\ reqGot # off + N + 1
      BY <1>1, <2>2
    <3>. QED BY <2>2, <3>1, <3>2 DEF Request!Names
  <2>3. CASE reqGot = off + N + 1
    <3>1. reqGot + 1 = off + N + 2 /\ ~ (reqGot < off + N) /\ reqGot # off + N
      BY <1>1, <2>3
    <3>2. B = "n"
      BY <1>1, <1>3, <3>1
    <3>. QED BY <2>3, <3>1, <3>2 DEF Request!Names
  <2>. QED BY <1>1, <1>3, <2>1, <2>2, <2>3
<1>. QED BY <1>1, <1>4 DEF l, off, N, B

\* The parser's variables, without what they mean.
ReqType ==
  /\ reqRequest \in Request!Requests
  /\ reqArrived \in 0 .. Len(Request!Sent) /\ reqGot \in 0 .. reqArrived
  /\ reqText \in Seq(Symbols) /\ reqPlain \in Seq(Symbols)
  /\ reqSkipping \in BOOLEAN /\ reqIsForm \in BOOLEAN /\ reqIsEncoded \in BOOLEAN /\ reqLate \in BOOLEAN
  /\ reqStage \in {"line", "headers", "body", "handled", "form", "refused"}

\* The reader is in a line, and what it has of it is how the line begins ...
InLine(st, k) ==
  /\ reqStage = IF k = 1 THEN "line" ELSE "headers"
  /\ Len(reqText) <= Len(Line(k)) /\ \A i \in 1 .. Len(reqText) : reqText[i] = Line(k)[i]
  /\ st[k] + Len(reqText) <= reqGot /\ reqGot <= st[k] + Len(Line(k)) + 1
  /\ ~reqSkipping => reqGot = st[k] + Len(reqText)
  /\ ~reqLate => /\ reqSkipping => Len(reqText) = Len(Line(k))
                 /\ reqIsForm = (k > 3 /\ reqRequest.kind = "form") /\ reqIsEncoded = (k > 3 /\ reqRequest.kind = "encoded")
                 /\ reqLength = (IF k > 4 THEN Len(Body) ELSE 0)

\* ... or bytes came late, and what it takes for a line ends the headers.
OutOfStep ==
  /\ reqStage = "headers" /\ reqLate
  /\ reqText # <<>> => reqText[1] \notin Request!Names
  /\ reqText = <<>> /\ ~reqSkipping => Request!Byte \notin Request!Names

\* What was read of the body is how it begins.
InBody(st) ==
  /\ reqRequest.kind # "form" /\ reqIsEncoded = (reqRequest.kind = "encoded") /\ reqLength = Len(Body)
  /\ Len(reqPlain) <= Len(Body) /\ reqGot = st[Last + 1] + Len(reqPlain)
  /\ \A i \in 1 .. Len(reqPlain) : reqPlain[i] = Body[i]

\* The lines said what the request is, or part of that if they came late.
Known == (reqIsForm => reqRequest.kind = "form") /\ (reqIsEncoded => reqRequest.kind = "encoded")

\* The arguments as the parser has them, once there are any ...
Parsed ==
  /\ reqStage = "form" => reqIsForm /\ reqArgs = Request!ParseArguments(reqRequest.query)
  /\ reqStage = "handled" =>
       reqArgs = Request!ParseArguments(IF reqIsEncoded THEN Request!Joined(reqRequest.query, reqPlain) ELSE reqRequest.query)

\* ... and what a request is whose lines came in time.
Whole == reqRequest.kind # "form" /\ reqPlain = Body /\ reqIsEncoded = (reqRequest.kind = "encoded")

\* All, for some placement of the lines.
ReqInv ==
  /\ ReqType /\ Known /\ Parsed
  /\ reqStage \in {"line", "headers"} => reqPlain = <<>>
  /\ reqStage = "handled" /\ ~reqLate => Whole
  /\ \E st : /\ LineStarts(st)
             /\ reqStage \in {"line", "headers"} => OutOfStep \/ \E k \in 1 .. Last : InLine(st, k)
             /\ reqStage = "body" /\ ~reqLate => InBody(st)

\* A request that stays the same has the same bytes in the same places.
LEMMA Unasked ==
  ASSUME reqRequest' = reqRequest
  PROVE  /\ Request!Sent' = Request!Sent /\ Last' = Last /\ Body' = Body /\ \A k : Line(k)' = Line(k)
         /\ \A st : LineStarts(st)' <=> LineStarts(st)
<1>1. Request!Sent' = Request!Sent
  BY DEF Request!Sent
<1>2. Last' = Last /\ Body' = Body /\ \A k : Line(k)' = Line(k)
  BY DEF Last, Body, Line
<1>. QED BY <1>1, <1>2 DEF LineStarts

\* The parser begins in the first line.
LEMMA ReqInit == ASSUME Request!Texts, Request!Init PROVE ReqInv
<1>1. /\ reqRequest \in Request!Requests /\ reqArrived = 0 /\ reqGot = 0 /\ reqStage = "line" /\ reqText = <<>>
      /\ reqSkipping = FALSE /\ reqLength = 0 /\ reqIsForm = FALSE /\ reqIsEncoded = FALSE
      /\ reqPlain = <<>> /\ reqLate = FALSE
  BY DEF Request!Init
<1>2. Request!Sent \in Seq(Symbols) /\ \E st : LineStarts(st)
  BY <1>1, SentIs
<1>3. PICK st : LineStarts(st)
  BY <1>2
<1>4. ReqType
  <2>1. Len(Request!Sent) \in Nat /\ <<>> \in Seq(Symbols)
    BY <1>2
  <2>2. reqArrived \in 0 .. Len(Request!Sent) /\ reqGot \in 0 .. reqArrived
    BY <1>1, <2>1
  <2>3. reqText \in Seq(Symbols) /\ reqPlain \in Seq(Symbols)
    BY <1>1, <2>1
  <2>. QED BY <1>1, <2>2, <2>3 DEF ReqType
<1>5. Last \in {3, 5} /\ Len(Line(1)) = 2
  BY <1>1, LinesAre
<1>6. st[1] = 0
  BY <1>3 DEF LineStarts
<1>7. 1 \in 1 .. Last /\ InLine(st, 1)
  <2>1. Len(reqText) = 0 /\ \A i \in 1 .. Len(reqText) : reqText[i] = Line(1)[i]
    BY <1>1
  <2>2. 1 \in 1 .. Last /\ Len(reqText) <= Len(Line(1)) /\ st[1] + Len(reqText) <= reqGot /\ reqGot = st[1] + Len(reqText)
        /\ reqGot <= st[1] + Len(Line(1)) + 1
    BY <1>1, <1>5, <1>6, <2>1
  <2>3. /\ reqIsForm = (1 > 3 /\ reqRequest.kind = "form") /\ reqIsEncoded = (1 > 3 /\ reqRequest.kind = "encoded")
        /\ reqLength = (IF 1 > 4 THEN Len(Body) ELSE 0)
    <3>1. ~ (1 > 3) /\ ~ (1 > 4)
      OBVIOUS
    <3>2. (1 > 3 /\ reqRequest.kind = "form") = FALSE /\ (1 > 3 /\ reqRequest.kind = "encoded") = FALSE
      BY <3>1
    <3>. QED BY <1>1, <3>1, <3>2, Zenon
  <2>4. reqStage = "line" /\ ~reqSkipping
    BY <1>1
  <2>. QED BY <2>1, <2>2, <2>3, <2>4 DEF InLine
<1>. QED BY <1>1, <1>3, <1>4, <1>7 DEF ReqInv, Known, Parsed

\* The line that ends the headers: the arguments are parsed and the stage is chosen.
LEMMA EndsHeaders ==
  ASSUME Request!Texts, ReqType, Request!EndOfHeaders, Request!HeaderLine
  PROVE  /\ reqStage' \in {"handled", "form", "body"}
         /\ reqStage' # "body" => reqArgs' = Request!ParseArguments(reqRequest.query)
         /\ reqIsForm' = reqIsForm /\ reqIsEncoded' = reqIsEncoded /\ reqLength' = reqLength /\ reqPlain' = reqPlain
         /\ reqStage' = "handled" <=> reqRequest.kind = "get"
         /\ reqStage' = "form" => reqIsForm
         /\ reqStage' = "body" => ~reqIsForm
<1>1. reqText = <<>> \/ (reqText[1] # "length:" /\ reqText[1] # "type:")
  BY DEF Request!EndOfHeaders, Request!Names
<1>2. Len(reqText) > 1 => reqText # <<>>
  BY DEF ReqType
<1>3. ~Request!Typed("multipart") /\ ~Request!Typed("encoded")
  BY <1>1, <1>2 DEF Request!Typed
<1>4. reqIsForm' = reqIsForm /\ reqIsEncoded' = reqIsEncoded /\ reqLength' = reqLength /\ reqPlain' = reqPlain
  BY <1>1, <1>3 DEF Request!HeaderLine, ReqType
<1>5. /\ reqStage' = Request!AfterHeaders
      /\ Request!AfterHeaders # "body" => reqArgs' = Request!ParseArguments(reqRequest.query)
  BY DEF Request!HeaderLine
<1>. QED BY <1>4, <1>5 DEF Request!AfterHeaders, ReqType

\* An empty line that comes too late, or one that names no header.
LEMMA LostLineEnds ==
  ASSUME Request!Texts, ReqInv, OutOfStep, Request!LineDone, reqRequest' = reqRequest, reqArrived' = reqArrived,
         reqGot' \in 0 .. reqArrived, reqLate' = TRUE
  PROVE  ReqInv'
<1>1. Request!EndOfHeaders
  BY DEF OutOfStep, Request!EndOfHeaders
<1>2. Request!HeaderLine /\ reqText' = <<>> /\ reqSkipping' = FALSE
  BY DEF OutOfStep, Request!LineDone
<1>3. ReqType
  BY DEF ReqInv
<1>4. /\ reqStage' \in {"handled", "form", "body"}
      /\ reqStage' # "body" => reqArgs' = Request!ParseArguments(reqRequest.query)
      /\ reqIsForm' = reqIsForm /\ reqIsEncoded' = reqIsEncoded /\ reqLength' = reqLength /\ reqPlain' = reqPlain
      /\ reqStage' = "form" => reqIsForm
      /\ reqStage' = "handled" => reqRequest.kind = "get"
  BY <1>1, <1>2, <1>3, EndsHeaders
<1>5. PICK st : LineStarts(st)
  BY DEF ReqInv
<1>6. LineStarts(st)' /\ Request!Sent' = Request!Sent
  BY <1>5, Unasked
<1>7. ReqType'
  <2>1. reqText' \in Seq(Symbols) /\ reqPlain' \in Seq(Symbols)
    BY <1>2, <1>3, <1>4 DEF ReqType
  <2>2. reqArrived' \in 0 .. Len(Request!Sent)' /\ reqGot' \in 0 .. reqArrived'
    BY <1>3, <1>6 DEF ReqType
  <2>. QED BY <1>2, <1>3, <1>4, <2>1, <2>2 DEF ReqType
<1>8. Known'
  BY <1>4 DEF ReqInv, Known
<1>9. Parsed'
  BY <1>4 DEF ReqInv, Known, Parsed
<1>. QED BY <1>4, <1>6, <1>7, <1>8, <1>9 DEF ReqInv

\* The end of a line at which the reader still knows where it is.
LEMMA KnownLineEnds ==
  ASSUME Request!Texts, ReqInv, NEW st, LineStarts(st), NEW k \in 1 .. Last, InLine(st, k), reqSkipping,
         Request!LineDone, reqRequest' = reqRequest, reqArrived' = reqArrived,
         \/ reqGot' = reqGot + 1 /\ reqGot < reqArrived /\ reqGot = st[k] + Len(Line(k)) + 1 /\ reqLate' = reqLate
         \/ reqGot' = reqGot /\ reqLate' = TRUE
  PROVE  ReqInv'
<1>1. ReqType /\ Known /\ reqPlain = <<>> /\ reqText' = <<>> /\ reqSkipping' = FALSE
  BY DEF ReqInv, InLine, Request!LineDone
<1>2. /\ Last = (IF reqRequest.kind = "get" THEN 3 ELSE 5)
      /\ \A n \in 1 .. Last : Plain(Line(n))
      /\ Len(Line(1)) = 2 /\ Line(1)[1] \notin Request!Names
      /\ Len(Line(2)) = 2 /\ Line(2)[1] = "host:" /\ Line(Last) = <<>>
      /\ reqRequest.kind # "get" =>
           /\ Len(Line(3)) >= 2 /\ Line(3)[1] = "type:" /\ (Line(3)[2] = "multipart" <=> reqRequest.kind = "form")
           /\ (Line(3)[2] = "encoded" <=> reqRequest.kind = "encoded")
           /\ Len(Line(4)) = 1 + Len(Request!LengthText(Len(Body))) /\ Line(4)[1] = "length:"
           /\ \A j \in 1 .. Len(Request!LengthText(Len(Body))) : Line(4)[1 + j] = Request!LengthText(Len(Body))[j]
  BY <1>1, LinesAre DEF ReqType
<1>3. /\ reqRequest.kind \in {"get", "post", "form", "encoded"} /\ Body \in Seq(Symbols) /\ Len(Body) \in 0 .. 3
      /\ (reqRequest.kind = "get" => Body = <<>>)
  BY <1>1, RequestIs DEF ReqType
<1>4. reqGot \in Nat /\ reqText \in Seq(Symbols) /\ reqArrived \in 0 .. Len(Request!Sent) /\ Last \in Nat /\ Len(reqText) \in Nat
  BY <1>1, <1>2 DEF ReqType
<1>5. /\ st[k] \in Nat /\ Len(Line(k)) \in Nat /\ st[k + 1] = st[k] + Len(Line(k)) + 2
      /\ Request!Byte \in Request!Names => reqGot = st[k]
  <2>1. st[k] \in Nat
    BY <1>4 DEF LineStarts
  <2>2. st[k] <= reqGot /\ reqGot <= st[k] + Len(Line(k)) + 1
    BY <1>4, <2>1 DEF InLine
  <2>. QED BY <1>2, <1>4, <2>2, ByteAt
<1>6. Last' = Last /\ Body' = Body /\ Request!Sent' = Request!Sent /\ LineStarts(st)' /\ \A n : Line(n)' = Line(n)
  BY Unasked
<1>7. reqGot' \in 0 .. reqArrived
  BY <1>1, <1>4 DEF ReqType
<1>8. /\ Len(reqText) <= Len(Line(k)) /\ (\A i \in 1 .. Len(reqText) : reqText[i] = Line(k)[i])
      /\ st[k] + Len(reqText) <= reqGot
      /\ ~reqLate => /\ Len(reqText) = Len(Line(k))
                     /\ reqIsForm = (k > 3 /\ reqRequest.kind = "form") /\ reqIsEncoded = (k > 3 /\ reqRequest.kind = "encoded")
                     /\ reqLength = (IF k > 4 THEN Len(Body) ELSE 0)
  BY DEF InLine
<1>9. ASSUME reqStage' = "headers", reqPlain' = reqPlain, reqIsForm' \in BOOLEAN, reqIsEncoded' \in BOOLEAN, Known',
             k # Last, reqText # <<>>,
             ~reqLate => /\ reqIsForm' = (k + 1 > 3 /\ reqRequest.kind = "form")
                         /\ reqIsEncoded' = (k + 1 > 3 /\ reqRequest.kind = "encoded")
                         /\ reqLength' = (IF k + 1 > 4 THEN Len(Body) ELSE 0)
      PROVE  ReqInv'
  <2>1. ReqType'
    BY <1>1, <1>6, <1>7, <1>9 DEF ReqType
  <2>2. CASE reqGot' = reqGot /\ reqLate' = TRUE
    <3>1. Len(reqText) # 0
      BY <1>4, <1>9
    <3>2. reqGot # st[k]
      BY <1>4, <1>5, <1>8, <3>1
    <3>3. Request!Byte \notin Request!Names /\ Request!Byte' = Request!Byte
      BY <1>5, <1>6, <2>2, <3>2 DEF Request!Byte
    <3>4. OutOfStep'
      BY <1>1, <1>9, <2>2, <3>3 DEF OutOfStep, Request!Names
    <3>. QED BY <1>1, <1>6, <1>9, <2>1, <3>4 DEF ReqInv, Parsed
  <2>3. CASE reqGot' = reqGot + 1 /\ reqGot = st[k] + Len(Line(k)) + 1 /\ reqLate' = reqLate
    <3>1. k + 1 \in 1 .. Last /\ k + 1 # 1
      BY <1>4, <1>9
    <3>2. reqGot' = st[k + 1] /\ Plain(Line(k + 1))
      <4>1. reqGot + 1 = st[k] + Len(Line(k)) + 2
        BY <1>4, <1>5, <2>3
      <4>. QED BY <1>2, <1>5, <2>3, <3>1, <4>1
    <3>3. st[k + 1] \in Nat /\ Len(Line(k + 1)) \in Nat
      BY <1>5, <3>2 DEF Plain
    <3>4. InLine(st, k + 1)'
      <4>1. Len(reqText') = 0 /\ 1 .. Len(reqText') = {}
        BY <1>1
      <4>. QED BY <1>1, <1>6, <1>9, <2>3, <3>1, <3>2, <3>3, <4>1 DEF InLine
    <3>. QED BY <1>1, <1>6, <1>9, <2>1, <3>1, <3>4 DEF ReqInv, Parsed
  <2>. QED BY <2>2, <2>3
<1>10. CASE k = 1
  <2>1. reqStage = "line" /\ Request!RequestLine /\ UNCHANGED Request!parsed
    BY <1>10 DEF InLine, Request!LineDone
  <2>2. CASE Len(reqText) = 2
    <3>1. reqStage' = "headers" /\ reqText # <<>> /\ k # Last
      BY <1>2, <1>10, <2>1, <2>2 DEF Request!RequestLine
    <3>. QED BY <1>1, <1>8, <1>9, <1>10, <2>1, <3>1 DEF Request!parsed, ReqType, Known
  <2>3. CASE Len(reqText) # 2
    <3>1. reqStage' = "refused"
      BY <2>1, <2>3 DEF Request!RequestLine
    <3>2. ReqType'
      BY <1>1, <1>6, <1>7, <2>1, <3>1 DEF ReqType, Request!parsed
    <3>. QED BY <1>1, <1>6, <2>1, <3>1, <3>2 DEF ReqInv, Known, Parsed, Request!parsed
  <2>. QED BY <2>2, <2>3
<1>11. CASE k # 1 /\ Request!EndOfHeaders
  <2>1. Request!HeaderLine
    BY <1>11 DEF InLine, Request!LineDone
  <2>2. /\ reqStage' \in {"handled", "form", "body"}
        /\ reqStage' # "body" => reqArgs' = Request!ParseArguments(reqRequest.query)
        /\ reqIsForm' = reqIsForm /\ reqIsEncoded' = reqIsEncoded /\ reqLength' = reqLength /\ reqPlain' = reqPlain
        /\ reqStage' = "handled" <=> reqRequest.kind = "get"
        /\ reqStage' = "form" => reqIsForm
        /\ reqStage' = "body" => ~reqIsForm
    BY <1>1, <1>11, <2>1, EndsHeaders
  <2>3. ASSUME ~reqLate'
        PROVE  /\ reqIsForm = (reqRequest.kind = "form" /\ k > 3) /\ reqIsEncoded = (reqRequest.kind = "encoded" /\ k > 3)
               /\ k = Last /\ reqGot' = st[Last + 1] /\ (k > 4 => reqLength = Len(Body))
    <3>1. reqGot' = reqGot + 1 /\ reqGot = st[k] + Len(Line(k)) + 1 /\ ~reqLate
      BY <2>3
    <3>2. Len(reqText) = Len(Line(k))
      BY <1>8, <3>1
    <3>3. k = Last
      <4>1. SUFFICES ASSUME k # Last PROVE FALSE
        OBVIOUS
      <4>2. k \in {2, 3, 4} /\ (k \in {3, 4} => reqRequest.kind # "get")
        BY <1>2, <1>11, <4>1
      <4>3. Len(Line(k)) >= 1 /\ Line(k)[1] \in Request!Names
        <5>1. CASE k = 2
          BY <1>2, <5>1 DEF Request!Names
        <5>2. CASE k = 3
          BY <1>2, <4>2, <5>2 DEF Request!Names
        <5>3. CASE k = 4
          <6>1. Len(Request!LengthText(Len(Body))) \in {1, 2}
            BY <1>3, LengthIs
          <6>. QED BY <1>2, <4>2, <5>3, <6>1 DEF Request!Names
        <5>. QED BY <4>2, <5>1, <5>2, <5>3
      <4>4. reqText # <<>> /\ reqText[1] = Line(k)[1]
        <5>1. 1 \in 1 .. Len(reqText)
          BY <1>4, <3>2, <4>3
        <5>. QED BY <1>8, <5>1
      <4>. QED BY <1>11, <4>3, <4>4 DEF Request!EndOfHeaders
    <3>4. reqGot' = st[Last + 1]
      BY <1>4, <1>5, <3>1, <3>3
    <3>. QED BY <1>8, <3>1, <3>3, <3>4
  <2>4. ReqType'
    BY <1>1, <1>6, <1>7, <2>2 DEF ReqType
  <2>5. ASSUME reqStage' = "handled", ~reqLate' PROVE Whole'
    BY <1>1, <1>3, <1>6, <2>2, <2>5 DEF Whole, Known, ReqType
  <2>6. ASSUME reqStage' = "body", ~reqLate' PROVE InBody(st)'
    <3>1. reqRequest.kind # "get" /\ Last = 5 /\ k = 5
      BY <1>2, <2>2, <2>3, <2>6
    <3>2. /\ reqRequest.kind # "form" /\ reqIsEncoded = (reqRequest.kind = "encoded")
          /\ reqLength = Len(Body) /\ reqGot' = st[Last + 1]
      <4>1. ~reqIsForm
        BY <2>2, <2>6
      <4>2. /\ reqIsForm = (reqRequest.kind = "form" /\ k > 3) /\ reqGot' = st[Last + 1]
            /\ reqIsEncoded = (reqRequest.kind = "encoded" /\ k > 3)
            /\ (k > 4 => reqLength = Len(Body))
        BY <2>3, <2>6
      <4>3. k > 3 /\ k > 4
        BY <3>1
      <4>. QED BY <4>1, <4>2, <4>3
    <3>3. reqPlain' = <<>> /\ Len(reqPlain') = 0 /\ 1 .. Len(reqPlain') = {}
      BY <1>1, <2>2
    <3>4. Last + 1 = k + 1 /\ st[Last + 1] \in Nat
      BY <1>5, <3>1
    <3>5. st[Last + 1] + Len(reqPlain') = st[Last + 1] /\ 0 <= Len(Body)
      BY <1>3, <3>3, <3>4
    <3>. QED BY <1>6, <2>2, <3>2, <3>3, <3>5 DEF InBody
  <2>7. Parsed' /\ Known' /\ reqPlain' = <<>>
    BY <1>1, <2>2 DEF Parsed, Known
  <2>. QED BY <1>6, <2>2, <2>4, <2>5, <2>6, <2>7 DEF ReqInv
<1>12. CASE k # 1 /\ ~Request!EndOfHeaders
  <2>1. reqStage = "headers" /\ Request!HeaderLine
    BY <1>12 DEF InLine, Request!LineDone
  <2>2. reqText # <<>> /\ reqText[1] \in Request!Names /\ reqStage' = "headers" /\ reqPlain' = reqPlain
    BY <1>12, <2>1 DEF Request!EndOfHeaders, Request!HeaderLine
  <2>3. 1 \in 1 .. Len(reqText) /\ reqText[1] = Line(k)[1] /\ Len(Line(k)) # 0
    <3>1. Len(reqText) # 0
      BY <1>4, <2>2
    <3>2. Len(reqText) <= Len(Line(k)) /\ \A i \in 1 .. Len(reqText) : reqText[i] = Line(k)[i]
      BY <1>8
    <3>. QED BY <1>4, <1>5, <3>1, <3>2
  <2>4. k # Last
    BY <1>2, <2>3
  <2>5. k \in {2, 3, 4} /\ (k \in {3, 4} => reqRequest.kind # "get")
    BY <1>2, <1>12, <2>4
  <2>6. CASE k = 2
    <3>1. reqText[1] = "host:"
      BY <1>2, <2>3, <2>6
    <3>2. reqIsForm' = reqIsForm /\ reqIsEncoded' = reqIsEncoded /\ reqLength' = reqLength
      BY <1>1, <2>1, <3>1 DEF Request!HeaderLine, Request!Typed, ReqType
    <3>. QED BY <1>1, <1>8, <1>9, <2>2, <2>4, <2>6, <3>2 DEF ReqType, Known
  <2>7. CASE k = 3
    <3>1. reqText[1] = "type:" /\ reqRequest.kind # "get"
      BY <1>2, <2>3, <2>5, <2>7
    <3>2. /\ reqIsForm' = (reqIsForm \/ (Len(reqText) > 1 /\ reqText[2] = "multipart"))
          /\ reqIsEncoded' = (reqIsEncoded \/ (Len(reqText) > 1 /\ reqText[2] = "encoded"))
          /\ reqLength' = reqLength
      BY <2>1, <2>2, <3>1 DEF Request!HeaderLine, Request!Typed
    <3>3. Len(reqText) > 1 => reqText[2] = Line(3)[2]
      BY <1>4, <1>8, <2>7
    <3>4. Known'
      BY <1>1, <1>2, <3>1, <3>2, <3>3 DEF Known
    <3>5. ~reqLate => /\ reqIsForm' = (reqRequest.kind = "form") /\ reqIsEncoded' = (reqRequest.kind = "encoded")
                      /\ reqLength' = 0
      <4>0. ~(k > 3) /\ ~(k > 4)
        BY <2>7
      <4>2. ~reqLate => Len(reqText) = Len(Line(3)) /\ reqLength = 0 /\ ~reqIsForm /\ ~reqIsEncoded
        BY <1>8, <2>7, <4>0, Zenon
      <4>3. Len(Line(3)) >= 2
        BY <1>2, <3>1
      <4>1. ~reqLate => Len(reqText) > 1 /\ reqLength = 0 /\ ~reqIsForm /\ ~reqIsEncoded
        BY <1>4, <4>2, <4>3
      <4>. QED BY <1>2, <3>1, <3>2, <3>3, <4>1
    <3>6. reqIsForm' \in BOOLEAN /\ reqIsEncoded' \in BOOLEAN
      BY <3>2
    <3>. QED BY <1>9, <2>2, <2>4, <2>7, <3>4, <3>5, <3>6
  <2>8. CASE k = 4
    <3>1. reqText[1] = "length:" /\ reqRequest.kind # "get"
      BY <1>2, <2>3, <2>5, <2>8
    <3>2. /\ reqIsForm' = reqIsForm /\ reqIsEncoded' = reqIsEncoded
          /\ reqLength' = Request!Value(SubSeq(reqText, 2, Len(reqText)))
      BY <1>1, <2>1, <2>2, <3>1 DEF Request!HeaderLine, Request!Typed, ReqType
    <3>3. ASSUME ~reqLate PROVE reqLength' = Len(Body)
      <4>. DEFINE d == SubSeq(reqText, 2, Len(reqText))
                  t == Request!LengthText(Len(Body))
      <4>1. Len(reqText) = 1 + Len(t) /\ Len(t) \in {1, 2}
        BY <1>2, <1>3, <1>8, <2>8, <3>1, <3>3, LengthIs
      <4>2. d \in Seq(Symbols) /\ Len(d) = Len(t) /\ \A i \in 1 .. Len(d) : d[i] = reqText[1 + i]
        <5>. HIDE DEF t
        <5>. QED BY <1>4, <4>1
      <4>3. \A i \in 1 .. Len(d) : 1 + i \in 1 .. Len(reqText) /\ i \in 1 .. Len(t)
        <5>. HIDE DEF t, d
        <5>. QED BY <1>4, <4>1, <4>2
      <4>4. \A i \in 1 .. Len(t) : Line(4)[1 + i] = t[i]
        BY <1>2, <3>1
      <4>. HIDE DEF d, t
      <4>5. \A i \in 1 .. Len(d) : d[i] = t[i]
        BY <1>8, <2>8, <4>2, <4>3, <4>4
      <4>6. Request!Value(d) = Len(Body)
        BY <1>3, <4>2, <4>5, LengthIs DEF t
      <4>. QED BY <3>2, <4>6 DEF d
    <3>4. ~reqLate => reqIsForm' = (reqRequest.kind = "form") /\ reqIsEncoded' = (reqRequest.kind = "encoded")
      BY <1>8, <2>8, <3>2
    <3>. QED BY <1>1, <1>9, <2>2, <2>4, <2>8, <3>2, <3>3, <3>4 DEF ReqType, Known
  <2>. QED BY <2>5, <2>6, <2>7, <2>8
<1>. QED BY <1>10, <1>11, <1>12

\* A byte that belongs to the line, or the "r" behind it.
LEMMA LineByteKeeps == ASSUME Request!Texts, ReqInv, Request!LineByte PROVE ReqInv'
<1>1. /\ reqStage \in {"line", "headers"} /\ reqSkipping = FALSE /\ reqGot < reqArrived /\ reqGot' = reqGot + 1
      /\ UNCHANGED <<reqRequest, reqArrived, reqStage, reqLength, reqIsForm, reqIsEncoded, reqPlain, reqArgs, reqLate>>
      /\ \/ Request!Byte = "r" /\ reqSkipping' = TRUE /\ reqText' = reqText
         \/ Request!Byte # "r" /\ reqText' = Append(reqText, Request!Byte) /\ reqSkipping' = reqSkipping
  BY DEF Request!LineByte, Request!HasByte, Request!Reading, Request!parsed, ReqInv, ReqType
<1>2. ReqType /\ reqRequest \in Request!Requests
  BY DEF ReqInv, ReqType
<1>3. Request!Sent \in Seq(Symbols)
  BY <1>2, SentIs
<1>4. PICK st : LineStarts(st) /\ (OutOfStep \/ \E k \in 1 .. Last : InLine(st, k))
  BY <1>1 DEF ReqInv
<1>5. Last' = Last /\ Body' = Body /\ Request!Sent' = Request!Sent /\ LineStarts(st)' /\ \A n : Line(n)' = Line(n)
  BY <1>1, <1>4, Unasked
<1>6. reqGot + 1 \in 1 .. Len(Request!Sent) /\ Request!Byte \in Symbols /\ reqGot' \in 0 .. reqArrived
  <2>1. reqGot + 1 \in 1 .. Len(Request!Sent) /\ reqGot' \in 0 .. reqArrived
    BY <1>1, <1>2 DEF ReqType
  <2>. QED BY <1>3, <2>1 DEF Request!Byte
<1>7. ReqType'
  <2>1. reqText' \in Seq(Symbols)
    BY <1>1, <1>2, <1>6 DEF ReqType
  <2>. QED BY <1>1, <1>2, <1>5, <1>6, <2>1 DEF ReqType
<1>8. ASSUME OutOfStep PROVE OutOfStep'
  <2>1. CASE Request!Byte = "r"
    BY <1>1, <1>8, <2>1 DEF OutOfStep
  <2>2. CASE Request!Byte # "r"
    <3>1. reqText' = Append(reqText, Request!Byte) /\ reqText \in Seq(Symbols)
      BY <1>1, <1>2, <2>2 DEF ReqType
    <3>2. reqText' # <<>> /\ reqText'[1] = IF reqText = <<>> THEN Request!Byte ELSE reqText[1]
      <4>. DEFINE x == Request!Byte
      <4>. HIDE DEF x
      <4>1. reqText' = Append(reqText, x) /\ reqText \in Seq(Symbols)
        BY <3>1 DEF x
      <4>2. reqText' # <<>> /\ reqText'[1] = IF reqText = <<>> THEN x ELSE reqText[1]
        BY <4>1
      <4>. QED BY <4>2 DEF x
    <3>3. reqText'[1] \notin Request!Names
      BY <1>1, <1>8, <3>2 DEF OutOfStep
    <3>. QED BY <1>1, <1>8, <3>2, <3>3 DEF OutOfStep, Request!Names
  <2>. QED BY <2>1, <2>2
<1>9. ASSUME NEW k \in 1 .. Last, InLine(st, k) PROVE InLine(st, k)'
  <2>. DEFINE N == Len(Line(k))
              n == Len(reqText)
              off == st[k]
  <2>1. Last \in Nat /\ Plain(Line(k))
    <3>1. Last \in {3, 5} /\ Plain(Line(k))
      BY <1>2, LinesAre
    <3>. QED BY <3>1
  <2>2. /\ reqStage = (IF k = 1 THEN "line" ELSE "headers") /\ n <= N /\ (\A i \in 1 .. n : reqText[i] = Line(k)[i])
        /\ reqGot = off + n
        /\ ~reqLate => /\ reqIsForm = (k > 3 /\ reqRequest.kind = "form") /\ reqIsEncoded = (k > 3 /\ reqRequest.kind = "encoded")
                       /\ reqLength = (IF k > 4 THEN Len(Body) ELSE 0)
    BY <1>1, <1>9 DEF InLine
  <2>3. off \in Nat /\ n \in Nat /\ N \in Nat /\ reqGot \in Nat /\ reqText \in Seq(Symbols)
    <3>1. off \in Nat
      BY <1>4, <2>1 DEF LineStarts
    <3>2. N \in Nat
      BY <2>1 DEF Plain
    <3>3. reqGot \in Nat /\ reqText \in Seq(Symbols)
      BY <1>2 DEF ReqType
    <3>4. n \in Nat
      BY <3>3
    <3>. QED BY <3>1, <3>2, <3>3, <3>4
  <2>4. off <= reqGot /\ reqGot <= off + N + 1
    <3>. HIDE DEF off, n, N
    <3>. QED BY <2>2, <2>3
  <2>5. /\ Request!Byte = "n" <=> reqGot = off + N + 1
        /\ Request!Byte = "r" <=> reqGot = off + N
        /\ reqGot < off + N => Request!Byte = Line(k)[reqGot - off + 1]
    BY <1>4, <2>1, <2>3, <2>4, ByteAt
  <2>. DEFINE B == Request!Byte
              l == Line(k)
              m == Len(reqText')
  <2>6. B = "r" <=> n = N
    <3>. HIDE DEF off, n, N, B
    <3>1. B = "r" <=> reqGot = off + N
      BY <2>5 DEF off, N, B
    <3>2. reqGot = off + n
      BY <2>2
    <3>. QED BY <2>3, <3>1, <3>2
  <2>7. CASE B = "r"
    <3>1. reqText' = reqText /\ reqSkipping' = TRUE /\ n = N /\ reqGot' = off + N + 1
      BY <1>1, <2>2, <2>3, <2>6, <2>7
    <3>2. /\ off + n <= reqGot' /\ reqGot' <= off + N + 1
      BY <2>3, <3>1
    <3>. QED BY <1>1, <1>5, <2>2, <3>1, <3>2 DEF InLine
  <2>8. CASE B # "r"
    <3>1. reqText' = Append(reqText, B) /\ reqSkipping' = FALSE /\ n < N
      BY <1>1, <2>2, <2>3, <2>6, <2>8
    <3>2. B = l[n + 1]
      <4>1. reqGot < off + N /\ reqGot - off + 1 = n + 1
        BY <2>2, <2>3, <3>1
      <4>. QED BY <2>5, <4>1
    <3>. HIDE DEF off, n, N, B, l
    <3>3. m = n + 1 /\ \A i \in 1 .. m : reqText'[i] = l[i]
      <4>1. m = n + 1 /\ (\A i \in 1 .. n : reqText'[i] = reqText[i]) /\ reqText'[n + 1] = B
        BY <2>3, <3>1 DEF n
      <4>2. \A i \in 1 .. m : i \in 1 .. n \/ i = n + 1
        BY <2>3, <4>1
      <4>3. \A i \in 1 .. n : reqText[i] = l[i]
        BY <2>2 DEF n, l
      <4>. QED BY <3>2, <4>1, <4>2, <4>3
    <3>. HIDE DEF m
    <3>4. m <= N /\ off + m <= reqGot' /\ reqGot' <= off + N + 1 /\ reqGot' = off + m
      BY <1>1, <2>2, <2>3, <3>1, <3>3
    <3>. QED BY <1>1, <1>5, <2>2, <3>1, <3>3, <3>4 DEF InLine, off, N, l, m
  <2>. QED BY <2>7, <2>8
<1>10. OutOfStep' \/ \E k \in 1 .. Last' : InLine(st, k)'
  BY <1>4, <1>5, <1>8, <1>9
<1>11. Known' /\ Parsed' /\ reqPlain' = <<>> /\ reqStage' \in {"line", "headers"}
  BY <1>1 DEF ReqInv, Known, Parsed
<1>. QED BY <1>5, <1>7, <1>10, <1>11 DEF ReqInv

\* What is skipped: the rest of a line, up to and with its "n".
LEMMA SkipByteKeeps == ASSUME Request!Texts, ReqInv, Request!SkipByte PROVE ReqInv'
<1>1. /\ reqStage \in {"line", "headers"} /\ reqSkipping = TRUE /\ reqGot < reqArrived /\ reqGot' = reqGot + 1
      /\ UNCHANGED <<reqRequest, reqArrived, reqLate>>
      /\ \/ Request!Byte = "n" /\ Request!LineDone
         \/ Request!Byte # "n" /\ UNCHANGED <<reqStage, reqText, reqSkipping, reqLength, reqIsForm, reqIsEncoded, reqPlain, reqArgs>>
  BY DEF Request!SkipByte, Request!HasByte, Request!Reading, Request!parsed, ReqInv, ReqType
<1>2. ReqType
  BY DEF ReqInv
<1>3. PICK st : LineStarts(st) /\ (OutOfStep \/ \E k \in 1 .. Last : InLine(st, k))
  BY <1>1 DEF ReqInv
<1>4. Last' = Last /\ Body' = Body /\ Request!Sent' = Request!Sent /\ LineStarts(st)' /\ \A n : Line(n)' = Line(n)
  BY <1>1, <1>3, Unasked
<1>5. reqGot \in Nat /\ reqGot' \in 0 .. reqArrived
  BY <1>1, <1>2 DEF ReqType
<1>6. ASSUME Request!Byte # "n", OutOfStep' \/ \E k \in 1 .. Last : InLine(st, k)' PROVE ReqInv'
  <2>1. ReqType'
    BY <1>1, <1>2, <1>4, <1>5, <1>6 DEF ReqType
  <2>0. UNCHANGED <<reqRequest, reqStage, reqIsForm, reqIsEncoded, reqPlain>>
    BY <1>1, <1>6
  <2>2. Known' /\ Parsed' /\ reqPlain' = <<>> /\ reqStage' \in {"line", "headers"}
    BY <1>1, <2>0 DEF ReqInv, Known, Parsed
  <2>. QED BY <1>4, <1>6, <2>1, <2>2 DEF ReqInv
<1>7. CASE OutOfStep
  <2>1. CASE Request!Byte = "n"
    <3>1. reqLate' = TRUE
      BY <1>1, <1>2, <1>7 DEF OutOfStep, ReqType
    <3>. QED BY <1>1, <1>5, <1>7, <2>1, <3>1, LostLineEnds
  <2>2. CASE Request!Byte # "n"
    <3>1. OutOfStep'
      BY <1>1, <1>7, <2>2 DEF OutOfStep
    <3>. QED BY <1>6, <2>2, <3>1
  <2>. QED BY <2>1, <2>2
<1>8. ASSUME NEW k \in 1 .. Last, InLine(st, k) PROVE ReqInv'
  <2>. DEFINE N == Len(Line(k))
              n == Len(reqText)
              off == st[k]
  <2>1. Last \in Nat /\ Plain(Line(k))
    <3>1. Last \in {3, 5} /\ Plain(Line(k))
      BY <1>2, LinesAre DEF ReqType
    <3>. QED BY <3>1
  <2>2. off \in Nat /\ n \in Nat /\ N \in Nat
    <3>1. off \in Nat
      BY <1>3, <2>1 DEF LineStarts
    <3>2. N \in Nat
      BY <2>1 DEF Plain
    <3>3. reqText \in Seq(Symbols)
      BY <1>2 DEF ReqType
    <3>4. n \in Nat
      BY <3>3
    <3>. QED BY <3>1, <3>2, <3>4
  <2>3. off + n <= reqGot /\ reqGot <= off + N + 1
    BY <1>8 DEF InLine
  <2>4. off <= reqGot
    <3>. HIDE DEF off, n, N
    <3>. QED BY <1>5, <2>2, <2>3
  <2>5. Request!Byte = "n" <=> reqGot = off + N + 1
    BY <1>3, <1>5, <2>1, <2>3, <2>4, ByteAt
  <2>6. CASE Request!Byte = "n"
    BY <1>1, <1>3, <1>8, <2>5, <2>6, KnownLineEnds
  <2>7. CASE Request!Byte # "n"
    <3>1. off + n <= reqGot' /\ reqGot' <= off + N + 1
      <4>1. reqGot # off + N + 1
        BY <2>5, <2>7
      <4>. HIDE DEF off, n, N
      <4>. QED BY <1>1, <1>5, <2>2, <2>3, <4>1
    <3>2. InLine(st, k)'
      BY <1>1, <1>4, <1>8, <2>7, <3>1 DEF InLine
    <3>. QED BY <1>6, <2>7, <3>2
  <2>. QED BY <2>6, <2>7
<1>. QED BY <1>3, <1>7, <1>8

\* A second without a byte.
LEMMA SilenceKeeps == ASSUME Request!Texts, ReqInv, Request!Silence PROVE ReqInv'
<1>1. /\ reqStage \in {"line", "headers"} /\ reqLate' = TRUE
      /\ UNCHANGED <<reqRequest, reqArrived, reqGot>>
      /\ \/ reqSkipping = TRUE /\ Request!LineDone
         \/ /\ reqSkipping = FALSE /\ reqSkipping' = TRUE
            /\ UNCHANGED <<reqStage, reqText, reqLength, reqIsForm, reqIsEncoded, reqPlain, reqArgs>>
  BY DEF Request!Silence, Request!Reading, Request!parsed, ReqInv, ReqType
<1>2. ReqType
  BY DEF ReqInv
<1>3. PICK st : LineStarts(st) /\ (OutOfStep \/ \E k \in 1 .. Last : InLine(st, k))
  BY <1>1 DEF ReqInv
<1>4. Last' = Last /\ Body' = Body /\ Request!Sent' = Request!Sent /\ LineStarts(st)' /\ \A n : Line(n)' = Line(n)
  BY <1>1, <1>3, Unasked
<1>5. reqGot' \in 0 .. reqArrived
  BY <1>1, <1>2 DEF ReqType
<1>6. CASE reqSkipping = TRUE
  <2>1. CASE OutOfStep
    BY <1>1, <1>5, <1>6, <2>1, LostLineEnds
  <2>2. ASSUME NEW k \in 1 .. Last, InLine(st, k) PROVE ReqInv'
    BY <1>1, <1>3, <1>6, <2>2, KnownLineEnds
  <2>. QED BY <1>3, <2>1, <2>2
<1>7. CASE reqSkipping = FALSE
  <2>1. /\ reqSkipping' = TRUE
        /\ UNCHANGED <<reqStage, reqText, reqLength, reqIsForm, reqIsEncoded, reqPlain, reqArgs>>
    BY <1>1, <1>7
  <2>2. ReqType'
    BY <1>1, <1>2, <1>4, <2>1 DEF ReqType
  <2>3. Known' /\ Parsed' /\ reqPlain' = <<>> /\ reqStage' \in {"line", "headers"}
    BY <1>1, <2>1 DEF ReqInv, Known, Parsed
  <2>4. ASSUME OutOfStep PROVE OutOfStep'
    BY <1>1, <2>1, <2>4 DEF OutOfStep
  <2>5. ASSUME NEW k \in 1 .. Last, InLine(st, k) PROVE InLine(st, k)'
    BY <1>1, <1>4, <2>1, <2>5 DEF InLine
  <2>. QED BY <1>3, <1>4, <2>2, <2>3, <2>4, <2>5 DEF ReqInv
<1>. QED BY <1>1, <1>6, <1>7

\* A byte of the body.
LEMMA BodyByteKeeps == ASSUME Request!Texts, ReqInv, Request!BodyByte PROVE ReqInv'
<1>1. /\ reqStage = "body" /\ reqGot < reqArrived /\ reqGot' = reqGot + 1 /\ reqPlain' = Append(reqPlain, Request!Byte)
      /\ Len(reqPlain) < reqLength
      /\ UNCHANGED <<reqRequest, reqArrived, reqStage, reqText, reqSkipping, reqLength, reqIsForm, reqIsEncoded, reqArgs, reqLate>>
  BY DEF Request!BodyByte, Request!HasByte
<1>2. ReqType /\ reqRequest \in Request!Requests /\ reqGot \in Nat
  BY DEF ReqInv, ReqType
<1>3. Request!Sent \in Seq(Symbols) /\ Body \in Seq(Symbols) /\ Last \in Nat
  <2>1. Last \in {3, 5} /\ Body \in Seq(Symbols)
    BY <1>2, LinesAre, RequestIs
  <2>. QED BY <1>2, <2>1, SentIs
<1>4. PICK st : LineStarts(st) /\ (~reqLate => InBody(st))
  BY <1>1 DEF ReqInv
<1>5. Last' = Last /\ Body' = Body /\ Request!Sent' = Request!Sent /\ LineStarts(st)' /\ \A n : Line(n)' = Line(n)
  BY <1>1, <1>4, Unasked
<1>. DEFINE B == Request!Byte
            n == Len(reqPlain)
            m == Len(reqPlain')
            H == st[Last + 1]
            b == Body
<1>6. reqGot + 1 \in 1 .. Len(Request!Sent) /\ B \in Symbols /\ reqGot' \in 0 .. reqArrived
  <2>1. reqGot + 1 \in 1 .. Len(Request!Sent) /\ reqGot' \in 0 .. reqArrived
    BY <1>1, <1>2 DEF ReqType
  <2>. QED BY <1>3, <2>1 DEF Request!Byte
<1>7. reqPlain \in Seq(Symbols) /\ n \in Nat /\ H \in Nat /\ Len(b) \in Nat
  BY <1>2, <1>3, <1>4 DEF ReqType, LineStarts
<1>. HIDE DEF B
<1>8. reqPlain' \in Seq(Symbols) /\ m = n + 1 /\ (\A i \in 1 .. n : reqPlain'[i] = reqPlain[i]) /\ reqPlain'[n + 1] = B
  <2>1. reqPlain' = Append(reqPlain, B)
    BY <1>1 DEF B
  <2>. QED BY <1>6, <1>7, <2>1
<1>9. ReqType'
  BY <1>1, <1>2, <1>5, <1>6, <1>8 DEF ReqType
<1>10. ASSUME ~reqLate PROVE InBody(st)'
  <2>1. /\ reqRequest.kind # "form" /\ reqIsEncoded = (reqRequest.kind = "encoded")
        /\ reqLength = Len(b) /\ n <= Len(b) /\ reqGot = H + n
        /\ \A i \in 1 .. n : reqPlain[i] = b[i]
    BY <1>4, <1>10 DEF InBody
  <2>2. n + 1 \in 1 .. Len(b)
    <3>1. n < Len(b)
      BY <1>1, <2>1
    <3>. HIDE DEF n, b
    <3>. QED BY <1>7, <3>1
  <2>3. B = b[n + 1]
    <3>1. Request!Sent[H + (n + 1)] = b[n + 1]
      BY <1>4, <2>2 DEF LineStarts
    <3>2. reqGot + 1 = H + (n + 1)
      <4>. HIDE DEF n, H
      <4>. QED BY <1>7, <2>1
    <3>. QED BY <3>1, <3>2 DEF B, Request!Byte
  <2>. HIDE DEF n, m, H, b
  <2>4. \A i \in 1 .. m : reqPlain'[i] = b[i]
    <3>1. \A i \in 1 .. m : i \in 1 .. n \/ i = n + 1
      BY <1>7, <1>8
    <3>. QED BY <1>8, <2>1, <2>3, <3>1
  <2>5. m <= Len(b) /\ reqGot' = H + m
    BY <1>1, <1>2, <1>7, <1>8, <2>1, <2>2
  <2>. QED BY <1>1, <1>5, <2>1, <2>4, <2>5 DEF InBody, m, H, b
<1>11. Known' /\ Parsed' /\ reqStage' = "body"
  BY <1>1 DEF ReqInv, Known, Parsed
<1>. QED BY <1>1, <1>5, <1>9, <1>10, <1>11 DEF ReqInv

\* The network, the body's timeout and the handler's call.
LEMMA OthersDone ==
  ASSUME Request!Texts, ReqInv, Request!Arrive \/ Request!BodySilence \/ Request!Handle \/ UNCHANGED Request!vars
  PROVE  ReqInv'
<1>1. ReqType /\ UNCHANGED <<reqRequest, reqGot, reqText, reqSkipping, reqLength, reqIsForm, reqIsEncoded, reqPlain, reqLate>>
  BY DEF ReqInv, Request!Arrive, Request!BodySilence, Request!Handle, Request!vars, Request!parsed
<1>2. PICK st : /\ LineStarts(st)
                /\ reqStage \in {"line", "headers"} => OutOfStep \/ \E k \in 1 .. Last : InLine(st, k)
                /\ reqStage = "body" /\ ~reqLate => InBody(st)
  BY DEF ReqInv
<1>3. Last' = Last /\ Body' = Body /\ Request!Sent' = Request!Sent /\ LineStarts(st)' /\ (\A n : Line(n)' = Line(n))
      /\ Request!Byte' = Request!Byte
  BY <1>1, <1>2, Unasked DEF Request!Byte
<1>4. Len(Request!Sent) \in Nat
  <2>1. Request!Sent \in Seq(Symbols)
    BY <1>1, SentIs DEF ReqType
  <2>. QED BY <2>1
<1>5. CASE reqStage' = reqStage /\ (Request!Arrive \/ UNCHANGED Request!vars)
  <2>1. reqArrived' \in 0 .. Len(Request!Sent) /\ reqArrived' >= reqArrived
    BY <1>1, <1>4, <1>5 DEF Request!Arrive, Request!vars, ReqType
  <2>2. ReqType'
    BY <1>1, <1>3, <1>4, <1>5, <2>1 DEF ReqType
  <2>3. OutOfStep => OutOfStep'
    BY <1>1, <1>3, <1>5 DEF OutOfStep
  <2>4. ASSUME NEW k \in 1 .. Last, InLine(st, k) PROVE InLine(st, k)'
    BY <1>1, <1>3, <1>5, <2>4 DEF InLine
  <2>5. InBody(st) => InBody(st)'
    BY <1>1, <1>3 DEF InBody
  <2>0. reqArgs' = reqArgs
    BY <1>5 DEF Request!Arrive, Request!vars, Request!parsed
  <2>6. /\ Known' /\ Parsed'
        /\ (reqStage \in {"line", "headers"} => reqPlain = <<>>)'
        /\ (reqStage = "handled" /\ ~reqLate => Whole)'
    BY <1>1, <1>3, <1>5, <2>0 DEF ReqInv, Known, Parsed, Whole
  <2>. QED BY <1>1, <1>2, <1>3, <1>5, <2>2, <2>3, <2>4, <2>5, <2>6 DEF ReqInv
<1>6. CASE Request!BodySilence
  <2>1. reqStage' = "refused" /\ reqArrived' = reqArrived
    BY <1>6 DEF Request!BodySilence
  <2>2. ReqType'
    BY <1>1, <1>3, <2>1 DEF ReqType
  <2>3. Known' /\ Parsed'
    BY <1>1, <2>1 DEF ReqInv, Known, Parsed
  <2>. QED BY <1>3, <2>1, <2>2, <2>3 DEF ReqInv
<1>7. CASE Request!Handle
  <2>1. reqStage = "body" /\ reqStage' = "handled" /\ reqArrived' = reqArrived /\ Len(reqPlain) = reqLength
    BY <1>7 DEF Request!Handle, Request!BodyWhole
  <2>2. ReqType'
    BY <1>1, <1>3, <2>1 DEF ReqType
  <2>3. ASSUME ~reqLate PROVE Whole
    <3>1. /\ reqRequest.kind # "form" /\ reqIsEncoded = (reqRequest.kind = "encoded") /\ Len(reqPlain) = Len(Body)
          /\ \A i \in 1 .. Len(reqPlain) : reqPlain[i] = Body[i]
      BY <1>2, <2>1, <2>3 DEF InBody
    <3>2. Body \in Seq(Symbols) /\ reqPlain \in Seq(Symbols)
      BY <1>1, RequestIs DEF ReqType
    <3>. DEFINE b == Body
    <3>. HIDE DEF b
    <3>3. Len(reqPlain) = Len(b) /\ (\A i \in 1 .. Len(reqPlain) : reqPlain[i] = b[i]) /\ b \in Seq(Symbols) /\ reqPlain \in Seq(Symbols)
      BY <3>1, <3>2 DEF b
    <3>4. reqPlain = b
      BY <3>3
    <3>. QED BY <3>1, <3>4 DEF b, Whole
  <2>4. Whole' = Whole
    BY <1>1, <1>3 DEF Whole
  <2>5. Known' /\ Parsed'
    BY <1>1, <1>7, <2>1 DEF ReqInv, Known, Parsed, Request!Handle
  <2>. QED BY <1>1, <1>3, <2>1, <2>2, <2>3, <2>4, <2>5 DEF ReqInv
<1>. QED BY <1>5, <1>6, <1>7 DEF Request!Arrive, Request!vars

\* Each step keeps the invariant ...
LEMMA ReqStays == ASSUME Request!Texts, ReqInv, [Request!Next]_(Request!vars) PROVE ReqInv'
BY LineByteKeeps, SkipByteKeeps, SilenceKeeps, BodyByteKeeps, OthersDone DEF Request!Next, Request!Parse, Request!Handled

\* ... which implies what the run checks.
LEMMA ReqGives == ASSUME Request!Texts, ReqInv PROVE Request!RequestWhole
<1>1. /\ ReqType /\ Known /\ Parsed /\ (reqStage = "handled" /\ ~reqLate => Whole)
      /\ reqRequest.query \in Seq(Symbols) /\ Body \in Seq(Symbols)
  BY RequestIs, SymbolsAre DEF ReqInv, ReqType
<1>2. \A d \in Seq(Symbols) : Request!ToSet(Request!ParseArguments(d)) = Request!Reference(d)
  BY ArgumentsAre
<1>3. Request!Meant \in Seq(Symbols)
  <2>. DEFINE q == reqRequest.query
              b == Body
  <2>1. q \in Seq(Symbols) /\ b \in Seq(Symbols) /\ <<"&">> \in Seq(Symbols)
    <3>1. "&" \in Symbols
      BY DEF Symbols, Fixed
    <3>. QED BY <1>1, <3>1
  <2>2. Request!Joined(q, b) \in Seq(Symbols)
    <3>. DEFINE a == <<"&">>
    <3>1. Request!Joined(q, b) = IF q = <<>> THEN b ELSE q \o a \o b
      BY DEF Request!Joined
    <3>2. a \in Seq(Symbols)
      BY <2>1
    <3>. HIDE DEF q, a, b
    <3>3. (q \o a) \o b \in Seq(Symbols)
      BY <2>1, <3>2
    <3>. QED BY <2>1, <3>1, <3>3
  <2>. QED BY <2>1, <2>2 DEF Request!Meant, Body
<1>4. ASSUME reqStage = "handled", reqLate => reqRequest.kind # "encoded"
      PROVE  Request!ToSet(reqArgs) = Request!Reference(Request!Meant)
  <2>1. reqArgs = Request!ParseArguments(Request!Meant)
    <3>1. CASE reqLate
      BY <1>1, <1>4, <3>1 DEF Known, Parsed, Request!Meant
    <3>2. CASE ~reqLate
      BY <1>1, <1>4, <3>2 DEF Whole, Parsed, Request!Meant, Body
    <3>. QED BY <3>1, <3>2
  <2>. QED BY <1>2, <1>3, <2>1
<1>5. ASSUME reqStage = "form" PROVE reqRequest.kind = "form" /\ Request!ToSet(reqArgs) = Request!Reference(Request!Meant)
  <2>1. reqRequest.kind = "form" /\ reqArgs = Request!ParseArguments(Request!Meant)
    BY <1>1, <1>5 DEF Known, Parsed, Request!Meant
  <2>. QED BY <1>2, <1>3, <2>1
<1>. QED BY <1>1, <1>4, <1>5 DEF Request!RequestWhole, Whole, Body
=============================================================================
