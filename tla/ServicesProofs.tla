--------------------------- MODULE ServicesProofs ---------------------------
(***************************************************************************)
(* The other small components of MCServices: Eeprom, SerialLink,           *)
(* StatusLed, ArtMonitor, Reports, PixelDriver, UploadForm, NetworkConfig, *)
(* TestFrame and DhcpClient.  Each has an inductive invariant that implies *)
(* what the run Services checks of it, and the theorems at the end put     *)
(* them into MCServices.  Clocks that come round are left to TLC: Circumstances says *)
(* how long they run.                                                      *)
(***************************************************************************)
EXTENDS StreamProofs, FiniteSetTheorems

-----------------------------------------------------------------------------
(* Eeprom: what one part saved, the others' saves and a power cut *)

romInUse  == x1
romGood   == x2
romKept   == x3
romIntact == x4
romDone   == x5
romBoots  == x6

USE DEF romInUse, romGood, romKept, romIntact, romDone, romBoots

Owned(o) == { f \in Eeprom!Field : f.owner = o }

\* Where the tables lie, and that no part writes over the leases or the wizard's flag.
LEMMA FieldFacts ==
  ASSUME Eeprom!Records, NEW f \in Eeprom!Field
  PROVE  /\ f.owner = "settings" => Eeprom!From(f) = 0 /\ Eeprom!To(f) = 511
         /\ f.owner = "onboarding" => Eeprom!From(f) = 4095 /\ Eeprom!To(f) = 4095
         /\ f.owner = "leases" => Eeprom!From(f) >= 512 /\ Eeprom!To(f) <= 871 /\ Eeprom!From(f) \in Nat /\ Eeprom!To(f) \in Nat
         /\ f.owner \in {"nodes", "tags"} => Eeprom!From(f) >= 872 /\ Eeprom!To(f) <= 3880 /\ Eeprom!From(f) \in Nat /\ Eeprom!To(f) \in Nat
         /\ f.owner \in {"settings", "onboarding", "leases", "nodes", "tags"}
<1>1. CASE f \in [owner : Eeprom!Table, part : {"head"}, rec : {0}]
  <2>1. f.owner \in {"leases", "nodes", "tags"} /\ f.part = "head"
    BY <1>1 DEF Eeprom!Table
  <2>2. CASE f.owner = "leases"
    BY <2>1, <2>2 DEF Eeprom!From, Eeprom!To, Eeprom!Layout
  <2>3. CASE f.owner = "nodes"
    BY <2>1, <2>3 DEF Eeprom!From, Eeprom!To, Eeprom!Layout
  <2>4. CASE f.owner = "tags"
    BY <2>1, <2>4 DEF Eeprom!From, Eeprom!To, Eeprom!Layout
  <2>. QED BY <2>1, <2>2, <2>3, <2>4
<1>2. CASE f \in [owner : Eeprom!Table, part : {"used", "body"}, rec : Rec]
  <2>1. f.rec \in 0 .. 31 /\ f.owner \in {"leases", "nodes", "tags"} /\ f.part \in {"used", "body"}
    BY <1>2 DEF Eeprom!Records, Eeprom!Table
  <2>2. CASE f.owner = "leases"
    BY <2>1, <2>2 DEF Eeprom!From, Eeprom!To, Eeprom!Layout
  <2>3. CASE f.owner = "nodes"
    BY <2>1, <2>3 DEF Eeprom!From, Eeprom!To, Eeprom!Layout
  <2>4. CASE f.owner = "tags"
    BY <2>1, <2>4 DEF Eeprom!From, Eeprom!To, Eeprom!Layout
  <2>. QED BY <2>1, <2>2, <2>3, <2>4
<1>3. CASE f \in {[owner |-> "settings", part |-> "all", rec |-> 0],
                  [owner |-> "onboarding", part |-> "all", rec |-> 0]}
  <2>1. CASE f.owner = "settings" /\ f.part = "all"
    BY <2>1 DEF Eeprom!From, Eeprom!To, Eeprom!SettingsEnd
  <2>2. CASE f.owner = "onboarding" /\ f.part = "all"
    BY <2>2 DEF Eeprom!From, Eeprom!To, Eeprom!OnboardFlagAddr
  <2>. QED BY <1>3, <2>1, <2>2
<1>. QED BY <1>1, <1>2, <1>3 DEF Eeprom!Field

LEMMA NobodyElse ==
  ASSUME Eeprom!Records, NEW f \in Eeprom!Field, NEW g \in Eeprom!Field, f.owner \in {"leases", "onboarding"},
         g.owner # f.owner
  PROVE  ~Eeprom!Overlap(f, g)
<1>. USE FieldFacts
<1>1. Eeprom!From(f) \in Nat /\ Eeprom!To(f) \in Nat /\ Eeprom!From(g) \in Nat /\ Eeprom!To(g) \in Nat
  OBVIOUS
<1>. QED BY <1>1 DEF Eeprom!Overlap

LEMMA WriteSpares ==
  ASSUME Eeprom!Records, NEW w \in SUBSET Eeprom!Field, Eeprom!Write(w), NEW f \in Eeprom!Field,
         f.owner \in {"leases", "onboarding"}, f \in romIntact
  PROVE  f \in romIntact'
<1>1. \A v \in SUBSET Eeprom!Field : f \notin Eeprom!Hit(v)
  BY NobodyElse DEF Eeprom!Hit, Eeprom!Overlap
<1>. QED BY <1>1 DEF Eeprom!Write, Eeprom!SurelyHit

LeaseHead   == Eeprom!F("leases", "head", 0)
LeasesStored == /\ LeaseHead \in romIntact
                /\ \A r \in Rec : Eeprom!F("leases", "used", r) \in romIntact
                /\ \A r \in romInUse["leases"] : Eeprom!F("leases", "body", r) \in romIntact
\* The leases in the EEPROM are those in use, or were never stored; the flag is there once set.
RomInv == /\ Eeprom!TypeOK
          /\ romGood["leases"] = romInUse["leases"] /\ romKept["leases"] = romInUse["leases"]
          /\ LeaseHead \in romIntact => LeasesStored
          /\ LeaseHead \notin romIntact => romInUse["leases"] = {}
          /\ romDone => Eeprom!F("onboarding", "all", 0) \in romIntact

\* The steps of Eeprom, one by one.
LEMMA UpdateKeeps ==
  ASSUME Eeprom!Records, RomInv, NEW t \in Eeprom!Table, NEW used \in SUBSET Rec, Eeprom!Update(t, used),
         romGood' = [romGood EXCEPT ![t] = romGood'[t]], t = "leases" => romGood'[t] = used,
         romGood' \in [Eeprom!Table -> SUBSET Rec],
         UNCHANGED <<romDone, romBoots>>
  PROVE  RomInv'
<1>1. Eeprom!Written(t, used) \in SUBSET Eeprom!Field /\ Eeprom!Write(Eeprom!Written(t, used))
  BY DEF Eeprom!Update, Eeprom!Written
<1>2. Eeprom!TypeOK'
  <2>1. romIntact' \subseteq Eeprom!Field
    BY <1>1 DEF Eeprom!Write, Eeprom!SurelyHit, Eeprom!Hit, RomInv, Eeprom!TypeOK
  <2>. QED BY <2>1 DEF Eeprom!Update, RomInv, Eeprom!TypeOK
<1>3. LeaseHead \in Eeprom!Field /\ \A r \in Rec : Eeprom!F("leases", "used", r) \in Eeprom!Field /\ Eeprom!F("leases", "body", r) \in Eeprom!Field
  BY DEF LeaseHead, Eeprom!F, Eeprom!Field, Eeprom!Table
<1>4. Eeprom!F("onboarding", "all", 0) \in Eeprom!Field
  BY DEF Eeprom!F, Eeprom!Field
<1>5. \A f \in Eeprom!Field : f.owner \in {"leases", "onboarding"} /\ f \in romIntact => f \in romIntact'
  BY <1>1, WriteSpares
<1>6. \A f \in Eeprom!Field : f.owner = "leases" /\ f \notin romIntact /\ t # "leases" => f \notin romIntact'
  BY <1>1 DEF Eeprom!Write, Eeprom!Written
<1>7. CASE t = "leases"
  <2>1. \A f \in Eeprom!Field : f.owner = "leases" /\ (f.part \in {"head", "used"} \/ f.rec \in used) => f \in romIntact'
    BY <1>1, <1>7 DEF Eeprom!Write, Eeprom!Written
  <2>2. /\ romInUse'["leases"] = used /\ romKept'["leases"] = used /\ romGood'["leases"] = used
    BY <1>7 DEF Eeprom!Update, RomInv, Eeprom!TypeOK
  <2>. QED BY <1>2, <1>3, <1>4, <1>5, <2>1, <2>2 DEF RomInv, LeasesStored, Eeprom!F, LeaseHead
<1>8. CASE t # "leases"
  <2>1. /\ romInUse'["leases"] = romInUse["leases"] /\ romKept'["leases"] = romKept["leases"]
        /\ romGood'["leases"] = romGood["leases"]
    BY <1>8 DEF Eeprom!Update, RomInv, Eeprom!TypeOK, Eeprom!Table
  <2>2. LeaseHead.owner = "leases" /\ \A r \in Rec, p \in {"used", "body"} : Eeprom!F("leases", p, r).owner = "leases"
    BY DEF Eeprom!F, LeaseHead
  <2>3. LeaseHead \in romIntact' <=> LeaseHead \in romIntact
    BY <1>3, <1>5, <1>6, <1>8, <2>2
  <2>4. LeasesStored => LeasesStored'
    BY <1>3, <1>5, <2>1, <2>2, <2>3 DEF LeasesStored, RomInv, Eeprom!TypeOK, Eeprom!Table
  <2>5. romDone' => Eeprom!F("onboarding", "all", 0) \in romIntact'
    BY <1>4, <1>5 DEF RomInv, Eeprom!F
  <2>. QED BY <1>2, <2>1, <2>3, <2>4, <2>5 DEF RomInv
<1>. QED BY <1>7, <1>8

LEMMA AddKeeps ==
  ASSUME Eeprom!Records, RomInv, NEW t \in Eeprom!Table, NEW r \in Rec, Eeprom!Add(t, r) \/ Eeprom!Remove(t, r)
  PROVE  RomInv' /\ Eeprom!LeasesKept /\ Eeprom!WizardKept
<1>1. CASE Eeprom!Add(t, r)
  <2>1. t = "leases" => romGood'[t] = romInUse[t] \cup {r}
    BY <1>1 DEF Eeprom!Add, RomInv, Eeprom!TypeOK
  <2>2. romGood' = [romGood EXCEPT ![t] = romGood'[t]] /\ romGood' \in [Eeprom!Table -> SUBSET Rec]
    BY <1>1 DEF Eeprom!Add, RomInv, Eeprom!TypeOK
  <2>3. romInUse[t] \cup {r} \in SUBSET Rec
    BY DEF RomInv, Eeprom!TypeOK
  <2>. QED BY <1>1, <2>1, <2>2, <2>3, UpdateKeeps DEF Eeprom!Add, Eeprom!LeasesKept, Eeprom!WizardKept
<1>2. CASE Eeprom!Remove(t, r)
  <2>1. t = "leases" => romGood'[t] = romInUse[t] \ {r}
    BY <1>2 DEF Eeprom!Remove, RomInv, Eeprom!TypeOK
  <2>2. romGood' = [romGood EXCEPT ![t] = romGood'[t]] /\ romGood' \in [Eeprom!Table -> SUBSET Rec]
    BY <1>2 DEF Eeprom!Remove, RomInv, Eeprom!TypeOK
  <2>3. romInUse[t] \ {r} \in SUBSET Rec
    BY DEF RomInv, Eeprom!TypeOK
  <2>. QED BY <1>2, <2>1, <2>2, <2>3, UpdateKeeps DEF Eeprom!Remove, Eeprom!LeasesKept, Eeprom!WizardKept
<1>. QED BY <1>1, <1>2

LEMMA RomOtherKeeps ==
  ASSUME Eeprom!Records, RomInv, Eeprom!SaveSettings \/ Eeprom!OnboardingMarkDone
  PROVE  RomInv' /\ Eeprom!LeasesKept /\ Eeprom!WizardKept
<1>1. PICK o \in {"settings", "onboarding"} :
        /\ Eeprom!Write({ f \in Eeprom!Field : f.owner = o })
        /\ UNCHANGED <<romInUse, romGood, romKept, romBoots>>
        /\ o = "settings" => UNCHANGED romDone
        /\ o = "onboarding" => romDone' = TRUE
  BY DEF Eeprom!SaveSettings, Eeprom!OnboardingMarkDone
<1>. DEFINE w == { f \in Eeprom!Field : f.owner = o }
<1>2. w \in SUBSET Eeprom!Field /\ Eeprom!Write(w)
  BY <1>1
<1>3. \A f \in Eeprom!Field : f.owner \in {"leases", "onboarding"} /\ f \in romIntact => f \in romIntact'
  BY <1>2, WriteSpares
<1>4. \A f \in Eeprom!Field : f.owner = "leases" /\ f \notin romIntact => f \notin romIntact'
  BY <1>2 DEF Eeprom!Write
<1>5. LeaseHead \in Eeprom!Field /\ \A r \in Rec : Eeprom!F("leases", "used", r) \in Eeprom!Field /\ Eeprom!F("leases", "body", r) \in Eeprom!Field
  BY DEF LeaseHead, Eeprom!F, Eeprom!Field, Eeprom!Table
<1>6. LeaseHead.owner = "leases" /\ \A r \in Rec, p \in {"used", "body"} : Eeprom!F("leases", p, r).owner = "leases"
  BY DEF Eeprom!F, LeaseHead
<1>7. LeaseHead \in romIntact' <=> LeaseHead \in romIntact
  BY <1>3, <1>4, <1>5, <1>6
<1>8. LeasesStored => LeasesStored'
  BY <1>1, <1>3, <1>5, <1>6, <1>7 DEF LeasesStored, RomInv, Eeprom!TypeOK, Eeprom!Table
<1>9. romDone' => Eeprom!F("onboarding", "all", 0) \in romIntact'
  <2>1. Eeprom!F("onboarding", "all", 0) \in Eeprom!Field /\ Eeprom!F("onboarding", "all", 0).owner = "onboarding"
    BY DEF Eeprom!F, Eeprom!Field
  <2>2. o = "onboarding" => Eeprom!F("onboarding", "all", 0) \in romIntact'
    BY <1>2, <2>1 DEF Eeprom!Write
  <2>. QED BY <1>1, <1>3, <2>1, <2>2 DEF RomInv
<1>10. Eeprom!TypeOK'
  <2>1. romIntact' \subseteq Eeprom!Field
    BY <1>2 DEF Eeprom!Write, Eeprom!SurelyHit, Eeprom!Hit, RomInv, Eeprom!TypeOK
  <2>. QED BY <1>1, <2>1 DEF RomInv, Eeprom!TypeOK
<1>. QED BY <1>1, <1>7, <1>8, <1>9, <1>10 DEF RomInv, Eeprom!LeasesKept, Eeprom!WizardKept

LEMMA RebootKeeps ==
  ASSUME Eeprom!Records, RomInv, Eeprom!Reboot
  PROVE  RomInv' /\ Eeprom!LeasesKept /\ Eeprom!WizardKept
<1>1. PICK stray \in SUBSET { p \in Eeprom!Table \X Rec : Eeprom!F(p[1], "used", p[2]) \notin romIntact } :
         romInUse' = [t \in Eeprom!Table |-> IF ~Eeprom!Readable(t) THEN {}
                                             ELSE Eeprom!Flagged(t) \cup { r \in Rec : <<t, r>> \in stray }]
  BY DEF Eeprom!Reboot
<1>2. romGood' = [t \in Eeprom!Table |-> IF ~Eeprom!Readable(t) THEN {}
                                         ELSE { r \in Eeprom!Flagged(t) : Eeprom!F(t, "body", r) \in romIntact }]
  BY DEF Eeprom!Reboot
<1>3. romInUse' \in [Eeprom!Table -> SUBSET Rec] /\ romGood' \in [Eeprom!Table -> SUBSET Rec]
  BY <1>1, <1>2 DEF Eeprom!Flagged, RomInv, Eeprom!TypeOK
<1>4. romInUse'["leases"] = romInUse["leases"] /\ romGood'["leases"] = romInUse["leases"]
  <2>1. CASE ~Eeprom!Readable("leases")
    BY <1>1, <1>2, <2>1 DEF RomInv, Eeprom!Readable, LeaseHead, Eeprom!Table
  <2>2. CASE Eeprom!Readable("leases")
    <3>1. LeasesStored
      BY <2>2 DEF RomInv, Eeprom!Readable, LeaseHead
    <3>2. Eeprom!Flagged("leases") = romInUse["leases"]
      BY <3>1 DEF Eeprom!Flagged, RomInv, LeasesStored, Eeprom!TypeOK, Eeprom!Table
    <3>3. { r \in Rec : <<"leases", r>> \in stray } = {}
      BY <3>1 DEF LeasesStored
    <3>4. { r \in Eeprom!Flagged("leases") : Eeprom!F("leases", "body", r) \in romIntact } = romInUse["leases"]
      BY <3>1, <3>2 DEF LeasesStored
    <3>. QED BY <1>1, <1>2, <2>2, <3>2, <3>3, <3>4 DEF Eeprom!Table
  <2>. QED BY <2>1, <2>2
<1>5. (romDone' <=> romDone) /\ UNCHANGED <<romKept, romIntact>>
  <2>1. romDone \in BOOLEAN /\ (romDone => Eeprom!F("onboarding", "all", 0) \in romIntact)
    BY DEF RomInv, Eeprom!TypeOK
  <2>2. romDone' = (romDone /\ Eeprom!F("onboarding", "all", 0) \in romIntact) /\ UNCHANGED <<romKept, romIntact>>
    BY DEF Eeprom!Reboot
  <2>. QED BY <2>1, <2>2
<1>6. Eeprom!TypeOK'
  <2>1. romBoots' \in 0 .. MaxBoots
    BY DEF Eeprom!Reboot, RomInv, Eeprom!TypeOK, Eeprom!Records
  <2>2. romDone' \in BOOLEAN
    BY DEF Eeprom!Reboot
  <2>. QED BY <1>3, <1>5, <2>1, <2>2 DEF RomInv, Eeprom!TypeOK
<1>. QED BY <1>4, <1>5, <1>6 DEF RomInv, LeasesStored, Eeprom!LeasesKept, Eeprom!WizardKept

LEMMA RomInit == ASSUME Eeprom!Records, Eeprom!Init PROVE RomInv
<1>1. romInUse \in [Eeprom!Table -> SUBSET Rec] /\ romInUse["leases"] = {}
  BY DEF Eeprom!Init, Eeprom!Table
<1>2. Eeprom!TypeOK
  <2>1. romBoots \in 0 .. MaxBoots
    <3>. romBoots = 0
      BY DEF Eeprom!Init
    <3>. QED BY DEF Eeprom!Records
  <2>2. romIntact \subseteq Eeprom!Field
    BY DEF Eeprom!Init
  <2>3. romGood = romInUse /\ romKept = romInUse
    BY DEF Eeprom!Init
  <2>4. romDone = FALSE
    BY DEF Eeprom!Init
  <2>. QED BY <1>1, <2>1, <2>2, <2>3, <2>4 DEF Eeprom!TypeOK
<1>3. LeaseHead \notin romIntact
  BY DEF Eeprom!Init, LeaseHead, Eeprom!F
<1>. QED BY <1>1, <1>2, <1>3 DEF Eeprom!Init, RomInv

LEMMA RomSame == ASSUME RomInv, UNCHANGED Eeprom!vars PROVE RomInv'
BY DEF RomInv, Eeprom!TypeOK, Eeprom!vars, LeasesStored

LEMMA RomStays ==
  ASSUME Eeprom!Records, RomInv, [Eeprom!Next]_(Eeprom!vars)
  PROVE  RomInv' /\ [Eeprom!LeasesKept]_(Eeprom!vars) /\ [Eeprom!WizardKept]_(Eeprom!vars)
BY RomSame, AddKeeps, RomOtherKeeps, RebootKeeps DEF Eeprom!Next

-----------------------------------------------------------------------------
(* SerialLink: the console that takes the web server's transport for a while *)

serialTyped      == x1
serialRx         == x2
serialLineBuf    == x3
serialOverflowed == x4
serialBudget     == x5
serialTransport  == x6
serialReplies    == x7
serialLost       == x8

USE DEF serialTyped, serialRx, serialLineBuf, serialOverflowed, serialBudget,
        serialTransport, serialReplies, serialLost

CharPlace == (1 .. Len(Script)) \X (Nat \ {0})
Hows  == Serial!Kind \cup {"running", "too long", "done", "no answer"}

SerialTypes ==
  /\ serialTyped \in (Nat \ {0}) \X (Nat \ {0})
  /\ serialRx \in Seq(CharPlace) /\ serialLineBuf \in Seq(CharPlace) /\ serialOverflowed \in BOOLEAN
  /\ serialBudget \in Int
  /\ serialReplies \in Seq([line : Seq(CharPlace), how : Hows])
  /\ serialLost \in BOOLEAN

\* The byte that follows another on the wire, and the one to be read next.
NextChar(c) == IF Serial!EndOf(c) THEN <<c[1] + 1, 1>> ELSE <<c[1], c[2] + 1>>
Coming   == IF serialRx = <<>> THEN serialTyped ELSE serialRx[1]

\* What waits in the receive buffer is a stretch of the wire, up to what is sent next.
Stretch == /\ \A i \in 1 .. Len(serialRx) - 1 : serialRx[i + 1] = NextChar(serialRx[i])
           /\ serialRx # <<>> => serialTyped = NextChar(serialRx[Len(serialRx)])

\* The line buffer holds the beginning of the line that is being read, all of it
\* unless it ran over.
Begun == /\ \A i \in DOMAIN serialLineBuf : serialLineBuf[i] = <<Coming[1], i>>
         /\ ~serialOverflowed => Len(serialLineBuf) = Coming[2] - 1
         /\ serialOverflowed => Len(serialLineBuf) >= LineMax
         /\ Coming[1] <= Len(Script) => Coming[2] <= Script[Coming[1]].size + 1

\* Replies are to lines that are over, each later than the one before.
Replied == /\ \A i \in DOMAIN serialReplies : serialReplies[i].line # <<>> /\ serialReplies[i].line[1][1] < Coming[1]
           /\ \A i, j \in DOMAIN serialReplies : i < j => serialReplies[i].line[1][1] < serialReplies[j].line[1][1]
           /\ \A i \in DOMAIN serialReplies : serialReplies[i].how # "too long" => Serial!Whole(serialReplies[i].line)

\* What was typed, what was gathered of it and what was answered follow one another.
SerialInv == /\ SerialTypes
             /\ Serial!WebServerServed
             /\ ~serialLost => Stretch /\ Begun /\ Replied

\* Members of sequences; appending to and taking from one.
LEMMA Member ==
  ASSUME NEW S, NEW q \in Seq(S), NEW i \in 1 .. Len(q)
  PROVE  i \in DOMAIN q /\ q[i] \in S
OBVIOUS

LEMMA Scripted ==
  ASSUME Serial!Lines, NEW l \in 1 .. Len(Script)
  PROVE  l \in DOMAIN Script /\ Script[l].size \in Nat \ {0} /\ Script[l].what \in Serial!Kind
<1>1. Script \in Seq([what : Serial!Kind, size : Nat \ {0}])
  BY DEF Serial!Lines
<1>2. l \in DOMAIN Script /\ Script[l] \in [what : Serial!Kind, size : Nat \ {0}]
  BY <1>1, Member
<1>. QED BY <1>2

LEMMA Appended ==
  ASSUME NEW S, NEW q \in Seq(S), NEW e \in S
  PROVE  /\ Append(q, e) \in Seq(S) /\ Append(q, e) # <<>>
         /\ Len(Append(q, e)) = Len(q) + 1 /\ Append(q, e)[Len(q) + 1] = e
         /\ \A i \in 1 .. Len(q) : Append(q, e)[i] = q[i]
OBVIOUS

LEMMA Tailed ==
  ASSUME NEW S, NEW q \in Seq(S), q # <<>>
  PROVE  /\ Tail(q) \in Seq(S) /\ Head(q) = q[1] /\ q[1] \in S /\ DOMAIN q = 1 .. Len(q)
         /\ Len(q) \in Nat \ {0} /\ Len(Tail(q)) = Len(q) - 1
         /\ \A i \in 1 .. Len(q) - 1 : Tail(q)[i] = q[i + 1]
OBVIOUS

LEMMA SerialInit == ASSUME Serial!Lines, Serial!Init PROVE SerialInv
<1>1. SerialTypes
  <2>1. <<>> \in Seq(CharPlace) /\ <<>> \in Seq([line : Seq(CharPlace), how : Hows])
    OBVIOUS
  <2>2. <<1, 1>> \in (Nat \ {0}) \X (Nat \ {0}) /\ -1 \in Int
    OBVIOUS
  <2>. QED BY <2>1, <2>2, Zenon DEF Serial!Init, SerialTypes
<1>2. Serial!WebServerServed
  BY DEF Serial!Init, Serial!WebServerServed
<1>3. Coming = <<1, 1>> /\ (1 <= Len(Script) => Script[1].size \in Nat)
  <2>1. 1 \in 1 .. Len(Script) => Script[1].size \in Nat
    BY Scripted
  <2>. QED BY <2>1 DEF Serial!Init, Coming, Serial!Lines
<1>4. Stretch /\ Begun /\ Replied
  BY <1>3 DEF Serial!Init, Stretch, Begun, Replied
<1>. QED BY <1>1, <1>2, <1>4 DEF SerialInv

LEMMA AfterPlace ==
  ASSUME Serial!Lines, NEW c \in (Nat \ {0}) \X (Nat \ {0}), c[1] \in DOMAIN Script
  PROVE  NextChar(c) \in (Nat \ {0}) \X (Nat \ {0})
<1>1. c[1] \in 1 .. Len(Script)
  BY DEF Serial!Lines
<1>. QED BY <1>1, Scripted DEF NextChar

\* The steps of SerialLink, one by one.
LEMMA TypeKeeps == ASSUME Serial!Lines, SerialInv, Serial!Type PROVE SerialInv'
<1>1. serialTyped[1] \in DOMAIN Script /\ serialTyped[1] \in Nat \ {0} /\ serialTyped[2] \in Nat \ {0} /\ serialTyped \in CharPlace
  BY DEF Serial!Type, Serial!Lines, SerialInv, SerialTypes, CharPlace
<1>2. serialTyped' = NextChar(serialTyped) /\ serialTyped' \in (Nat \ {0}) \X (Nat \ {0})
  BY <1>1, AfterPlace DEF Serial!Type, NextChar, SerialInv, SerialTypes
<1>. DEFINE more == Append(serialRx, serialTyped)
<1>3. /\ more \in Seq(CharPlace) /\ more # <<>> /\ Len(more) = Len(serialRx) + 1 /\ more[Len(serialRx) + 1] = serialTyped
      /\ \A i \in 1 .. Len(serialRx) : more[i] = serialRx[i]
  BY <1>1, Appended DEF SerialInv, SerialTypes
<1>4. serialRx' = more \/ serialRx' = serialRx
  BY DEF Serial!Type
<1>. HIDE DEF more
<1>5. SerialTypes'
  <2>1. serialRx' \in Seq(CharPlace)
    BY <1>3, <1>4 DEF SerialInv, SerialTypes
  <2>. QED BY <1>2, <2>1 DEF Serial!Type, SerialInv, SerialTypes
<1>6. Serial!WebServerServed'
  BY DEF Serial!Type, SerialInv, Serial!WebServerServed, Serial!Running
<1>7. ASSUME ~serialLost' PROVE Stretch' /\ Begun' /\ Replied'
  <2>1. ~serialLost /\ serialRx' = more
    BY <1>7 DEF Serial!Type, more
  <2>2. serialRx \in Seq(CharPlace) /\ Len(serialRx) \in Nat /\ (serialRx # <<>> => Len(serialRx) # 0)
    BY DEF SerialInv, SerialTypes
  <2>3. Coming' = Coming
    BY <1>3, <2>1, <2>2 DEF Coming
  <2>4. Stretch'
    <3>1. \A i \in 1 .. Len(serialRx') - 1 : serialRx'[i + 1] = NextChar(serialRx'[i])
      BY <1>3, <2>1, <2>2 DEF Stretch, SerialInv
    <3>. QED BY <1>2, <1>3, <2>1, <3>1 DEF Stretch
  <2>. QED BY <2>1, <2>3, <2>4 DEF Serial!Type, Begun, Replied, SerialInv, Serial!Whole
<1>. QED BY <1>5, <1>6, <1>7 DEF SerialInv

\* What every step that reads a byte does to what comes next.
LEMMA Advance ==
  ASSUME Serial!Lines, SerialInv, Serial!Reads, Serial!Rest
  PROVE  /\ Head(serialRx) = serialRx[1] /\ serialRx[1] \in CharPlace /\ serialRx' \in Seq(CharPlace)
         /\ serialBudget' \in Int
         /\ ~serialLost => /\ Coming = serialRx[1]
                           /\ serialTyped' = serialTyped => Coming' = NextChar(serialRx[1]) /\ Stretch'
<1>1. serialRx \in Seq(CharPlace) /\ serialRx # <<>> /\ serialRx' = Tail(serialRx)
  BY DEF Serial!Reads, Serial!Rest, SerialInv, SerialTypes
<1>2. /\ serialRx' \in Seq(CharPlace) /\ Head(serialRx) = serialRx[1] /\ serialRx[1] \in CharPlace
      /\ Len(serialRx) \in Nat \ {0} /\ Len(serialRx') = Len(serialRx) - 1
      /\ \A i \in 1 .. Len(serialRx) - 1 : serialRx'[i] = serialRx[i + 1]
  BY <1>1, Tailed
<1>3. serialBudget' \in Int
  BY DEF Serial!Rest, SerialInv, SerialTypes
<1>4. ASSUME ~serialLost, serialTyped' = serialTyped PROVE Coming' = NextChar(serialRx[1]) /\ Stretch'
  <2>1. serialRx' = <<>> <=> Len(serialRx) = 1
    BY <1>2
  <2>2. Stretch
    BY <1>4 DEF SerialInv
  <2>3. Coming' = NextChar(serialRx[1])
    BY <1>1, <1>2, <1>4, <2>1, <2>2 DEF Coming, Stretch
  <2>4. Stretch'
    <3>1. \A i \in 1 .. Len(serialRx') - 1 : serialRx'[i + 1] = NextChar(serialRx'[i])
      BY <1>2, <2>2 DEF Stretch
    <3>2. serialRx' # <<>> => serialRx'[Len(serialRx')] = serialRx[Len(serialRx)]
      BY <1>2, <2>1
    <3>. QED BY <1>1, <1>4, <2>2, <3>1, <3>2 DEF Stretch
  <2>. QED BY <2>3, <2>4
<1>. QED BY <1>1, <1>2, <1>3, <1>4 DEF Coming

LEMMA GatherKeeps == ASSUME Serial!Lines, SerialInv, Serial!Gather PROVE SerialInv'
<1>. DEFINE b == serialRx[1]
            more == Append(serialLineBuf, b)
<1>1. /\ Head(serialRx) = b /\ b \in CharPlace /\ serialRx' \in Seq(CharPlace) /\ serialBudget' \in Int
      /\ ~serialLost => Coming = b /\ Coming' = NextChar(b) /\ Stretch'
      /\ ~Serial!EndOf(b)
  BY Advance DEF Serial!Gather
<1>2. serialLineBuf \in Seq(CharPlace)
  BY DEF SerialInv, SerialTypes
<1>3. /\ more \in Seq(CharPlace) /\ more # <<>> /\ Len(more) = Len(serialLineBuf) + 1 /\ more[Len(serialLineBuf) + 1] = b
      /\ \A i \in 1 .. Len(serialLineBuf) : more[i] = serialLineBuf[i]
  BY <1>1, <1>2, Appended
<1>4. \/ serialLineBuf' = more /\ serialOverflowed' = serialOverflowed /\ ~(Len(serialLineBuf) >= LineMax)
      \/ serialLineBuf' = serialLineBuf /\ serialOverflowed' = TRUE /\ Len(serialLineBuf) >= LineMax
  BY <1>1 DEF Serial!Gather
<1>. HIDE DEF more, b
<1>5. SerialTypes'
  <2>1. serialLineBuf' \in Seq(CharPlace)
    BY <1>2, <1>3, <1>4
  <2>2. serialOverflowed' \in BOOLEAN
    BY <1>4 DEF SerialInv, SerialTypes
  <2>. QED BY <1>1, <2>1, <2>2 DEF Serial!Gather, SerialInv, SerialTypes
<1>6. Serial!WebServerServed'
  BY DEF Serial!Gather, SerialInv, Serial!WebServerServed, Serial!Running
<1>7. ASSUME ~serialLost' PROVE Stretch' /\ Begun' /\ Replied'
  <2>1. ~serialLost /\ Coming = b /\ Coming' = NextChar(b) /\ Stretch' /\ Begun /\ Replied
    BY <1>1, <1>7 DEF Serial!Gather, SerialInv
  <2>2. b[1] \in 1 .. Len(Script) /\ b[2] \in Nat \ {0} /\ Script[b[1]].size \in Nat /\ b[2] <= Script[b[1]].size
    BY <1>1, Scripted DEF CharPlace, Serial!EndOf
  <2>3. Coming'[1] = b[1] /\ Coming'[2] = b[2] + 1
    BY <1>1, <2>1 DEF NextChar
  <2>4. ASSUME serialLineBuf' = more, serialOverflowed' = serialOverflowed, ~(Len(serialLineBuf) >= LineMax) PROVE Begun'
    <3>1. ~serialOverflowed /\ Len(serialLineBuf) = b[2] - 1 /\ b = <<b[1], b[2]>>
      BY <1>1, <2>1, <2>4 DEF Begun, CharPlace
    <3>2. ASSUME NEW i \in 1 .. b[2] PROVE serialLineBuf'[i] = <<b[1], i>>
      <4>1. CASE i = b[2]
        BY <1>3, <2>2, <2>4, <3>1, <4>1
      <4>2. CASE i # b[2]
        <5>1. i \in 1 .. Len(serialLineBuf) /\ i \in DOMAIN serialLineBuf
          BY <1>2, <2>2, <3>1, <4>2
        <5>. QED BY <1>3, <2>1, <2>4, <5>1 DEF Begun
      <4>. QED BY <4>1, <4>2
    <3>3. Len(serialLineBuf') = b[2] /\ DOMAIN serialLineBuf' = 1 .. b[2]
      BY <1>3, <2>2, <2>4, <3>1
    <3>. QED BY <2>2, <2>3, <2>4, <3>1, <3>2, <3>3 DEF Begun
  <2>5. ASSUME serialLineBuf' = serialLineBuf, serialOverflowed' = TRUE, Len(serialLineBuf) >= LineMax PROVE Begun'
    BY <2>1, <2>2, <2>3, <2>5 DEF Begun
  <2>6. Replied'
    BY <2>1, <2>3 DEF Serial!Gather, Replied, Serial!Whole
  <2>. QED BY <1>4, <2>1, <2>4, <2>5, <2>6
<1>. QED BY <1>5, <1>6, <1>7 DEF SerialInv

LEMMA LineEndKeeps == ASSUME Serial!Lines, SerialInv, Serial!LineEnd PROVE SerialInv'
<1>. DEFINE b == serialRx[1]
<1>1. /\ Head(serialRx) = b /\ b \in CharPlace /\ serialRx' \in Seq(CharPlace) /\ serialBudget' \in Int
      /\ ~serialLost => Coming = b /\ Coming' = NextChar(b) /\ Stretch'
      /\ Serial!EndOf(b)
  BY Advance DEF Serial!LineEnd
<1>. HIDE DEF b
<1>2. serialLineBuf \in Seq(CharPlace) /\ serialLineBuf' = <<>> /\ serialOverflowed' = FALSE
  BY DEF SerialInv, SerialTypes, Serial!LineEnd, Serial!Cleared
<1>3. ~Serial!Running /\ serialTransport = "web"
  BY DEF SerialInv, Serial!WebServerServed, Serial!LineEnd, Serial!Reads
<1>4. \/ serialReplies' = serialReplies /\ serialTransport' = serialTransport
      \/ \E how \in Hows :
           /\ serialLineBuf # <<>> /\ serialReplies' = Append(serialReplies, [line |-> serialLineBuf, how |-> how])
           /\ serialTransport' = "web" \/ how = "running"
           /\ how # "too long" => ~serialOverflowed /\ serialLineBuf[1][2] = 1
  <2>1. serialLineBuf # <<>> => serialLineBuf[1] \in CharPlace
    BY <1>2
  <2>2. serialLineBuf # <<>> => Serial!Command(serialLineBuf) \in Hows
    BY <2>1, Scripted DEF Serial!Command, CharPlace, Hows
  <2>. QED BY <1>3, <2>2 DEF Serial!LineEnd, Serial!Reply, Serial!CutOff, Serial!Addressed, Hows
<1>5. ASSUME NEW how \in Hows, serialLineBuf # <<>>,
             serialReplies' = Append(serialReplies, [line |-> serialLineBuf, how |-> how])
      PROVE  /\ serialReplies' \in Seq([line : Seq(CharPlace), how : Hows]) /\ serialReplies' # <<>>
             /\ Len(serialReplies) \in Nat /\ Len(serialReplies') = Len(serialReplies) + 1
             /\ serialReplies'[Len(serialReplies')].how = how /\ serialReplies'[Len(serialReplies')].line = serialLineBuf
             /\ DOMAIN serialReplies = 1 .. Len(serialReplies) /\ DOMAIN serialReplies' = 1 .. Len(serialReplies) + 1
             /\ \A i \in DOMAIN serialReplies : serialReplies'[i] = serialReplies[i]
  <2>. DEFINE r == [line |-> serialLineBuf, how |-> how]
  <2>1. r \in [line : Seq(CharPlace), how : Hows] /\ serialReplies \in Seq([line : Seq(CharPlace), how : Hows])
    BY <1>2 DEF SerialInv, SerialTypes
  <2>2. r.line = serialLineBuf /\ r.how = how
    OBVIOUS
  <2>. HIDE DEF r
  <2>3. /\ serialReplies' \in Seq([line : Seq(CharPlace), how : Hows]) /\ serialReplies' # <<>>
        /\ Len(serialReplies') = Len(serialReplies) + 1 /\ serialReplies'[Len(serialReplies) + 1] = r
        /\ \A i \in 1 .. Len(serialReplies) : serialReplies'[i] = serialReplies[i]
    BY <1>5, <2>1, Appended DEF r
  <2>4. DOMAIN serialReplies = 1 .. Len(serialReplies) /\ DOMAIN serialReplies' = 1 .. Len(serialReplies')
    BY <2>1, <2>3
  <2>. QED BY <2>2, <2>3, <2>4
<1>6. SerialTypes'
  <2>1. serialReplies' \in Seq([line : Seq(CharPlace), how : Hows])
    BY <1>4, <1>5 DEF SerialInv, SerialTypes
  <2>2. serialLineBuf' \in Seq(CharPlace)
    BY <1>2
  <2>. QED BY <1>1, <1>2, <2>1, <2>2 DEF Serial!LineEnd, SerialInv, SerialTypes
<1>7. Serial!WebServerServed'
  BY <1>3, <1>4, <1>5 DEF Serial!WebServerServed, Serial!Running
<1>8. ASSUME ~serialLost' PROVE Stretch' /\ Begun' /\ Replied'
  <2>1. ~serialLost /\ Coming = b /\ Coming' = NextChar(b) /\ Stretch' /\ Begun /\ Replied
    BY <1>1, <1>8 DEF Serial!LineEnd, SerialInv
  <2>2. b[1] \in 1 .. Len(Script) /\ b[2] \in Nat \ {0} /\ Script[b[1]].size \in Nat \ {0} /\ b[2] = Script[b[1]].size + 1
    BY <1>1, <2>1, Scripted DEF CharPlace, Serial!EndOf, Begun
  <2>3. Coming' = <<b[1] + 1, 1>>
    BY <1>1, <2>1 DEF NextChar
  <2>7. \A i \in DOMAIN serialReplies : serialReplies[i].line[1][1] \in Nat /\ serialReplies[i].line[1][1] < b[1]
    <3>1. ASSUME NEW i \in DOMAIN serialReplies PROVE serialReplies[i].line[1] \in CharPlace
      <4>1. serialReplies \in Seq([line : Seq(CharPlace), how : Hows])
        BY DEF SerialInv, SerialTypes
      <4>2. serialReplies[i] \in [line : Seq(CharPlace), how : Hows]
        <5>1. i \in 1 .. Len(serialReplies)
          BY <4>1
        <5>. QED BY <4>1, <5>1, Member
      <4>. QED BY <2>1, <4>2, Tailed DEF Replied
    <3>2. \A p \in CharPlace : p[1] \in Nat
      BY DEF CharPlace
    <3>. QED BY <2>1, <3>1, <3>2 DEF Replied
  <2>8. \A i \in DOMAIN serialReplies : serialReplies[i].line[1][1] < b[1] + 1
    BY <2>2, <2>7
  <2>4. Begun'
    <3>1. b[1] + 1 <= Len(Script) => b[1] + 1 \in 1 .. Len(Script)
      BY <2>2
    <3>2. b[1] + 1 <= Len(Script) => Script[b[1] + 1].size \in Nat
      BY <3>1, Scripted
    <3>. QED BY <1>2, <2>3, <3>2 DEF Begun
  <2>5. ASSUME NEW how \in Hows, serialLineBuf # <<>>,
               serialReplies' = Append(serialReplies, [line |-> serialLineBuf, how |-> how]),
               how # "too long" => ~serialOverflowed /\ serialLineBuf[1][2] = 1
        PROVE  Replied'
    <3>1. DOMAIN serialLineBuf = 1 .. Len(serialLineBuf) /\ Len(serialLineBuf) \in Nat \ {0}
      BY <1>2, <2>5, Tailed
    <3>2. serialLineBuf[1][1] = b[1]
      BY <2>1, <3>1 DEF Begun
    <3>3. how # "too long" => Serial!Whole(serialLineBuf)
      <4>1. Len(serialLineBuf) = Script[b[1]].size \/ serialOverflowed
        BY <2>1, <2>2 DEF Begun
      <4>2. \A i \in DOMAIN serialLineBuf : serialLineBuf[i] = <<b[1], i>>
        BY <2>1 DEF Begun
      <4>. QED BY <2>5, <3>2, <4>1, <4>2 DEF Serial!Whole
    <3>4. /\ Len(serialReplies) \in Nat /\ Len(serialReplies') = Len(serialReplies) + 1
          /\ serialReplies'[Len(serialReplies')].how = how /\ serialReplies'[Len(serialReplies')].line = serialLineBuf
          /\ DOMAIN serialReplies = 1 .. Len(serialReplies) /\ DOMAIN serialReplies' = 1 .. Len(serialReplies) + 1
          /\ \A i \in DOMAIN serialReplies : serialReplies'[i] = serialReplies[i]
      BY <1>5, <2>5
    <3>5. \A i \in DOMAIN serialReplies' : i \in DOMAIN serialReplies \/ i = Len(serialReplies')
      BY <3>4
    <3>6. \A i, j \in DOMAIN serialReplies' : i < j => i \in DOMAIN serialReplies
      BY <3>4
    <3>7. \A i \in DOMAIN serialReplies' : serialReplies'[i].line # <<>> /\ serialReplies'[i].line[1][1] < b[1] + 1
      <4>1. b[1] < b[1] + 1
        BY <2>2
      <4>2. \A i \in DOMAIN serialReplies : serialReplies[i].line # <<>>
        BY <2>1 DEF Replied
      <4>. QED BY <2>5, <2>8, <3>2, <3>4, <3>5, <4>1, <4>2
    <3>8. \A i, j \in DOMAIN serialReplies' : i < j => serialReplies'[i].line[1][1] < serialReplies'[j].line[1][1]
      BY <3>4, <2>1, <2>2, <2>5, <2>7, <3>2, <3>5, <3>6 DEF Replied
    <3>9. \A i \in DOMAIN serialReplies' : serialReplies'[i].how # "too long" => Serial!Whole(serialReplies'[i].line)
      BY <3>4, <2>1, <2>5, <3>3, <3>5 DEF Replied
    <3>. QED BY <2>3, <3>7, <3>8, <3>9 DEF Replied, Serial!Whole
  <2>6. serialReplies' = serialReplies => Replied'
    <3>1. Coming'[1] = b[1] + 1
      BY <2>3
    <3>. QED BY <2>1, <2>8, <3>1 DEF Replied, Serial!Whole
  <2>. QED BY <1>4, <2>1, <2>4, <2>5, <2>6
<1>. QED BY <1>6, <1>7, <1>8 DEF SerialInv

LEMMA ElementReplaced ==
  ASSUME NEW S, NEW q \in Seq(S), NEW i \in 1 .. Len(q), NEW e \in S
  PROVE  /\ [q EXCEPT ![i] = e] \in Seq(S) /\ DOMAIN [q EXCEPT ![i] = e] = DOMAIN q
         /\ Len([q EXCEPT ![i] = e]) = Len(q) /\ [q EXCEPT ![i] = e][i] = e
         /\ \A j \in DOMAIN q : j # i => [q EXCEPT ![i] = e][j] = q[j]
OBVIOUS

LEMMA ReplyKeeps == ASSUME SerialInv, NEW answered \in BOOLEAN, Serial!HandlerReturns(answered) PROVE SerialInv'
<1>. DEFINE n   == Len(serialReplies)
            how == IF answered THEN "done" ELSE "no answer"
<1>1. /\ serialReplies \in Seq([line : Seq(CharPlace), how : Hows]) /\ serialReplies # <<>>
      /\ serialReplies[n].how = "running" /\ serialReplies' = [serialReplies EXCEPT ![n].how = how]
      /\ how \in Hows /\ how # "running"
  BY DEF Serial!HandlerReturns, Serial!Running, SerialInv, SerialTypes, Hows
<1>2. DOMAIN serialReplies = 1 .. n /\ n \in Nat \ {0}
  BY <1>1, Tailed
<1>3. serialReplies[n] \in [line : Seq(CharPlace), how : Hows]
  <2>1. n \in 1 .. Len(serialReplies)
    BY <1>2
  <2>. HIDE DEF n
  <2>. QED BY <1>1, <2>1, Member
<1>. DEFINE r == [serialReplies[n] EXCEPT !.how = how]
<1>4. r \in [line : Seq(CharPlace), how : Hows] /\ r.line = serialReplies[n].line /\ r.how = how
  BY <1>1, <1>3
<1>5. serialReplies' = [serialReplies EXCEPT ![n] = r]
  BY <1>1
<1>. HIDE DEF r, how
<1>6. /\ serialReplies' \in Seq([line : Seq(CharPlace), how : Hows])
      /\ Len(serialReplies') = n /\ serialReplies'[n] = r /\ DOMAIN serialReplies' = DOMAIN serialReplies
      /\ \A i \in DOMAIN serialReplies : i # n => serialReplies'[i] = serialReplies[i]
  <2>. HIDE DEF n
  <2>1. n \in 1 .. n
    BY <1>2
  <2>2. serialReplies \in Seq([line : Seq(CharPlace), how : Hows]) /\ Len(serialReplies) = n
    BY <1>1 DEF n
  <2>. QED BY <1>2, <1>4, <1>5, <2>1, <2>2, ElementReplaced
<1>7. \A i \in DOMAIN serialReplies :
         serialReplies'[i].line = serialReplies[i].line
         /\ (serialReplies'[i].how # "too long" => serialReplies[i].how # "too long")
  BY <1>1, <1>2, <1>4, <1>6
<1>8. SerialTypes'
  BY <1>6 DEF Serial!HandlerReturns, SerialInv, SerialTypes
<1>9. Serial!WebServerServed'
  BY DEF Serial!HandlerReturns, Serial!Restored, Serial!WebServerServed
<1>10. ~serialLost' => Stretch' /\ Begun' /\ Replied'
  <2>1. ASSUME ~serialLost' PROVE Stretch /\ Begun /\ Replied /\ Coming' = Coming
    BY <2>1 DEF Serial!HandlerReturns, SerialInv, Coming
  <2>2. ASSUME ~serialLost' PROVE Stretch' /\ Begun'
    BY <2>1, <2>2 DEF Serial!HandlerReturns, Stretch, Begun
  <2>3. ASSUME ~serialLost' PROVE Replied'
    <3>1. Replied /\ Coming' = Coming /\ DOMAIN serialReplies' = DOMAIN serialReplies
      BY <1>6, <2>1, <2>3
    <3>2. \A i \in DOMAIN serialReplies : serialReplies'[i].line # <<>> /\ serialReplies'[i].line[1][1] < Coming[1]
      BY <1>7, <3>1 DEF Replied
    <3>3. \A i, j \in DOMAIN serialReplies : i < j => serialReplies'[i].line[1][1] < serialReplies'[j].line[1][1]
      BY <1>7, <3>1 DEF Replied
    <3>4. \A i \in DOMAIN serialReplies : serialReplies'[i].how # "too long" => Serial!Whole(serialReplies'[i].line)
      BY <1>7, <3>1 DEF Replied
    <3>. QED BY <3>1, <3>2, <3>3, <3>4 DEF Replied, Serial!Whole
  <2>. QED BY <2>2, <2>3
<1>. QED BY <1>8, <1>9, <1>10 DEF SerialInv

LEMMA SerialStays == ASSUME Serial!Lines, SerialInv, [Serial!Next]_(Serial!vars) PROVE SerialInv'
<1>1. CASE Serial!TickBegin \/ Serial!TickEnd \/ UNCHANGED Serial!vars
  <2>1. serialBudget' \in Int
    BY <1>1 DEF Serial!TickBegin, Serial!TickEnd, Serial!vars, SerialInv, SerialTypes, Serial!Lines
  <2>2. UNCHANGED <<serialTyped, serialRx, serialLineBuf, serialOverflowed, serialTransport, serialReplies, serialLost>>
    BY <1>1 DEF Serial!TickBegin, Serial!TickEnd, Serial!vars
  <2>. QED BY <2>1, <2>2 DEF SerialInv, SerialTypes, Serial!WebServerServed, Serial!Running, Stretch, Begun, Replied, Coming, Serial!Whole
<1>. QED BY <1>1, TypeKeeps, GatherKeeps, LineEndKeeps, ReplyKeeps DEF Serial!Next, Serial!Work

LEMMA SerialGives == ASSUME SerialInv PROVE Serial!OnlyWholeLinesRun /\ Serial!OneReplyEach /\ Serial!WebServerServed
BY DEF SerialInv, Replied, Serial!OnlyWholeLinesRun, Serial!OneReplyEach

-----------------------------------------------------------------------------
(* StatusLed: the locate flash and the healthy green *)

ledPc          == x1
ledBootMode    == x2
ledLinkUp      == x3
ledCounts      == x4
ledAmber       == x5
ledLastTick    == x6
ledLocateUntil == x7
ledShown       == x8
ledTimer       == x9
ledRegistry    == x10
ledNow         == x11
ledAsked       == x12
ledHeard       == x13

USE DEF ledPc, ledBootMode, ledLinkUp, ledCounts, ledAmber, ledLastTick, ledLocateUntil,
        ledShown, ledTimer, ledRegistry, ledNow, ledAsked, ledHeard

Green == {"healthy", "fallback-server"}
LedTime == 0 .. LedClock - 1

LedType ==
  /\ ledPc \in {"cable", "web", "led", "note"} /\ ledCounts \in {"none", "offline", "online"}
  /\ ledRegistry \in {"none", "offline", "online"}
  /\ ledNow \in LedTime /\ ledLastTick \in LedTime /\ ledLocateUntil \in LedTime /\ ledTimer \in LedTime
  /\ ledAsked \in -1 .. LocatePeriod /\ ledHeard \in 0 .. Led!Silent

\* Time since the last tick, over the clock's wrap.
TickAge == IF ledLastTick <= ledNow THEN ledNow - ledLastTick ELSE ledNow - ledLastTick + LedClock

\* The cable's colours come before the first tick, and a tick is never far.
BootInv == /\ ledBootMode <=> ledPc = "cable"
           /\ ledPc = "cable" => /\ ledCounts = "none" /\ ledAsked = LocatePeriod /\ ledLocateUntil = 0
                                 /\ ledShown = "boot" /\ TickAge <= TickPeriod
           /\ ledPc \in {"web", "led"} => 0 < TickAge /\ TickAge <= TickPeriod + LongPass
           /\ ledPc = "note" => TickAge < TickPeriod

\* The deadline is ahead while locate is on; it is cleared by the first tick after it,
\* which comes before the clock does; and the ticks show which of the two it is.
LocateInv ==
  /\ ledAsked # -1 /\ ledAsked < LocatePeriod =>
       ledLocateUntil = ledNow + LocatePeriod - ledAsked /\ ledLocateUntil + TickPeriod + LongPass <= LedClock
  /\ ledAsked = LocatePeriod /\ ledLocateUntil # 0 =>
       /\ ledLocateUntil <= ledNow /\ ledNow - ledLocateUntil < TickAge
       /\ ledLocateUntil + TickPeriod + LongPass <= LedClock
  /\ ledPc = "note" /\ ledLastTick = ledNow /\ ledAsked # -1 => (ledShown = "flash" <=> ledAsked < LocatePeriod)

\* Nodes count as online from when the timer was set, or, just before the clock comes
\* round, for one pass; and green is shown for no longer.
GreenInv ==
  /\ ledCounts = "online" /\ ledTimer + LongPass < LedClock =>
       \/ /\ ledNow <= ledTimer + LongPass /\ ledTimer <= ledNow + NotePeriod
          /\ ledHeard <= StalePeriod + NotePeriod + ledNow - ledTimer
       \/ ledTimer < ledNow /\ ledHeard <= StalePeriod + LongPass
  /\ ledPc = "note" /\ ledLastTick = ledNow /\ ledShown \in Green /\ ledTimer + LongPass < LedClock =>
       ledHeard <= StalePeriod + NotePeriod + LongPass

LedInv == LedType /\ BootInv /\ LocateInv /\ GreenInv

LEMMA Around ==
  ASSUME NEW c \in Nat \ {0}, NEW n \in Nat, n < 2 * c
  PROVE  n % c = IF n < c THEN n ELSE n - c
<1>1. CASE n < c
  BY <1>1
<1>2. CASE n >= c
  BY <1>2
<1>. QED BY <1>1, <1>2

LEMMA Distance ==
  ASSUME NEW c \in Nat \ {0}, NEW a \in 0 .. c - 1, NEW b \in 0 .. c - 1
  PROVE  (a - b) % c = IF b <= a THEN a - b ELSE a - b + c
<1>1. CASE b <= a
  BY <1>1
<1>2. CASE a < b
  BY <1>2
<1>. QED BY <1>1, <1>2

LEMMA LedPeriods ==
  ASSUME Led!Timers
  PROVE  /\ TickPeriod \in Nat \ {0} /\ NotePeriod \in Nat \ {0} /\ LocatePeriod \in Nat \ {0}
         /\ StalePeriod \in Nat \ {0} /\ LongPass \in Nat \ {0} /\ LedClock \in Nat \ {0}
         /\ TickPeriod + NotePeriod + LocatePeriod + 2 * LongPass < LedClock
         /\ Led!Silent = StalePeriod + NotePeriod + LongPass + 1
<1>. QED BY DEF Led!Timers, Led!Silent

\* What the clock's arithmetic comes to.
LEMMA LedFacts ==
  ASSUME Led!Timers, LedType
  PROVE  /\ Led!Elapsed(ledLastTick) = TickAge
         /\ \A d \in 0 .. LocatePeriod + NotePeriod + LongPass :
              Led!After(d) = IF ledNow + d < LedClock THEN ledNow + d ELSE ledNow + d - LedClock
<1>. USE LedPeriods
<1>1. Led!Elapsed(ledLastTick) = TickAge
  BY Distance DEF Led!Elapsed, LedType, LedTime, TickAge
<1>2. ASSUME NEW d \in 0 .. LocatePeriod + NotePeriod + LongPass
      PROVE  Led!After(d) = IF ledNow + d < LedClock THEN ledNow + d ELSE ledNow + d - LedClock
  <2>1. ledNow \in Nat /\ ledNow < LedClock /\ ledNow + d \in Nat /\ ledNow + d < 2 * LedClock
    BY DEF LedType, LedTime
  <2>. DEFINE n == ledNow + d
  <2>2. n \in Nat /\ n < 2 * LedClock
    BY <2>1
  <2>. HIDE DEF n
  <2>3. n % LedClock = IF n < LedClock THEN n ELSE n - LedClock
    BY <2>2, Around
  <2>4. (ledNow + d) % LedClock = IF ledNow + d < LedClock THEN ledNow + d ELSE ledNow + d - LedClock
    BY <2>1, <2>3 DEF n
  <2>. QED BY <2>4 DEF Led!After
<1>. QED BY <1>1, <1>2

LEMMA LedInit == ASSUME Led!Timers, Led!Init PROVE LedInv
<1>. USE LedPeriods
<1>1. LedType
  BY DEF Led!Init, LedType, LedTime
<1>2. TickAge = 0
  BY DEF Led!Init, TickAge
<1>3. BootInv
  BY <1>2 DEF Led!Init, BootInv
<1>4. LocateInv
  BY DEF Led!Init, LocateInv
<1>5. GreenInv
  BY DEF Led!Init, GreenInv, Green
<1>. QED BY <1>1, <1>3, <1>4, <1>5 DEF LedInv

\* What a tick does: nothing when it is early, else it shows the state of the moment.
LEMMA TickDoes ==
  ASSUME Led!Timers, LedInv, Led!tick
  PROVE  \/ TickAge < TickPeriod /\ UNCHANGED <<ledLastTick, ledShown, ledLocateUntil>>
         \/ /\ TickAge >= TickPeriod /\ ledLastTick' = ledNow
            /\ ledBootMode => ledShown' = "boot" /\ ledLocateUntil' = ledLocateUntil
            /\ ~ledBootMode /\ ledLocateUntil > ledNow => ledShown' = "flash" /\ ledLocateUntil' = ledLocateUntil
            /\ ~ledBootMode /\ ledLocateUntil <= ledNow => ledShown' # "flash" /\ ledLocateUntil' = 0
            /\ ledShown' \in Green => ~ledBootMode /\ ledCounts = "online"
<1>1. Led!Elapsed(ledLastTick) = TickAge /\ TickAge \in Int /\ TickPeriod \in Nat /\ ledNow \in Nat /\ ledLocateUntil \in Nat
  BY LedFacts, LedPeriods DEF LedInv, LedType, LedTime, TickAge
<1>2. ledCounts \in {"none", "offline", "online"}
  BY DEF LedInv, LedType
<1>3. CASE TickAge < TickPeriod
  BY <1>1, <1>3 DEF Led!tick
<1>4. CASE ~(TickAge < TickPeriod)
  <2>1. /\ ledLastTick' = ledNow /\ ledShown' = IF ledBootMode THEN "boot" ELSE IF Led!Locating THEN "flash" ELSE Led!Colour
        /\ ledLocateUntil' = IF ledBootMode \/ Led!Locating THEN ledLocateUntil ELSE 0
    BY <1>1, <1>4 DEF Led!tick
  <2>2. Led!Locating <=> ledLocateUntil > ledNow
    BY <1>1 DEF Led!Locating
  <2>3. Led!Colour # "flash" /\ Led!Colour # "boot" /\ (Led!Colour \in Green => ledCounts = "online")
    BY <1>2 DEF Led!Colour, Green
  <2>. QED BY <1>1, <1>4, <2>1, <2>2, <2>3 DEF Green
<1>. QED BY <1>3, <1>4

\* What d more of time does to the clock and the ages.
LEMMA PassDoes ==
  ASSUME Led!Timers, LedType, NEW d \in 1 .. LongPass, Led!Passes(d)
  PROVE  /\ ledNow' = IF ledNow + d < LedClock THEN ledNow + d ELSE ledNow + d - LedClock
         /\ ledNow' \in LedTime /\ ledAsked' \in -1 .. LocatePeriod /\ ledHeard' \in 0 .. Led!Silent
         /\ ledAsked' = -1 <=> ledAsked = -1
         /\ ledAsked # -1 => \/ ledAsked' = ledAsked + d
                             \/ ledAsked' = LocatePeriod /\ ledAsked + d > LocatePeriod
         /\ ledHeard' <= ledHeard + d
         /\ TickAge + d < LedClock /\ ledLastTick' = ledLastTick => TickAge' = TickAge + d
<1>. USE LedPeriods
<1>0. d \in Nat /\ 1 <= d /\ d <= LongPass /\ d \in 0 .. LocatePeriod + NotePeriod + LongPass
  OBVIOUS
<1>1. ledNow' = IF ledNow + d < LedClock THEN ledNow + d ELSE ledNow + d - LedClock
  BY <1>0, LedFacts DEF Led!Passes
<1>2. ledNow' \in LedTime
  BY <1>0, <1>1 DEF LedType, LedTime
<1>3. /\ ledAsked' = IF ledAsked = -1 THEN -1 ELSE IF ledAsked + d > LocatePeriod THEN LocatePeriod ELSE ledAsked + d
      /\ ledHeard' = IF ledHeard + d > Led!Silent THEN Led!Silent ELSE ledHeard + d
  BY DEF Led!Passes, Led!Older, Led!Late
<1>4. ledAsked \in Int /\ -1 <= ledAsked /\ ledAsked <= LocatePeriod /\ ledHeard \in Nat /\ Led!Silent \in Nat
  BY DEF LedType
<1>5. TickAge + d < LedClock /\ ledLastTick' = ledLastTick => TickAge' = TickAge + d
  BY <1>0, <1>1 DEF LedType, LedTime, TickAge
<1>6. ledAsked' \in -1 .. LocatePeriod /\ ledHeard' \in 0 .. Led!Silent /\ ledHeard' <= ledHeard + d
  BY <1>0, <1>3, <1>4
<1>7. ledAsked' = -1 <=> ledAsked = -1
  BY <1>0, <1>3, <1>4
<1>8. ledAsked # -1 => \/ ledAsked' = ledAsked + d
                       \/ ledAsked' = LocatePeriod /\ ledAsked + d > LocatePeriod
  BY <1>0, <1>3, <1>4
<1>. HIDE DEF TickAge
<1>. QED BY <1>0, <1>1, <1>2, <1>4, <1>5, <1>6, <1>7, <1>8

LEMMA LedStep == ASSUME Led!Timers, LedInv, Led!Next PROVE LedInv'
<1>0. LedType /\ BootInv /\ LocateInv /\ GreenInv
  BY DEF LedInv
<1>. USE <1>0, LedPeriods
<1>01. /\ ledNow \in Nat /\ ledNow < LedClock /\ ledLastTick \in Nat /\ ledLocateUntil \in Nat /\ ledTimer \in Nat
       /\ ledAsked \in Int /\ ledHeard \in Nat /\ TickAge \in Int
  BY DEF LedType, LedTime, TickAge
<1>. USE <1>01
<1>1. CASE Led!startLocate
  <2>1. /\ ledPc = "web" /\ UNCHANGED <<ledPc, Led!told, ledLastTick, ledShown, ledTimer, ledRegistry, ledNow, ledHeard>>
        /\ ledLocateUntil' = IF ledNow + LocatePeriod < LedClock THEN ledNow + LocatePeriod ELSE ledNow + LocatePeriod - LedClock
        /\ ledAsked' = IF ledNow + LocatePeriod + TickPeriod + LongPass > LedClock THEN -1 ELSE 0
    BY <1>1, LedFacts DEF Led!startLocate, Led!Until, Led!RoundBefore, Led!Late
  <2>2. LedType'
    BY <2>1 DEF LedType, LedTime, Led!told
  <2>3. BootInv'
    BY <2>1 DEF BootInv, TickAge, Led!told
  <2>4. LocateInv'
    BY <2>1 DEF LocateInv
  <2>5. GreenInv'
    BY <2>1 DEF GreenInv, Led!told
  <2>. QED BY <2>2, <2>3, <2>4, <2>5 DEF LedInv
<1>2. CASE Led!Hear
  <2>1. /\ ledPc = "web" /\ ledRegistry' = "online" /\ ledHeard' = 0
        /\ UNCHANGED <<ledPc, Led!told, ledLastTick, ledLocateUntil, ledShown, ledTimer, ledNow, ledAsked>>
    BY <1>2 DEF Led!Hear
  <2>2. LedType'
    BY <2>1 DEF LedType, Led!told
  <2>3. BootInv' /\ LocateInv'
    BY <2>1 DEF BootInv, LocateInv, TickAge, Led!told
  <2>4. GreenInv'
    BY <2>1 DEF GreenInv, Led!told
  <2>. QED BY <2>2, <2>3, <2>4 DEF LedInv
<1>3. CASE Led!NoCable
  <2>1. /\ ledPc = "cable" /\ ledBootMode /\ 1 \in 1 .. LongPass /\ Led!Passes(1) /\ Led!tick
        /\ UNCHANGED <<ledPc, ledBootMode, ledCounts, ledAmber, ledTimer, ledRegistry>>
        /\ ledCounts = "none" /\ ledAsked = LocatePeriod /\ ledLocateUntil = 0 /\ ledShown = "boot" /\ TickAge <= TickPeriod
    BY <1>3 DEF Led!NoCable, BootInv
  <2>2. /\ ledNow' = IF ledNow + 1 < LedClock THEN ledNow + 1 ELSE ledNow + 1 - LedClock
        /\ ledNow' \in LedTime /\ ledAsked' = LocatePeriod /\ ledHeard' \in 0 .. Led!Silent
        /\ ledLastTick' = ledLastTick => TickAge' = TickAge + 1
    BY <2>1, PassDoes
  <2>3. /\ ledShown' = "boot" /\ ledLocateUntil' = 0
        /\ \/ TickAge < TickPeriod /\ ledLastTick' = ledLastTick
           \/ ledLastTick' = ledNow
    BY <2>1, TickDoes
  <2>4. TickAge' <= TickPeriod /\ ledLastTick' \in LedTime
    <3>1. CASE TickAge < TickPeriod /\ ledLastTick' = ledLastTick
      BY <2>2, <3>1 DEF LedType
    <3>2. CASE ledLastTick' = ledNow
      BY <2>2, <3>2 DEF TickAge, LedTime
    <3>. QED BY <2>3, <3>1, <3>2
  <2>5. LedType'
    BY <2>1, <2>2, <2>3, <2>4 DEF LedType
  <2>6. BootInv'
    BY <2>1, <2>2, <2>3, <2>4 DEF BootInv
  <2>7. LocateInv' /\ GreenInv'
    BY <2>1, <2>2, <2>3 DEF LocateInv, GreenInv
  <2>. QED BY <2>5, <2>6, <2>7 DEF LedInv
<1>4. CASE Led!Cable
  <2>1. /\ ledPc = "cable" /\ 1 \in 1 .. LongPass /\ Led!Passes(1) /\ ledBootMode' = FALSE /\ ledPc' = "web"
        /\ UNCHANGED <<ledCounts, ledAmber, ledLastTick, ledLocateUntil, ledShown, ledTimer, ledRegistry>>
        /\ ledCounts = "none" /\ ledAsked = LocatePeriod /\ ledLocateUntil = 0 /\ TickAge <= TickPeriod /\ TickAge >= 0
    BY <1>4 DEF Led!Cable, BootInv, TickAge, LedType, LedTime
  <2>2. /\ ledNow' \in LedTime /\ ledAsked' = LocatePeriod /\ ledHeard' \in 0 .. Led!Silent /\ TickAge' = TickAge + 1
    BY <2>1, PassDoes
  <2>3. LedType'
    BY <2>1, <2>2 DEF LedType
  <2>4. BootInv'
    BY <2>1, <2>2 DEF BootInv
  <2>5. LocateInv' /\ GreenInv'
    BY <2>1, <2>2 DEF LocateInv, GreenInv
  <2>. QED BY <2>3, <2>4, <2>5 DEF LedInv
<1>5. CASE Led!Web
  <2>1. /\ ledPc = "web" /\ ledPc' = "led"
        /\ UNCHANGED <<ledBootMode, ledLinkUp, ledCounts, ledAmber, ledLastTick, ledLocateUntil, ledShown, ledTimer, ledRegistry, ledNow, ledAsked, ledHeard>>
    BY <1>5 DEF Led!Web, Led!told
  <2>. QED BY <2>1 DEF LedInv, LedType, BootInv, LocateInv, GreenInv, TickAge
<1>6. CASE Led!Led
  <2>1. /\ ledPc = "led" /\ ledPc' = "note" /\ ~ledBootMode /\ 0 < TickAge
        /\ UNCHANGED <<ledBootMode, ledLinkUp, ledCounts, ledAmber, ledTimer, ledRegistry, ledNow, ledAsked, ledHeard>>
    BY <1>6 DEF Led!Led, Led!told, BootInv
  <2>2. CASE TickAge < TickPeriod /\ UNCHANGED <<ledLastTick, ledShown, ledLocateUntil>>
    <3>1. ledLastTick # ledNow /\ TickAge' = TickAge
      BY <2>1, <2>2 DEF TickAge
    <3>2. LedType' /\ BootInv'
      BY <2>1, <2>2, <3>1 DEF LedType, BootInv
    <3>3. LocateInv' /\ GreenInv'
      BY <2>1, <2>2, <3>1 DEF LocateInv, GreenInv
    <3>. QED BY <3>2, <3>3 DEF LedInv
  <2>3. CASE /\ TickAge >= TickPeriod /\ ledLastTick' = ledNow
             /\ ledLocateUntil > ledNow => ledShown' = "flash" /\ ledLocateUntil' = ledLocateUntil
             /\ ledLocateUntil <= ledNow => ledShown' # "flash" /\ ledLocateUntil' = 0
             /\ ledShown' \in Green => ledCounts = "online"
    <3>1. TickAge' = 0
      BY <2>1, <2>3 DEF TickAge
    <3>2. LedType' /\ BootInv'
      BY <2>1, <2>3, <3>1 DEF LedType, LedTime, BootInv
    <3>3. LocateInv'
      BY <2>1, <2>3, <3>1 DEF LocateInv, LedType
    <3>4. GreenInv'
      BY <2>1, <2>3 DEF GreenInv
    <3>. QED BY <3>2, <3>3, <3>4 DEF LedInv
  <2>. QED BY <1>6, <2>1, <2>2, <2>3, TickDoes DEF Led!Led
<1>7. ASSUME NEW d \in 1 .. LongPass, Led!Note(d) PROVE LedInv'
  <2>1. /\ ledPc = "note" /\ ledPc' = "web" /\ Led!Passes(d) /\ TickAge < TickPeriod /\ TickAge >= 0
        /\ UNCHANGED <<ledBootMode, ledLinkUp, ledLastTick, ledLocateUntil, ledShown>>
        /\ d \in Nat /\ 1 <= d /\ d <= LongPass
    BY <1>7 DEF Led!Note, BootInv, TickAge, LedType, LedTime
  <2>2. /\ ledNow' = IF ledNow + d < LedClock THEN ledNow + d ELSE ledNow + d - LedClock
        /\ ledNow' \in LedTime /\ ledAsked' \in -1 .. LocatePeriod /\ ledHeard' \in 0 .. Led!Silent
        /\ ledAsked' = -1 <=> ledAsked = -1
        /\ ledAsked # -1 => \/ ledAsked' = ledAsked + d
                            \/ ledAsked' = LocatePeriod /\ ledAsked + d > LocatePeriod
        /\ ledHeard' <= ledHeard + d /\ TickAge' = TickAge + d
    BY <2>1, PassDoes
  <2>3. \/ /\ ledTimer < ledNow /\ ledRegistry' = Led!Expired /\ ledCounts' = Led!Expired
           /\ ledTimer' = IF ledNow + NotePeriod < LedClock THEN ledNow + NotePeriod ELSE ledNow + NotePeriod - LedClock
        \/ ledTimer >= ledNow /\ UNCHANGED <<ledRegistry, ledCounts, ledTimer>>
    BY <1>7, LedFacts DEF Led!Note, Led!Counts
  <2>4. Led!Expired \in {"none", "offline", "online"} /\ (Led!Expired = "online" => ledHeard <= StalePeriod)
    BY DEF Led!Expired, LedType
  <2>5. ledTimer' \in LedTime
    BY <2>3 DEF LedType, LedTime
  <2>6. LedType'
    BY <2>1, <2>2, <2>3, <2>4, <2>5 DEF LedType
  <2>7. BootInv'
    BY <2>1, <2>2 DEF BootInv
  <2>8. LocateInv'
    <3>1. ASSUME ledAsked' # -1, ledAsked' < LocatePeriod
          PROVE  ledLocateUntil' = ledNow' + LocatePeriod - ledAsked' /\ ledLocateUntil' + TickPeriod + LongPass <= LedClock
      BY <2>1, <2>2, <3>1 DEF LocateInv
    <3>2. ASSUME ledAsked' = LocatePeriod, ledLocateUntil' # 0
          PROVE  /\ ledLocateUntil' <= ledNow' /\ ledNow' - ledLocateUntil' < TickAge'
                 /\ ledLocateUntil' + TickPeriod + LongPass <= LedClock
      <4>1. CASE ledAsked = LocatePeriod
        BY <2>1, <2>2, <3>2, <4>1 DEF LocateInv
      <4>2. CASE ledAsked < LocatePeriod
        BY <2>1, <2>2, <3>2, <4>2 DEF LocateInv
      <4>. QED BY <4>1, <4>2 DEF LedType
    <3>. QED BY <2>1, <3>1, <3>2 DEF LocateInv
  <2>9. GreenInv'
    <3>1. CASE /\ ledTimer < ledNow /\ ledCounts' = Led!Expired
               /\ ledTimer' = IF ledNow + NotePeriod < LedClock THEN ledNow + NotePeriod ELSE ledNow + NotePeriod - LedClock
      <4>1. ledCounts' = "online" => ledHeard' <= StalePeriod + d /\ ledHeard' \in Nat
        BY <2>1, <2>2, <2>4, <3>1
      <4>2. CASE ledNow + NotePeriod < LedClock
        BY <2>1, <2>2, <3>1, <4>1, <4>2 DEF GreenInv
      <4>3. CASE ledNow + NotePeriod >= LedClock
        BY <2>1, <2>2, <3>1, <4>1, <4>3 DEF GreenInv
      <4>. QED BY <4>2, <4>3
    <3>2. CASE ledTimer >= ledNow /\ UNCHANGED <<ledCounts, ledTimer>>
      BY <2>1, <2>2, <3>2 DEF GreenInv
    <3>. QED BY <2>3, <3>1, <3>2
  <2>. QED BY <2>6, <2>7, <2>8, <2>9 DEF LedInv
<1>. QED BY <1>1, <1>2, <1>3, <1>4, <1>5, <1>6, <1>7 DEF Led!Next

LEMMA LedSame == ASSUME LedInv, UNCHANGED Led!vars PROVE LedInv'
<1>. QED BY DEF Led!vars, Led!told, LedInv, LedType, BootInv, LocateInv, GreenInv, TickAge

LEMMA LedGives == ASSUME Led!Timers, LedInv PROVE Led!LocateTenSeconds /\ Led!GreenIsRecent
<1>1. Led!LocateTenSeconds
  BY DEF Led!LocateTenSeconds, Led!Ticked, Led!Late, LedInv, LocateInv
<1>2. Led!GreenIsRecent
  <2>1. SUFFICES ASSUME ledPc = "note", ledLastTick = ledNow, ledShown \in Green, ~Led!Stranded
                 PROVE  ledHeard <= StalePeriod + NotePeriod + LongPass
    BY DEF Led!GreenIsRecent, Led!Ticked, Green
  <2>2. ledTimer + LongPass < LedClock
    BY <2>1, LedPeriods DEF Led!Stranded, LedInv, LedType, LedTime
  <2>. QED BY <2>1, <2>2 DEF LedInv, GreenInv
<1>. QED BY <1>1, <1>2

-----------------------------------------------------------------------------
(* ArtMonitor: who was heard last *)

monTable == x1
monEntry == x2
monTime  == x3
monHeard == x4

USE DEF monTable, monEntry, monTime, monHeard

\* The monitor counts with the standard operators.
LEMMA SameFinite == \A S : Monitor!IsFiniteSet(S) <=> IsFiniteSet(S)
BY DEF Monitor!IsFiniteSet, IsFiniteSet

LEMMA SameCount == \A S : Monitor!Cardinality(S) = Cardinality(S)
BY DEF Monitor!Cardinality, Cardinality

LEMMA LeastIs == ASSUME NEW T \in SUBSET Nat, T # {} PROVE Monitor!Least(T) \in T
<1>. QED BY HasLeast DEF Monitor!Least

MonType == /\ monEntry \in [Monitor!Slot -> [key : Sender \cup {Nobody}, ms : Nat]]
           /\ monTime \in 0 .. MonEnd /\ monHeard \in [Sender -> Int]
           /\ \A i \in Monitor!Slot : monEntry[i].ms <= monTime
           /\ \A k \in Sender : -1 <= monHeard[k] /\ monHeard[k] <= monTime

\* An entry has the stamp of its sender's last packet, no sender has two, and one that
\* was heard and has none was silent for longer than all the others, with the table full.
TableInv ==
  /\ \A i \in Monitor!Slot : monEntry[i].key # Nobody => monHeard[monEntry[i].key] = monEntry[i].ms
  /\ \A i, j \in Monitor!Slot : monEntry[i].key = monEntry[j].key /\ i # j => monEntry[i].key = Nobody
  /\ \A k \in Sender : monHeard[k] >= 0 /\ Monitor!Holding(monEntry, k) = {}
       => \A i \in Monitor!Slot : monEntry[i].key # Nobody /\ monEntry[i].ms >= monHeard[k]

MonInv == MonType /\ TableInv

\* The place a packet gets: its sender's own, else a free one, else the one silent longest.
LEMMA PlaceIs ==
  ASSUME Monitor!Sizes, Monitor!Young, MonInv, NEW k \in Sender
  PROVE  /\ Monitor!Place(monEntry, k) \in Monitor!Slot
         /\ Monitor!Holding(monEntry, k) # {} => monEntry[Monitor!Place(monEntry, k)].key = k
         /\ Monitor!Holding(monEntry, k) = {} /\ Monitor!Holding(monEntry, Nobody) # {} => monEntry[Monitor!Place(monEntry, k)].key = Nobody
         /\ Monitor!Holding(monEntry, k) = {} /\ Monitor!Holding(monEntry, Nobody) = {}
              => \A j \in Monitor!Slot : monEntry[Monitor!Place(monEntry, k)].ms <= monEntry[j].ms
<1>0. /\ MonSlots \in Nat \ {0} /\ MonClock \in Nat /\ MonEnd \in Nat /\ Monitor!Slot \subseteq Nat /\ 1 \in Monitor!Slot
      /\ \A i \in Monitor!Slot : monEntry[i].ms \in Nat /\ monEntry[i].ms < MonClock - 1
  <2>1. MonSlots \in Nat \ {0} /\ MonClock \in Nat /\ MonEnd \in Nat /\ MonEnd < MonClock - 1
    BY DEF Monitor!Sizes, Monitor!Young
  <2>2. monTime \in 0 .. MonEnd /\ \A i \in Monitor!Slot : monEntry[i].ms \in Nat /\ monEntry[i].ms <= monTime
    BY DEF MonInv, MonType
  <2>3. Monitor!Slot \subseteq Nat /\ 1 \in Monitor!Slot
    BY <2>1 DEF Monitor!Slot
  <2>. QED BY <2>1, <2>2, <2>3
<1>1. CASE Monitor!Holding(monEntry, k) # {}
  <2>1. Monitor!Holding(monEntry, k) \in SUBSET Nat
    BY <1>0 DEF Monitor!Holding
  <2>2. Monitor!Least(Monitor!Holding(monEntry, k)) \in Monitor!Holding(monEntry, k)
    BY <1>1, <2>1, LeastIs
  <2>. QED BY <1>1, <2>2 DEF Monitor!Place, Monitor!Holding
<1>2. CASE Monitor!Holding(monEntry, k) = {} /\ Monitor!Holding(monEntry, Nobody) # {}
  <2>1. Monitor!Holding(monEntry, Nobody) \in SUBSET Nat
    BY <1>0 DEF Monitor!Holding
  <2>2. Monitor!Least(Monitor!Holding(monEntry, Nobody)) \in Monitor!Holding(monEntry, Nobody)
    BY <1>2, <2>1, LeastIs
  <2>. QED BY <1>2, <2>2 DEF Monitor!Place, Monitor!Holding
<1>3. CASE Monitor!Holding(monEntry, k) = {} /\ Monitor!Holding(monEntry, Nobody) = {}
  <2>. DEFINE older == { i \in Monitor!Slot : monEntry[i].ms < MonClock - 1 /\ \A j \in Monitor!Slot : monEntry[i].ms <= monEntry[j].ms }
              stamps == { monEntry[i].ms : i \in Monitor!Slot }
  <2>1. stamps \in SUBSET Nat /\ stamps # {}
    BY <1>0
  <2>2. PICK x \in stamps : \A y \in stamps : x <= y
    BY <2>1, HasLeast
  <2>3. older # {} /\ older \in SUBSET Nat
    <3>1. PICK i \in Monitor!Slot : x = monEntry[i].ms
      BY <2>2
    <3>2. \A j \in Monitor!Slot : monEntry[i].ms <= monEntry[j].ms
      BY <2>2, <3>1
    <3>3. i \in older
      BY <1>0, <3>2
    <3>4. older \in SUBSET Nat
      BY <1>0
    <3>. QED BY <3>3, <3>4
  <2>. HIDE DEF older
  <2>4. Monitor!Least(older) \in older
    BY <2>3, LeastIs
  <2>5. Monitor!Place(monEntry, k) = Monitor!Least(older)
    BY <1>3, <2>3 DEF Monitor!Place, Monitor!Oldest, older
  <2>. QED BY <1>3, <2>4, <2>5 DEF older
<1>. QED BY <1>1, <1>2, <1>3

LEMMA MonInit == ASSUME Monitor!Sizes, Monitor!Init PROVE MonInv
<1>1. MonType
  BY DEF Monitor!Sizes, Monitor!Init, MonType, Monitor!Free, Monitor!Slot
<1>2. TableInv
  BY DEF Monitor!Sizes, Monitor!Init, TableInv, Monitor!Free
<1>. QED BY <1>1, <1>2 DEF MonInv

LEMMA RecordKeeps == ASSUME Monitor!Sizes, Monitor!Young, MonInv, NEW k \in Sender, Monitor!Record(k) PROVE MonInv'
<1>. DEFINE p == Monitor!Place(monEntry, k)
<1>0. /\ p \in Monitor!Slot
      /\ Monitor!Holding(monEntry, k) # {} => monEntry[p].key = k
      /\ Monitor!Holding(monEntry, k) = {} /\ Monitor!Holding(monEntry, Nobody) # {} => monEntry[p].key = Nobody
      /\ Monitor!Holding(monEntry, k) = {} /\ Monitor!Holding(monEntry, Nobody) = {} => \A j \in Monitor!Slot : monEntry[p].ms <= monEntry[j].ms
  BY PlaceIs
<1>. HIDE DEF p
<1>1. Monitor!now = monTime
  BY DEF Monitor!now, Monitor!Sizes, Monitor!Young, MonInv, MonType
<1>2. /\ monEntry' = [monEntry EXCEPT ![p] = [key |-> k, ms |-> monTime]] /\ monHeard' = [monHeard EXCEPT ![k] = monTime] /\ monTime' = monTime
  BY <1>1 DEF Monitor!Record, p
<1>3. k # Nobody
  BY DEF Monitor!Sizes
<1>4. MonType'
  BY <1>0, <1>2 DEF MonInv, MonType
<1>5. \A i \in Monitor!Slot : i # p => monEntry'[i] = monEntry[i] /\ monEntry[i].key # k
  <2>1. ASSUME NEW i \in Monitor!Slot, i # p PROVE monEntry[i].key # k
    <3>1. monEntry[i].key = k => i \in Monitor!Holding(monEntry, k)
      BY DEF Monitor!Holding
    <3>. QED BY <1>0, <1>3, <2>1, <3>1 DEF MonInv, TableInv
  <2>. QED BY <1>2, <2>1 DEF MonInv, MonType
<1>6. monEntry'[p].key = k /\ monEntry'[p].ms = monTime /\ monHeard'[k] = monTime /\ \A q \in Sender : q # k => monHeard'[q] = monHeard[q]
  BY <1>0, <1>2 DEF MonInv, MonType
<1>7. ASSUME NEW i \in Monitor!Slot PROVE monEntry'[i].key # Nobody => monHeard'[monEntry'[i].key] = monEntry'[i].ms
  <2>1. monEntry[i].key \in Sender \cup {Nobody}
    BY DEF MonInv, MonType
  <2>. QED BY <1>5, <1>6, <2>1 DEF MonInv, TableInv
<1>8. ASSUME NEW i \in Monitor!Slot, NEW j \in Monitor!Slot, monEntry'[i].key = monEntry'[j].key, i # j PROVE monEntry'[i].key = Nobody
  BY <1>5, <1>6, <1>8 DEF MonInv, TableInv
<1>9. ASSUME NEW q \in Sender, monHeard'[q] >= 0, Monitor!Holding(monEntry', q) = {}
      PROVE  \A i \in Monitor!Slot : monEntry'[i].key # Nobody /\ monEntry'[i].ms >= monHeard'[q]
  <2>1. q # k
    BY <1>0, <1>6, <1>9 DEF Monitor!Holding
  <2>2. monHeard'[q] = monHeard[q] /\ monHeard[q] \in Int /\ monHeard[q] <= monTime /\ monTime \in Nat /\ q # Nobody
    BY <1>6, <2>1 DEF MonInv, MonType, Monitor!Sizes
  <2>3. \A i \in Monitor!Slot : monEntry[i].key # Nobody /\ monEntry[i].ms >= monHeard[q]
    <3>1. CASE Monitor!Holding(monEntry, q) = {}
      BY <1>9, <2>2, <3>1 DEF MonInv, TableInv
    <3>2. CASE Monitor!Holding(monEntry, q) # {}
      <4>1. PICK i \in Monitor!Slot : monEntry[i].key = q
        BY <3>2 DEF Monitor!Holding
      <4>2. i = p
        <5>1. monEntry'[i].key # q
          BY <1>9 DEF Monitor!Holding
        <5>. QED BY <1>5, <4>1, <5>1
      <4>3. Monitor!Holding(monEntry, k) = {} /\ Monitor!Holding(monEntry, Nobody) = {}
        BY <1>0, <2>1, <2>2, <4>1, <4>2
      <4>4. monHeard[q] = monEntry[p].ms
        BY <2>2, <4>1, <4>2 DEF MonInv, TableInv
      <4>5. \A j \in Monitor!Slot : monEntry[j].key # Nobody
        BY <4>3 DEF Monitor!Holding
      <4>6. \A j \in Monitor!Slot : monEntry[j].ms \in Nat /\ monEntry[p].ms <= monEntry[j].ms
        BY <1>0, <4>3 DEF MonInv, MonType
      <4>. QED BY <4>4, <4>5, <4>6
    <3>. QED BY <3>1, <3>2
  <2>. QED BY <1>3, <1>5, <1>6, <2>2, <2>3
<1>10. TableInv'
  BY <1>7, <1>8, <1>9 DEF TableInv
<1>. QED BY <1>4, <1>10 DEF MonInv

LEMMA MonStep == ASSUME Monitor!Sizes, Monitor!Young, MonInv, Monitor!Next PROVE MonInv'
<1>1. CASE Monitor!Tick
  <2>1. MonType'
    <3>1. monTime \in Nat /\ monTime < MonEnd /\ monTime' = monTime + 1 /\ monEntry' = monEntry /\ monHeard' = monHeard /\ MonEnd \in Nat
      BY <1>1 DEF Monitor!Tick, Monitor!Sizes, MonInv, MonType
    <3>2. \A i \in Monitor!Slot : monEntry[i].ms \in Nat /\ monEntry[i].ms <= monTime + 1
      BY <3>1 DEF MonInv, MonType
    <3>3. \A k \in Sender : monHeard[k] \in Int /\ monHeard[k] <= monTime + 1
      BY <3>1 DEF MonInv, MonType
    <3>4. monTime' \in 0 .. MonEnd
      BY <3>1
    <3>. QED BY <3>1, <3>2, <3>3, <3>4 DEF MonInv, MonType
  <2>2. TableInv'
    BY <1>1 DEF Monitor!Tick, MonInv, TableInv, Monitor!Holding
  <2>. QED BY <2>1, <2>2 DEF MonInv
<1>2. ASSUME NEW k \in Sender, Monitor!recordArtDmx(k) \/ Monitor!recordArtTimecode(k) PROVE MonInv'
  BY <1>2, RecordKeeps DEF Monitor!recordArtDmx, Monitor!recordArtTimecode
<1>. QED BY <1>1, <1>2 DEF Monitor!Next

LEMMA MonSame == ASSUME MonInv, UNCHANGED Monitor!vars PROVE MonInv'
<1>. QED BY DEF Monitor!vars, MonInv, MonType, TableInv, Monitor!Holding

LEMMA MonGives == ASSUME Monitor!Sizes, Monitor!Young, MonInv PROVE Monitor!MonitorTrue
<1>0. /\ Monitor!now = monTime /\ monTime \in Nat /\ MonClock \in Nat \ {0} /\ Fresh \in Nat /\ monTime < MonClock /\ MonSlots \in Nat \ {0}
      /\ \A i \in Monitor!Slot : monEntry[i].ms \in Nat /\ monEntry[i].ms <= monTime /\ monEntry[i].key \in Sender \cup {Nobody}
      /\ \A k \in Sender : monHeard[k] \in Int /\ monHeard[k] <= monTime
  BY DEF Monitor!now, Monitor!Sizes, Monitor!Young, MonInv, MonType
<1>1. ASSUME NEW i \in Monitor!Slot PROVE (Monitor!now - monEntry[i].ms) % MonClock = monTime - monEntry[i].ms
  <2>1. monTime - monEntry[i].ms \in Nat /\ monTime - monEntry[i].ms < MonClock
    BY <1>0
  <2>. QED BY <1>0, <2>1
<1>2. ASSUME NEW k \in Monitor!Listed PROVE k \in Monitor!Lately
  <2>1. PICK i \in Monitor!Slot : k = monEntry[i].key /\ monEntry[i].key # Nobody /\ (Monitor!now - monEntry[i].ms) % MonClock <= Fresh
    BY <1>2 DEF Monitor!Listed
  <2>2. k \in Sender /\ monHeard[k] = monEntry[i].ms /\ monTime - monHeard[k] <= Fresh /\ monHeard[k] >= 0
    BY <1>0, <1>1, <2>1 DEF MonInv, TableInv
  <2>. QED BY <2>2 DEF Monitor!Lately
<1>3. ASSUME Cardinality(Monitor!Lately) <= MonSlots, NEW k \in Monitor!Lately PROVE k \in Monitor!Listed
  <2>1. k \in Sender /\ monHeard[k] >= 0 /\ monTime - monHeard[k] <= Fresh
    BY <1>3 DEF Monitor!Lately
  <2>2. CASE Monitor!Holding(monEntry, k) # {}
    <3>1. PICK i \in Monitor!Slot : monEntry[i].key = k
      BY <2>2 DEF Monitor!Holding
    <3>2. monEntry[i].key # Nobody /\ monEntry[i].ms = monHeard[k]
      BY <2>1, <3>1 DEF MonInv, TableInv, Monitor!Sizes
    <3>3. (Monitor!now - monEntry[i].ms) % MonClock <= Fresh
      BY <1>1, <2>1, <3>2
    <3>. QED BY <3>1, <3>2, <3>3 DEF Monitor!Listed
  <2>3. CASE Monitor!Holding(monEntry, k) = {}
    <3>. DEFINE T == Monitor!Lately \ {k}
                f == [i \in Monitor!Slot |-> monEntry[i].key]
    <3>1. \A i \in Monitor!Slot : monEntry[i].key # Nobody /\ monEntry[i].ms >= monHeard[k]
      BY <2>1, <2>3 DEF MonInv, TableInv
    <3>2. ASSUME NEW i \in Monitor!Slot PROVE monEntry[i].key \in T
      <4>1. monEntry[i].key \in Sender /\ monHeard[monEntry[i].key] = monEntry[i].ms
        BY <1>0, <3>1 DEF MonInv, TableInv
      <4>2. monEntry[i].key # k
        BY <2>3 DEF Monitor!Holding
      <4>3. monHeard[monEntry[i].key] >= 0 /\ monTime - monHeard[monEntry[i].key] <= Fresh
        BY <1>0, <2>1, <3>1, <4>1
      <4>. QED BY <4>1, <4>2, <4>3 DEF Monitor!Lately
    <3>3. IsFiniteSet(Monitor!Lately) /\ IsFiniteSet(T) /\ Cardinality(T) = Cardinality(Monitor!Lately) - 1
      <4>1. Monitor!Lately \in SUBSET Sender
        BY DEF Monitor!Lately
      <4>2. IsFiniteSet(Monitor!Lately)
        BY <4>1, FS_Subset, SameFinite DEF Monitor!Young
      <4>. QED BY <1>3, <4>2, FS_RemoveElement
    <3>4. IsFiniteSet(Monitor!Slot) /\ Cardinality(Monitor!Slot) = MonSlots
      <4>1. MonSlots \in Nat \ {0}
        BY <1>0
      <4>2. /\ IsFiniteSet(1 .. MonSlots)
            /\ Cardinality(1 .. MonSlots) = IF 1 > MonSlots THEN 0 ELSE MonSlots - 1 + 1
        BY <4>1, FS_Interval
      <4>. QED BY <4>1, <4>2 DEF Monitor!Slot
    <3>5. f \in Injection(Monitor!Slot, T)
      <4>1. f \in [Monitor!Slot -> T]
        BY <3>2
      <4>2. \A i, j \in Monitor!Slot : f[i] = f[j] => i = j
        BY <3>1 DEF MonInv, TableInv
      <4>. QED BY <4>1, <4>2 DEF Injection, IsInjective
    <3>6. Cardinality(Monitor!Slot) <= Cardinality(T)
      BY <3>3, <3>5, FS_Injection
    <3>7. Cardinality(Monitor!Lately) \in Nat
      BY <3>3, FS_CardinalityType
    <3>. QED BY <1>0, <1>3, <3>3, <3>4, <3>6, <3>7
  <2>. QED BY <2>2, <2>3
<1>. QED BY <1>2, <1>3, SameCount DEF Monitor!MonitorTrue

-----------------------------------------------------------------------------
(* Reports: the width of what the handlers print *)

repAt   == x1
repDone == x2
repOff  == x3
reply   == x4

USE DEF repAt, repDone, repOff, reply

\* The handlers whose answer always fits, and the longest row of each handler.
AlwaysFits == {"tags", "identify", "status"}
Longest == [identify |-> 63, status |-> 206, nodes |-> 270, tags |-> 63, leases |-> 76, monitor |-> 104, scan |-> 71]

Widths(ep, e, buffer, longest) ==
  /\ buffer \in Nat /\ longest \in Nat /\ e.head \in Nat /\ e.tail \in Nat /\ e.rows \in Nat /\ e.room \in Int
  /\ \A n \in e.row : n \in Nat /\ n <= longest
  /\ e.head < buffer
  /\ e.room >= 0 => longest + e.tail < e.room /\ e.head <= buffer - e.room
  /\ ep \in AlwaysFits => e.room < 0 /\ e.head + e.rows * longest + e.tail < buffer

\* Each handler's text: its longest row, against the buffer it is printed to.
LEMMA TextWidths == ASSUME NEW ep \in DOMAIN Report!Text PROVE Widths(ep, Report!Text[ep], Report!Buffer[ep], Longest[ep])
<1>0. ep \in {"identify", "status", "nodes", "tags", "leases", "monitor", "scan"}
  BY DEF Report!Text
<1>1. CASE ep = "identify"
  BY <1>1 DEF Widths, Report!Text, Report!Buffer, Longest, AlwaysFits
<1>2. CASE ep = "status"
  BY <1>2 DEF Widths, Report!Text, Report!Buffer, Longest, AlwaysFits
<1>3. CASE ep = "nodes"
  BY <1>3 DEF Widths, Report!Text, Report!Buffer, Longest, AlwaysFits
<1>4. CASE ep = "tags"
  BY <1>4 DEF Widths, Report!Text, Report!Buffer, Longest, AlwaysFits
<1>5. CASE ep = "leases"
  BY <1>5 DEF Widths, Report!Text, Report!Buffer, Longest, AlwaysFits
<1>6. CASE ep = "monitor"
  BY <1>6 DEF Widths, Report!Text, Report!Buffer, Longest, AlwaysFits
<1>7. CASE ep = "scan"
  BY <1>7 DEF Widths, Report!Text, Report!Buffer, Longest, AlwaysFits
<1>. QED BY <1>0, <1>1, <1>2, <1>3, <1>4, <1>5, <1>6, <1>7

\* So many rows of at most the longest form were printed.
ReportInv ==
  /\ repAt \in DOMAIN Report!Text /\ repDone \in Nat /\ repOff \in Nat /\ reply \in {0, 200, 500}
  /\ reply = 0 => /\ ~Report!Guarded => repOff < Report!Buffer[repAt]
                  /\ Report!Guarded => repOff <= Report!Buffer[repAt] - Report!E.room + Longest[repAt]
                  /\ repAt \in AlwaysFits => repDone <= Report!E.rows /\ repOff <= Report!E.head + repDone * Longest[repAt]
  /\ reply = 200 => repOff < Report!Buffer[repAt]
  /\ repAt \in AlwaysFits => reply # 500

LEMMA TimesGrows ==
  ASSUME NEW a \in Nat, NEW b \in Nat, NEW c \in Nat, a <= b
  PROVE  a * c <= b * c
OBVIOUS

LEMMA ReportInit == ASSUME Report!Init PROVE ReportInv
<1>1. repAt \in DOMAIN Report!Text /\ repDone = 0 /\ repOff = Report!Text[repAt].head /\ reply = 0
  BY DEF Report!Init, Report!E
<1>2. Widths(repAt, Report!Text[repAt], Report!Buffer[repAt], Longest[repAt])
  BY <1>1, TextWidths
<1>. QED BY <1>1, <1>2 DEF ReportInv, Widths, Report!E, Report!Guarded

LEMMA ReportStep == ASSUME ReportInv, Report!Next PROVE ReportInv'
<1>. DEFINE e == Report!Text[repAt]
            buffer == Report!Buffer[repAt]
            longest == Longest[repAt]
<1>1. Widths(repAt, e, buffer, longest)
  BY TextWidths DEF ReportInv
<1>. HIDE DEF e, buffer, longest
<1>2. /\ repAt \in DOMAIN Report!Text /\ repDone \in Nat /\ repOff \in Nat
      /\ reply = 0 => /\ e.room < 0 => repOff < buffer
                      /\ e.room >= 0 => repOff <= buffer - e.room + longest
                      /\ repAt \in AlwaysFits => repDone <= e.rows /\ repOff <= e.head + repDone * longest
      /\ repAt \in AlwaysFits => reply # 500
  BY <1>1 DEF ReportInv, Report!Guarded, Report!E, e, buffer, longest, Widths
<1>3. ASSUME repAt' = repAt, repDone' \in Nat, repOff' \in Nat, reply' \in {0, 200, 500},
             reply' = 0 => /\ e.room < 0 => repOff' < buffer
                           /\ e.room >= 0 => repOff' <= buffer - e.room + longest
                           /\ repAt \in AlwaysFits => repDone' <= e.rows /\ repOff' <= e.head + repDone' * longest,
             reply' = 200 => repOff' < buffer,
             repAt \in AlwaysFits => reply' # 500
      PROVE  ReportInv'
  <2>1. Report!E' = e /\ Report!Buffer[repAt'] = buffer /\ Longest[repAt'] = longest /\ (Report!Guarded' <=> e.room >= 0)
    BY <1>3 DEF Report!E, Report!Guarded, e, buffer, longest
  <2>2. e.room \in Int
    BY <1>1 DEF Widths
  <2>3. ~Report!Guarded' <=> e.room < 0
    BY <2>1, <2>2
  <2>4. reply' = 0 => /\ ~Report!Guarded' => repOff' < Report!Buffer[repAt']
                      /\ Report!Guarded' => repOff' <= Report!Buffer[repAt'] - Report!E'.room + Longest[repAt']
                      /\ repAt' \in AlwaysFits => repDone' <= Report!E'.rows /\ repOff' <= Report!E'.head + repDone' * Longest[repAt']
    BY <1>3, <2>1, <2>3
  <2>5. repAt' \in DOMAIN Report!Text /\ reply' = 200 => repOff' < Report!Buffer[repAt']
    BY <1>2, <1>3, <2>1
  <2>. QED BY <1>2, <1>3, <2>4, <2>5 DEF ReportInv
<1>4. ASSUME NEW n \in e.row, Report!Row(n) PROVE ReportInv'
  <2>1. /\ reply = 0 /\ repDone < e.rows /\ repAt' = repAt
        /\ e.room >= 0 => repOff <= buffer - e.room
        /\ IF e.room < 0 /\ n >= buffer - repOff THEN reply' = 500 /\ repDone' = repDone /\ repOff' = repOff
           ELSE repDone' = repDone + 1 /\ repOff' = repOff + n /\ reply' = reply
    BY <1>1, <1>2, <1>4 DEF Report!Row, Report!Stops, Report!Guarded, Report!Overflows, Report!E, e, buffer, Widths
  <2>2. n \in Nat /\ n <= longest /\ longest \in Nat /\ buffer \in Nat /\ e.rows \in Nat /\ e.head \in Nat /\ e.tail \in Nat /\ e.room \in Int
    BY <1>1 DEF Widths
  <2>3. repAt \in AlwaysFits => e.room < 0 /\ repOff + n <= e.head + (repDone + 1) * longest /\ (repDone + 1) * longest <= e.rows * longest
    <3>1. (repDone + 1) * longest = repDone * longest + longest
      BY <1>2, <2>2
    <3>2. repDone + 1 \in Nat /\ repDone + 1 <= e.rows
      BY <1>2, <2>1, <2>2
    <3>3. (repDone + 1) * longest <= e.rows * longest
      BY <2>2, <3>2, TimesGrows
    <3>4. repDone * longest + longest <= e.rows * longest
      BY <3>1, <3>3
    <3>. QED BY <1>1, <1>2, <2>1, <2>2, <3>1, <3>4 DEF Widths
  <2>4. repAt \in AlwaysFits => repOff + n < buffer
    <3>1. repDone * longest \in Nat /\ (repDone + 1) * longest \in Nat /\ e.rows * longest \in Nat
      BY <1>2, <2>2
    <3>. QED BY <1>1, <1>2, <2>2, <2>3, <3>1 DEF Widths
  <2>5. CASE e.room < 0 /\ n >= buffer - repOff
    BY <1>2, <1>3, <2>1, <2>2, <2>4, <2>5
  <2>6. CASE ~(e.room < 0 /\ n >= buffer - repOff)
    <3>1. repDone' = repDone + 1 /\ repOff' = repOff + n /\ reply' = 0
      BY <2>1, <2>6
    <3>2. e.room < 0 => repOff + n < buffer
      BY <1>2, <2>2, <2>6
    <3>3. e.room >= 0 => repOff + n <= buffer - e.room + longest
      BY <1>2, <2>1, <2>2
    <3>4. repAt \in AlwaysFits => repDone + 1 <= e.rows /\ repOff + n <= e.head + (repDone + 1) * longest
      BY <1>2, <2>1, <2>2, <2>3
    <3>. QED BY <1>2, <1>3, <2>1, <2>2, <3>1, <3>2, <3>3, <3>4
  <2>. QED BY <2>5, <2>6
<1>5. CASE Report!Finish
  <2>1. /\ reply = 0 /\ repAt' = repAt /\ repOff' = repOff + e.tail /\ repDone' = repDone
        /\ reply' = IF e.room < 0 /\ e.tail >= buffer - repOff THEN 500 ELSE 200
    BY <1>1, <1>5 DEF Report!Finish, Report!Guarded, Report!Overflows, Report!E, e, buffer, Widths
  <2>2. longest \in Nat /\ buffer \in Nat /\ e.rows \in Nat /\ e.head \in Nat /\ e.tail \in Nat /\ e.room \in Int
    BY <1>1 DEF Widths
  <2>3. repAt \in AlwaysFits => repOff + e.tail < buffer
    <3>1. repDone * longest \in Nat /\ e.rows * longest \in Nat
      BY <1>2, <2>2
    <3>3. repAt \in AlwaysFits => repDone * longest <= e.rows * longest
      BY <1>2, <2>1, <2>2, TimesGrows
    <3>. QED BY <1>1, <1>2, <2>1, <2>2, <3>1, <3>3 DEF Widths
  <2>4. reply' = 200 => repOff + e.tail < buffer
    <3>1. e.room >= 0 => repOff + e.tail < buffer
      BY <1>1, <1>2, <2>1, <2>2 DEF Widths
    <3>. QED BY <1>2, <2>1, <2>2, <3>1
  <2>5. repAt \in AlwaysFits => reply' # 500
    BY <1>2, <2>1, <2>2, <2>3
  <2>. QED BY <1>2, <1>3, <2>1, <2>2, <2>4, <2>5
<1>6. CASE Report!Answered
  BY <1>6 DEF Report!Answered, Report!vars, ReportInv, Report!Guarded, Report!E
<1>. QED BY <1>4, <1>5, <1>6 DEF Report!Next, Report!E, e

LEMMA ReportSame == ASSUME ReportInv, UNCHANGED Report!vars PROVE ReportInv'
<1>. QED BY DEF Report!vars, ReportInv, Report!Guarded, Report!E

LEMMA ReportGives == ASSUME ReportInv PROVE Report!SentIsWhole /\ Report!TagsShown
<1>. QED BY DEF ReportInv, Report!SentIsWhole, Report!TagsShown, Report!AlwaysShown, AlwaysFits

-----------------------------------------------------------------------------
(* PixelDriver: the LED's bits against CCOUNT *)

pixelDriver  == x1
pixelData    == x2
pixelSent    == x3
pixelPhase   == x4
pixelMasked  == x5
pixelCcount  == x6
pixelUntil   == x7
pixelWaited  == x8
pixelRead    == x9
pixelCrossed == x10

USE DEF pixelDriver, pixelData, pixelSent, pixelPhase, pixelMasked, pixelCcount,
        pixelUntil, pixelWaited, pixelRead, pixelCrossed

PixelType ==
  /\ pixelDriver \in {"doPixel", "doAPA106"} /\ pixelData \in [1 .. Bits -> {0, 1}] /\ pixelSent \in 0 .. Bits
  /\ pixelPhase \in {"bit", "high", "low", "done"}
  /\ pixelCcount \in Int /\ pixelUntil \in Int /\ pixelWaited \in Nat
  /\ pixelPhase \in {"high", "low"} => pixelSent < Bits
  /\ pixelPhase = "done" => pixelSent = Bits /\ ~pixelMasked

\* How far the finishing time is from the count, and how long a wait is at most.
WaitInv ==
  /\ pixelPhase = "high" => /\ pixelUntil = pixelCcount - pixelWaited + Pixel!High[Pixel!Bit]
                            /\ pixelWaited <= Pixel!High[Pixel!Bit] + PollCycles
  /\ pixelPhase = "low" => /\ pixelUntil <= pixelCcount - pixelWaited + Pixel!Low[Pixel!Bit]
                           /\ pixelWaited <= Pixel!Low[Pixel!Bit] + PollCycles

\* The LED has read the bits whose pulse is over.
ReadInv == /\ pixelPhase \in {"bit", "high", "done"} => pixelRead = SubSeq(pixelData, 1, pixelSent)
           /\ pixelPhase = "low" => pixelRead = SubSeq(pixelData, 1, pixelSent + 1)

PixelInv == PixelType /\ pixelCrossed \in BOOLEAN /\ (pixelCrossed \/ (WaitInv /\ ReadInv))

\* The pulses' lengths.
LEMMA PixelConstants ==
  ASSUME Pixel!Cycles
  PROVE  /\ Bits \in Nat \ {0} /\ PollCycles \in Nat /\ IsrCycles \in Nat /\ Half \in Nat \ {0}
         /\ \A d \in {0, 1} : Pixel!High[d] \in Nat /\ Pixel!Low[d] \in Nat
         /\ Threshold \in Nat /\ Pixel!High[0] + PollCycles < Threshold /\ Threshold < Pixel!High[1]
<1>1. /\ HighOne \in Nat /\ HighZero \in Nat /\ LowOne \in Nat /\ LowZero \in Nat
      /\ Bits \in Nat \ {0} /\ PollCycles \in Nat /\ IsrCycles \in Nat /\ Half \in Nat \ {0}
      /\ Threshold \in Nat /\ HighZero + PollCycles < Threshold /\ Threshold < HighOne
  BY DEF Pixel!Cycles
<1>2. Pixel!High[0] = HighZero /\ Pixel!High[1] = HighOne /\ Pixel!Low[0] = LowZero /\ Pixel!Low[1] = LowOne
  BY DEF Pixel!High, Pixel!Low
<1>. QED BY <1>1, <1>2

LEMMA PlusInt ==
  ASSUME Pixel!Cycles, NEW x \in Int, NEW k \in Nat
  PROVE  Pixel!Plus(x, k) \in Int /\ (~Pixel!Crosses(x, k) => Pixel!Plus(x, k) = x + k)
<1>1. 2 * Half \in Nat \ {0} /\ x + k + Half \in Int /\ Half \in Int
  BY PixelConstants
<1>2. (x + k + Half) % (2 * Half) \in Int
  BY <1>1
<1>. QED BY <1>1, <1>2 DEF Pixel!Plus, Pixel!Full, Pixel!Crosses

LEMMA OneMore ==
  ASSUME NEW s \in Seq({0, 1}), NEW n \in Nat, n < Len(s)
  PROVE  SubSeq(s, 1, n + 1) = Append(SubSeq(s, 1, n), s[n + 1])
<1>1. 1 \in 1 .. Len(s) /\ n + 1 \in 1 .. Len(s) /\ n + 1 - 1 = n
  OBVIOUS
<1>2. SubSeq(s, 1, n + 1) = SubSeq(s, 1, n + 1 - 1) \o <<s[n + 1]>>
  BY <1>1, SubSeqRecursiveSecond
<1>3. SubSeq(s, 1, n) \in Seq({0, 1}) /\ s[n + 1] \in {0, 1}
  BY <1>1
<1>4. \A u \in Seq({0, 1}) : \A e \in {0, 1} : u \o <<e>> = Append(u, e)
  OBVIOUS
<1>. QED BY <1>1, <1>2, <1>3, <1>4

LEMMA PixelInit == ASSUME Pixel!Cycles, Pixel!Init PROVE PixelInv
<1>1. /\ pixelDriver \in {"doPixel", "doAPA106"} /\ pixelData \in [1 .. Bits -> {0, 1}] /\ pixelSent = 0 /\ pixelPhase = "bit"
      /\ pixelCcount \in Begins /\ pixelUntil = 0 /\ pixelWaited = 0 /\ pixelRead = <<>> /\ pixelCrossed = FALSE
  BY DEF Pixel!Init
<1>2. pixelCcount \in Int /\ Bits \in Nat
  BY <1>1 DEF Pixel!Cycles
<1>3. SubSeq(pixelData, 1, 0) = <<>>
  BY SubSeqEmpty
<1>4. WaitInv /\ ReadInv
  BY <1>1, <1>3 DEF WaitInv, ReadInv
<1>5. PixelType
  BY <1>1, <1>2 DEF PixelType
<1>6. pixelCrossed \in BOOLEAN
  BY <1>1, Zenon
<1>. QED BY <1>4, <1>5, <1>6 DEF PixelInv

LEMMA PixelStep == ASSUME Pixel!Cycles, PixelInv, Pixel!Next PROVE PixelInv'
<1>0. /\ PixelType /\ pixelCrossed \in BOOLEAN /\ (pixelCrossed \/ (WaitInv /\ ReadInv))
      /\ Bits \in Nat \ {0} /\ PollCycles \in Nat /\ IsrCycles \in Nat
      /\ pixelCcount \in Int /\ pixelUntil \in Int /\ pixelWaited \in Nat /\ pixelSent \in 0 .. Bits
  BY PixelConstants DEF PixelInv, PixelType
<1>. DEFINE hi == Pixel!High[Pixel!Bit]
            lo == Pixel!Low[Pixel!Bit]
<1>1. ASSUME pixelSent < Bits PROVE Pixel!Bit \in {0, 1} /\ hi \in Nat /\ lo \in Nat
  <2>1. Pixel!Bit \in {0, 1}
    BY <1>0, <1>1 DEF Pixel!Bit, PixelType
  <2>. QED BY <2>1, PixelConstants
<1>2. CASE Pixel!Set
  <2>1. /\ pixelPhase = "bit" /\ pixelSent < Bits /\ pixelPhase' = "high" /\ pixelUntil' = Pixel!Plus(pixelCcount, hi) /\ pixelWaited' = 0
        /\ pixelCrossed' = (pixelCrossed \/ Pixel!Crosses(pixelCcount, hi))
        /\ UNCHANGED <<pixelDriver, pixelData, pixelSent, pixelMasked, pixelCcount, pixelRead>>
    BY <1>2 DEF Pixel!Set
  <2>2. hi \in Nat /\ Pixel!Plus(pixelCcount, hi) \in Int /\ (~Pixel!Crosses(pixelCcount, hi) => Pixel!Plus(pixelCcount, hi) = pixelCcount + hi)
    BY <1>0, <1>1, <2>1, PlusInt
  <2>3. Pixel!Bit' = Pixel!Bit
    BY <2>1 DEF Pixel!Bit
  <2>. HIDE DEF hi, lo
  <2>4. PixelType'
    BY <1>0, <2>1, <2>2 DEF PixelType
  <2>5. ASSUME ~pixelCrossed' PROVE WaitInv' /\ ReadInv'
    <3>0. ~pixelCrossed /\ Pixel!Plus(pixelCcount, hi) = pixelCcount + hi
      BY <2>1, <2>2, <2>5, Zenon
    <3>1. pixelUntil' = pixelCcount' - pixelWaited' + hi /\ pixelWaited' <= hi + PollCycles
      BY <1>0, <2>1, <2>2, <3>0
    <3>2. WaitInv'
      BY <2>1, <2>3, <3>1 DEF WaitInv, hi
    <3>. QED BY <1>0, <2>1, <3>0, <3>2 DEF ReadInv
  <2>. QED BY <1>0, <2>1, <2>4, <2>5 DEF PixelInv
<1>3. ASSUME Pixel!PollHigh \/ Pixel!PollLow PROVE PixelInv'
  <2>1. /\ pixelPhase \in {"high", "low"} /\ pixelUntil >= pixelCcount /\ pixelCcount' = Pixel!Plus(pixelCcount, PollCycles)
        /\ pixelWaited' = pixelWaited + PollCycles /\ pixelCrossed' = (pixelCrossed \/ Pixel!Crosses(pixelCcount, PollCycles))
        /\ UNCHANGED <<pixelDriver, pixelData, pixelSent, pixelPhase, pixelMasked, pixelUntil, pixelRead>>
    BY <1>3 DEF Pixel!PollHigh, Pixel!PollLow, Pixel!Turn, Pixel!Waits
  <2>2. /\ Pixel!Plus(pixelCcount, PollCycles) \in Int
        /\ ~Pixel!Crosses(pixelCcount, PollCycles) => Pixel!Plus(pixelCcount, PollCycles) = pixelCcount + PollCycles
    BY <1>0, PlusInt
  <2>3. Pixel!Bit' = Pixel!Bit /\ hi \in Nat /\ lo \in Nat
    BY <1>0, <1>1, <2>1 DEF Pixel!Bit, PixelType
  <2>. HIDE DEF hi, lo
  <2>4. PixelType'
    BY <1>0, <2>1, <2>2 DEF PixelType
  <2>5. ASSUME ~pixelCrossed' PROVE WaitInv' /\ ReadInv'
    <3>0. ~pixelCrossed /\ pixelCcount' = pixelCcount + PollCycles
      BY <2>1, <2>2, <2>5, Zenon
    <3>1. /\ pixelPhase = "high" => pixelUntil = pixelCcount - pixelWaited + hi /\ pixelWaited <= hi + PollCycles
          /\ pixelPhase = "low" => pixelUntil <= pixelCcount - pixelWaited + lo /\ pixelWaited <= lo + PollCycles
      BY <1>0, <2>1, <3>0 DEF WaitInv, hi, lo
    <3>2. /\ pixelPhase' = "high" => pixelUntil' = pixelCcount' - pixelWaited' + hi /\ pixelWaited' <= hi + PollCycles
          /\ pixelPhase' = "low" => pixelUntil' <= pixelCcount' - pixelWaited' + lo /\ pixelWaited' <= lo + PollCycles
      BY <1>0, <2>1, <2>2, <2>3, <3>0, <3>1
    <3>3. WaitInv'
      BY <2>3, <3>2 DEF WaitInv, hi, lo
    <3>. QED BY <1>0, <2>1, <3>0, <3>3 DEF ReadInv
  <2>. QED BY <1>0, <2>1, <2>4, <2>5 DEF PixelInv
<1>4. CASE Pixel!Clear
  <2>1. /\ pixelPhase = "high" /\ ~(pixelUntil >= pixelCcount) /\ pixelPhase' = "low" /\ pixelWaited' = 0
        /\ pixelRead' = Append(pixelRead, IF pixelWaited >= Threshold THEN 1 ELSE 0)
        /\ UNCHANGED <<pixelDriver, pixelData, pixelSent, pixelMasked>>
    BY <1>4 DEF Pixel!Clear, Pixel!Waits
  <2>2. PICK isr \in Nat, from \in {pixelCcount, pixelUntil} :
           /\ pixelUntil' = Pixel!Plus(from, lo) /\ pixelCcount' = Pixel!Plus(pixelCcount, isr)
           /\ pixelCrossed' = (pixelCrossed \/ Pixel!Crosses(from, lo) \/ Pixel!Crosses(pixelCcount, isr))
    <3>1. CASE pixelDriver = "doPixel"
      <4>1. PICK isr \in {0, IsrCycles} :
              /\ pixelUntil' = Pixel!Plus(pixelCcount, lo) /\ pixelCcount' = Pixel!Plus(pixelCcount, isr)
              /\ pixelCrossed' = (pixelCrossed \/ Pixel!Crosses(pixelCcount, lo) \/ Pixel!Crosses(pixelCcount, isr))
        BY <1>4, <3>1 DEF Pixel!Clear
      <4>. QED BY <1>0, <4>1
    <3>2. CASE pixelDriver # "doPixel"
      <4>1. /\ pixelUntil' = Pixel!Plus(pixelUntil, lo) /\ pixelCcount' = Pixel!Plus(pixelCcount, 0)
            /\ pixelCrossed' = (pixelCrossed \/ Pixel!Crosses(pixelUntil, lo) \/ Pixel!Crosses(pixelCcount, 0))
        BY <1>4, <3>2 DEF Pixel!Clear
      <4>. QED BY <4>1
    <3>. QED BY <3>1, <3>2
  <2>3. Pixel!Bit' = Pixel!Bit /\ hi \in Nat /\ lo \in Nat /\ from \in Int /\ pixelSent < Bits
    BY <1>0, <1>1, <2>1, <2>2 DEF Pixel!Bit, PixelType
  <2>4. /\ pixelUntil' \in Int /\ pixelCcount' \in Int
        /\ ~Pixel!Crosses(from, lo) => pixelUntil' = from + lo
        /\ ~Pixel!Crosses(pixelCcount, isr) => pixelCcount' = pixelCcount + isr
    BY <1>0, <2>2, <2>3, PlusInt
  <2>5. PixelType'
    BY <1>0, <2>1, <2>3, <2>4 DEF PixelType
  <2>6. ASSUME ~pixelCrossed' PROVE WaitInv' /\ ReadInv'
    <3>0. ~pixelCrossed /\ ~Pixel!Crosses(from, lo) /\ ~Pixel!Crosses(pixelCcount, isr)
      BY <2>2, <2>6, Zenon
    <3>1. pixelUntil = pixelCcount - pixelWaited + hi /\ pixelWaited <= hi + PollCycles
      BY <1>0, <2>1, <3>0 DEF WaitInv
    <3>2. pixelUntil' = from + lo /\ pixelCcount' = pixelCcount + isr
      BY <2>4, <3>0
    <3>3. pixelUntil' <= pixelCcount' - pixelWaited' + lo /\ pixelWaited' <= lo + PollCycles
      <4>. HIDE DEF lo, hi
      <4>. QED BY <1>0, <2>1, <2>2, <2>3, <3>2
    <3>4. WaitInv'
      BY <2>1, <2>3, <3>3 DEF WaitInv
    <3>5. (IF pixelWaited >= Threshold THEN 1 ELSE 0) = Pixel!Bit
      <4>1. pixelWaited > hi
        <5>. HIDE DEF hi
        <5>. QED BY <1>0, <2>1, <2>3, <3>1
      <4>2. CASE Pixel!Bit = 0
        BY <1>0, <3>1, <4>2, PixelConstants
      <4>3. CASE Pixel!Bit = 1
        BY <1>0, <4>1, <4>3, PixelConstants
      <4>. QED BY <1>1, <2>3, <4>2, <4>3
    <3>6. SubSeq(pixelData, 1, pixelSent + 1) = Append(SubSeq(pixelData, 1, pixelSent), Pixel!Bit)
      <4>1. pixelData \in Seq({0, 1}) /\ Len(pixelData) = Bits
        BY <1>0 DEF PixelType
      <4>2. pixelSent \in Nat /\ pixelSent < Len(pixelData)
        BY <1>0, <2>3, <4>1
      <4>. QED BY <4>1, <4>2, OneMore DEF Pixel!Bit
    <3>7. pixelRead' = SubSeq(pixelData, 1, pixelSent + 1)
      BY <1>0, <2>1, <2>2, <3>0, <3>5, <3>6 DEF ReadInv
    <3>. QED BY <2>1, <3>4, <3>7 DEF ReadInv
  <2>. QED BY <1>0, <2>2, <2>5, <2>6 DEF PixelInv
<1>5. CASE Pixel!NextBit
  <2>1. /\ pixelPhase = "low" /\ pixelPhase' = "bit" /\ pixelSent' = pixelSent + 1
        /\ UNCHANGED <<pixelDriver, pixelData, pixelMasked, pixelCcount, pixelUntil, pixelWaited, pixelRead, pixelCrossed>>
    BY <1>5 DEF Pixel!NextBit
  <2>2. PixelType'
    BY <1>0, <2>1 DEF PixelType
  <2>3. ASSUME ~pixelCrossed' PROVE WaitInv' /\ ReadInv'
    BY <1>0, <2>1, <2>3 DEF WaitInv, ReadInv
  <2>. QED BY <1>0, <2>1, <2>2, <2>3 DEF PixelInv
<1>6. CASE Pixel!Exit
  <2>1. /\ pixelPhase = "bit" /\ pixelSent = Bits /\ pixelPhase' = "done" /\ pixelMasked' = FALSE
        /\ UNCHANGED <<pixelDriver, pixelData, pixelSent, pixelCcount, pixelUntil, pixelWaited, pixelRead, pixelCrossed>>
    BY <1>6 DEF Pixel!Exit, Pixel!MaskAtExit
  <2>2. PixelType'
    BY <1>0, <2>1 DEF PixelType
  <2>3. ASSUME ~pixelCrossed' PROVE WaitInv' /\ ReadInv'
    BY <1>0, <2>1, <2>3 DEF WaitInv, ReadInv
  <2>. QED BY <1>0, <2>1, <2>2, <2>3 DEF PixelInv
<1>7. CASE Pixel!Left
  BY <1>7 DEF Pixel!Left, Pixel!vars, PixelInv, PixelType, WaitInv, ReadInv, Pixel!Bit
<1>. QED BY <1>2, <1>3, <1>4, <1>5, <1>6, <1>7 DEF Pixel!Next

LEMMA PixelSame == ASSUME PixelInv, UNCHANGED Pixel!vars PROVE PixelInv'
<1>. QED BY DEF Pixel!vars, PixelInv, PixelType, WaitInv, ReadInv, Pixel!Bit

LEMMA PixelGives == ASSUME Pixel!Cycles, PixelInv PROVE Pixel!InTimeUnlessCrossed /\ Pixel!InterruptsBack
<1>1. Pixel!InterruptsBack
  BY DEF Pixel!InterruptsBack, PixelInv, PixelType
<1>2. ASSUME ~pixelCrossed PROVE Pixel!WaitBounded /\ Pixel!ColourArrives
  <2>1. WaitInv /\ ReadInv /\ PixelType
    BY <1>2 DEF PixelInv
  <2>2. Pixel!WaitBounded
    BY <2>1 DEF Pixel!WaitBounded, WaitInv
  <2>3. pixelData \in Seq({0, 1}) /\ Len(pixelData) = Bits
    BY <2>1, PixelConstants DEF PixelType
  <2>4. SubSeq(pixelData, 1, Bits) = pixelData
    BY <2>3, SubSeqFull, SMTT(30)
  <2>. QED BY <2>1, <2>2, <2>4 DEF ReadInv, PixelType, Pixel!ColourArrives
<1>. QED BY <1>1, <1>2 DEF Pixel!InTimeUnlessCrossed

-----------------------------------------------------------------------------
(* UploadForm: the file of a firmware upload *)

formFile    == x1
formArrived == x2
formGot     == x3
formConn    == x4
formStage   == x5
formHeld    == x6
formEndBuf  == x7
formBuf     == x8
formGiven   == x9
formStatus  == x10
formLate    == x11

USE DEF formFile, formArrived, formGot, formConn, formStage, formHeld, formEndBuf,
        formBuf, formGiven, formStatus, formLate

\* Sequences: parts, joins and their members.
LEMMA SplitJoins ==
  ASSUME NEW S, NEW s \in Seq(S), NEW k \in 0 .. Len(s)
  PROVE  /\ SubSeq(s, 1, k) \in Seq(S) /\ SubSeq(s, k + 1, Len(s)) \in Seq(S)
         /\ SubSeq(s, 1, k) \o SubSeq(s, k + 1, Len(s)) = s
<1>. DEFINE a == SubSeq(s, 1, k)
            b == SubSeq(s, k + 1, Len(s))
<1>1. Len(s) \in Nat /\ k \in Nat /\ k <= Len(s) /\ \A i \in 1 .. Len(s) : s[i] \in S
  OBVIOUS
<1>2. a \in Seq(S) /\ Len(a) = k /\ \A i \in 1 .. k : a[i] = s[i]
  <2>1. \A i \in 1 .. k : s[i] \in S
    BY <1>1
  <2>2. a \in Seq(S) /\ Len(a) = (IF 1 <= k THEN k - 1 + 1 ELSE 0) /\ \A i \in 1 .. k - 1 + 1 : a[i] = s[1 + i - 1]
    BY <1>1, <2>1, SubSeqProperties
  <2>. HIDE DEF a
  <2>3. k - 1 + 1 = k /\ \A i \in 1 .. k : 1 + i - 1 = i
    BY <1>1
  <2>4. Len(a) = k
    BY <1>1, <2>2
  <2>. QED BY <2>2, <2>3, <2>4
<1>3. b \in Seq(S) /\ Len(b) = Len(s) - k /\ \A i \in 1 .. Len(s) - k : b[i] = s[k + i]
  <2>1. \A i \in k + 1 .. Len(s) : s[i] \in S
    BY <1>1
  <2>2. b \in Seq(S) /\ Len(b) = (IF k + 1 <= Len(s) THEN Len(s) - (k + 1) + 1 ELSE 0)
        /\ \A i \in 1 .. Len(s) - (k + 1) + 1 : b[i] = s[k + 1 + i - 1]
    BY <1>1, <2>1, SubSeqProperties
  <2>. HIDE DEF b
  <2>3. Len(s) - (k + 1) + 1 = Len(s) - k /\ \A i \in 1 .. Len(s) - k : k + 1 + i - 1 = k + i
    BY <1>1
  <2>4. Len(b) = Len(s) - k
    BY <1>1, <2>2
  <2>. QED BY <2>2, <2>3, <2>4
<1>. HIDE DEF a, b
<1>4. a \o b \in Seq(S) /\ Len(a \o b) = Len(a) + Len(b)
      /\ \A i \in 1 .. Len(a) + Len(b) : (a \o b)[i] = IF i <= Len(a) THEN a[i] ELSE b[i - Len(a)]
  BY <1>2, <1>3, ConcatProperties
<1>5. Len(a \o b) = Len(s)
  BY <1>1, <1>2, <1>3, <1>4
<1>6. ASSUME NEW i \in 1 .. Len(s) PROVE (a \o b)[i] = s[i]
  <2>1. CASE i <= k
    BY <1>1, <1>2, <1>3, <1>4, <2>1
  <2>2. CASE ~(i <= k)
    <3>1. i - k \in 1 .. Len(s) - k /\ k + (i - k) = i
      BY <1>1, <2>2
    <3>2. (a \o b)[i] = b[i - k]
      BY <1>1, <1>2, <1>3, <1>4, <2>2
    <3>. QED BY <1>3, <3>1, <3>2
  <2>. QED BY <2>1, <2>2
<1>7. a \o b = s
  BY <1>4, <1>5, <1>6, SeqEqual
<1>. QED BY <1>2, <1>3, <1>7 DEF a, b

LEMMA ConcatAt ==
  ASSUME NEW S, NEW a \in Seq(S), NEW b \in Seq(S)
  PROVE  /\ a \o b \in Seq(S) /\ Len(a \o b) = Len(a) + Len(b)
         /\ \A i \in 1 .. Len(a) : (a \o b)[i] = a[i]
         /\ \A j \in 1 .. Len(b) : (a \o b)[Len(a) + j] = b[j]
<1>1. a \o b \in Seq(S)
  OBVIOUS
<1>2. Len(a \o b) = Len(a) + Len(b)
  OBVIOUS
<1>3. \A i \in 1 .. Len(a) : (a \o b)[i] = a[i]
  OBVIOUS
<1>4. \A j \in 1 .. Len(b) : (a \o b)[Len(a) + j] = b[j]
  OBVIOUS
<1>. QED BY <1>1, <1>2, <1>3, <1>4

LEMMA SmallRest == ASSUME NEW S \in Nat \ {0}, NEW x \in Nat PROVE x % S \in 0 .. x
<1>1. PICK q \in Int, r \in 0 .. S - 1 : x = q * S + r /\ x % S = r
  OBVIOUS
<1>2. CASE q >= 0
  <2>1. q * S >= 0
    BY <1>2
  <2>. QED BY <1>1, <2>1
<1>3. CASE q < 0
  <2>1. q * S <= -S
    <3>1. (q + 1) * S <= 0 * S
      BY <1>3
    <3>. QED BY <3>1
  <2>. QED BY <1>1, <2>1
<1>. QED BY <1>2, <1>3

-----------------------------------------------------------------------------
Bytes == {"r", "n", "-", "255", "stack", "none"} \union {Boundary[i] : i \in DOMAIN Boundary}
Taken   == formGiven \o formBuf
\* What the browser sends for the file f, and the first n bytes of it.
Wire(f) == f \o <<"r", "n", "-", "-">> \o Boundary \o <<"-", "-", "r", "n">>
Part(f, n) == SubSeq(Wire(f), 1, n)

\* What the browser sends, and its length.
LEMMA Wires ==
  ASSUME Form!Forms, Form!Apart, NEW f \in Files
  PROVE  /\ UploadBuffer \in Nat \ {0} /\ Boundary \in Seq(Bytes) /\ Len(Boundary) \in Nat \ {0} /\ f \in Seq(Bytes)
         /\ Form!Mark \in Seq(Bytes) /\ Len(Form!Mark) = 4 + Len(Boundary)
         /\ Form!Mark[1] = "r" /\ \A j \in 2 .. Len(Form!Mark) : Form!Mark[j] # "r"
         /\ f \o <<"r", "n", "-", "-">> \o Boundary \o <<"-", "-", "r", "n">> \in Seq(Bytes)
<1>1. Boundary \in Seq(Bytes)
  <2>1. {Boundary[i] : i \in DOMAIN Boundary} \subseteq Bytes
    BY DEF Bytes
  <2>. QED BY <2>1 DEF Form!Apart
<1>2. f \in Seq(Bytes)
  <2>1. {"r", "n", "-"} \union {Boundary[i] : i \in DOMAIN Boundary} \subseteq Bytes
    BY DEF Bytes
  <2>2. f \in Seq({"r", "n", "-"} \union {Boundary[i] : i \in DOMAIN Boundary})
    BY DEF Form!Forms
  <2>. HIDE DEF Bytes
  <2>3. \A T : \A R : T \subseteq R => \A s \in Seq(T) : s \in Seq(R)
    OBVIOUS
  <2>. QED BY <2>1, <2>2, <2>3
<1>3. Len(Boundary) \in Nat \ {0} /\ UploadBuffer \in Nat \ {0}
  BY <1>1 DEF Form!Forms
<1>. DEFINE c == <<"r", "n", "-", "-">>
            e == <<"-", "-", "r", "n">>
<1>4. c \in Seq(Bytes) /\ e \in Seq(Bytes) /\ Len(c) = 4 /\ c[1] = "r" /\ c[2] = "n" /\ c[3] = "-" /\ c[4] = "-"
  BY DEF Bytes
<1>5. f \o c \o Boundary \o e \in Seq(Bytes)
  <2>. HIDE DEF c, e
  <2>1. f \o c \in Seq(Bytes)
    BY <1>2, <1>4
  <2>2. f \o c \o Boundary \in Seq(Bytes)
    BY <1>1, <2>1
  <2>. QED BY <1>4, <2>2
<1>6. /\ Form!Mark \in Seq(Bytes) /\ Len(Form!Mark) = 4 + Len(Boundary)
      /\ \A i \in 1 .. 4 + Len(Boundary) : Form!Mark[i] = IF i <= 4 THEN c[i] ELSE Boundary[i - 4]
  <2>1. Form!Mark = c \o Boundary
    BY DEF Form!Mark
  <2>. HIDE DEF c
  <2>2. /\ Form!Mark \in Seq(Bytes) /\ Len(Form!Mark) = Len(c) + Len(Boundary)
        /\ \A i \in 1 .. Len(c) + Len(Boundary) : Form!Mark[i] = IF i <= Len(c) THEN c[i] ELSE Boundary[i - Len(c)]
    BY <1>1, <1>4, <2>1, ConcatProperties
  <2>. QED BY <1>4, <2>2
<1>. HIDE DEF c, e
<1>7. Form!Mark[1] = "r"
  BY <1>3, <1>4, <1>6
<1>8. ASSUME NEW j \in 2 .. Len(Form!Mark) PROVE Form!Mark[j] # "r"
  <2>1. CASE j <= 4
    <3>1. j = 2 \/ j = 3 \/ j = 4
      BY <2>1
    <3>2. Form!Mark[j] = c[j]
      BY <1>3, <1>6, <2>1
    <3>. QED BY <1>4, <3>1, <3>2
  <2>2. CASE ~(j <= 4)
    <3>1. j - 4 \in 1 .. Len(Boundary) /\ j \in 1 .. 4 + Len(Boundary)
      BY <1>3, <1>6, <2>2
    <3>2. Form!Mark[j] = Boundary[j - 4] /\ j - 4 \in DOMAIN Boundary
      BY <1>1, <1>6, <2>2, <3>1
    <3>. QED BY <3>2 DEF Form!Apart
  <2>. QED BY <2>1, <2>2
<1>. QED BY <1>1, <1>2, <1>3, <1>5, <1>6, <1>7, <1>8 DEF c, e

\* The mark stands in the stream only where the file ends.
LEMMA MarkOnce ==
  ASSUME Form!Forms, Form!Apart, formFile \in Files, NEW g \in Seq(Bytes), NEW n \in 0 .. Len(Form!Stream),
         g \o Form!Mark = Part(formFile, n)
  PROVE  g = formFile
<1>. DEFINE F == Len(formFile)
            B == Len(Boundary)
            L == Len(Form!Mark)
            G == Len(g)
            c == <<"r", "n", "-", "-">>
            e == <<"-", "-", "r", "n">>
<1>1. /\ Boundary \in Seq(Bytes) /\ B \in Nat \ {0} /\ formFile \in Seq(Bytes) /\ F \in Nat /\ G \in Nat
      /\ Form!Mark \in Seq(Bytes) /\ L = 4 + B /\ Form!Mark[1] = "r" /\ \A j \in 2 .. L : Form!Mark[j] # "r"
      /\ Form!Stream \in Seq(Bytes)
  BY Wires DEF Form!Stream
<1>2. c \in Seq(Bytes) /\ e \in Seq(Bytes) /\ Len(c) = 4 /\ Len(e) = 4 /\ c[1] = "r" /\ c[2] = "n" /\ c[3] = "-" /\ c[4] = "-"
  BY DEF Bytes
<1>3. /\ Len(Form!Stream) = F + 4 + B + 4
      /\ \A i \in 1 .. F : Form!Stream[i] = formFile[i]
      /\ Form!Stream[F + 1] = "r" /\ Form!Stream[F + 2] = "n" /\ Form!Stream[F + 3] = "-" /\ Form!Stream[F + 4] = "-"
      /\ Form!Stream[F + 5] = Boundary[1]
  <2>. HIDE DEF c, e, F, B
  <2>1. Form!Stream = ((formFile \o c) \o Boundary) \o e
    BY DEF Form!Stream, c, e
  <2>2. /\ formFile \o c \in Seq(Bytes) /\ Len(formFile \o c) = F + 4
        /\ \A i \in 1 .. F : (formFile \o c)[i] = formFile[i]
        /\ \A j \in 1 .. 4 : (formFile \o c)[F + j] = c[j]
    <3>0. formFile \in Seq(Bytes) /\ c \in Seq(Bytes)
      BY <1>1, <1>2
    <3>a. formFile \o c \in Seq(Bytes)
      BY ONLY <3>0
    <3>b. Len(formFile \o c) = Len(formFile) + Len(c)
      BY ONLY <3>0
    <3>c. \A i \in 1 .. Len(formFile) : (formFile \o c)[i] = formFile[i]
      BY ONLY <3>0
    <3>d. \A j \in 1 .. Len(c) : (formFile \o c)[Len(formFile) + j] = c[j]
      BY ONLY <3>0
    <3>2. Len(formFile) = F
      BY DEF F
    <3>. QED BY <1>2, <3>a, <3>b, <3>c, <3>d, <3>2
  <2>3. /\ (formFile \o c) \o Boundary \in Seq(Bytes) /\ Len((formFile \o c) \o Boundary) = F + 4 + B
        /\ \A i \in 1 .. F + 4 : ((formFile \o c) \o Boundary)[i] = (formFile \o c)[i]
        /\ \A j \in 1 .. B : ((formFile \o c) \o Boundary)[F + 4 + j] = Boundary[j]
    <3>0. (formFile \o c) \in Seq(Bytes) /\ Boundary \in Seq(Bytes)
      BY <1>1, <2>2
    <3>a. (formFile \o c) \o Boundary \in Seq(Bytes)
      BY ONLY <3>0
    <3>b. Len((formFile \o c) \o Boundary) = Len((formFile \o c)) + Len(Boundary)
      BY ONLY <3>0
    <3>c. \A i \in 1 .. Len((formFile \o c)) : ((formFile \o c) \o Boundary)[i] = (formFile \o c)[i]
      BY ONLY <3>0
    <3>d. \A j \in 1 .. Len(Boundary) : ((formFile \o c) \o Boundary)[Len((formFile \o c)) + j] = Boundary[j]
      BY ONLY <3>0
    <3>2. Len(Boundary) = B
      BY DEF B
    <3>. QED BY <2>2, <3>a, <3>b, <3>c, <3>d, <3>2
  <2>4. /\ Len(Form!Stream) = F + 4 + B + 4
        /\ \A i \in 1 .. F + 4 + B : Form!Stream[i] = ((formFile \o c) \o Boundary)[i]
    <3>0. ((formFile \o c) \o Boundary) \in Seq(Bytes) /\ e \in Seq(Bytes)
      BY <1>2, <2>3
    <3>a. ((formFile \o c) \o Boundary) \o e \in Seq(Bytes)
      BY ONLY <3>0
    <3>b. Len(((formFile \o c) \o Boundary) \o e) = Len(((formFile \o c) \o Boundary)) + Len(e)
      BY ONLY <3>0
    <3>c. \A i \in 1 .. Len(((formFile \o c) \o Boundary)) : (((formFile \o c) \o Boundary) \o e)[i] = ((formFile \o c) \o Boundary)[i]
      BY ONLY <3>0
    <3>d. \A j \in 1 .. Len(e) : (((formFile \o c) \o Boundary) \o e)[Len(((formFile \o c) \o Boundary)) + j] = e[j]
      BY ONLY <3>0
    <3>. QED BY <1>2, <2>1, <2>3, <3>a, <3>b, <3>c, <3>d
  <2>6. ASSUME NEW i \in 1 .. F PROVE Form!Stream[i] = formFile[i]
    <3>1. i \in 1 .. F + 4 /\ i \in 1 .. F + 4 + B
      BY <1>1
    <3>. QED BY <2>2, <2>3, <2>4, <3>1
  <2>7. ASSUME NEW j \in 1 .. 4 PROVE Form!Stream[F + j] = c[j]
    <3>1. F + j \in 1 .. F + 4 /\ F + j \in 1 .. F + 4 + B
      BY <1>1
    <3>2. Form!Stream[F + j] = ((formFile \o c) \o Boundary)[F + j]
      BY <2>4, <3>1
    <3>3. ((formFile \o c) \o Boundary)[F + j] = (formFile \o c)[F + j]
      BY <2>3, <3>1
    <3>. QED BY <2>2, <3>2, <3>3
  <2>8. Form!Stream[F + 5] = Boundary[1]
    <3>1. F + 5 \in 1 .. F + 4 + B /\ 1 \in 1 .. B /\ F + 4 + 1 = F + 5
      BY <1>1
    <3>2. Form!Stream[F + 5] = ((formFile \o c) \o Boundary)[F + 5]
      BY <2>4, <3>1
    <3>3. ((formFile \o c) \o Boundary)[F + 4 + 1] = Boundary[1]
      BY <2>3, <3>1
    <3>. QED BY <3>1, <3>2, <3>3
  <2>9. Form!Stream[F + 1] = c[1] /\ Form!Stream[F + 2] = c[2] /\ Form!Stream[F + 3] = c[3] /\ Form!Stream[F + 4] = c[4]
    BY <2>7
  <2>. QED BY <1>2, <2>4, <2>6, <2>8, <2>9
<1>4. /\ G + L = n /\ (\A i \in 1 .. G : g[i] = Form!Stream[i])
      /\ \A j \in 1 .. L : Form!Stream[G + j] = Form!Mark[j]
  <2>. HIDE DEF F, B, G, L
  <2>1. /\ Len(g \o Form!Mark) = G + L
        /\ \A i \in 1 .. G : (g \o Form!Mark)[i] = g[i]
        /\ \A j \in 1 .. L : (g \o Form!Mark)[G + j] = Form!Mark[j]
    <3>0. g \in Seq(Bytes) /\ Form!Mark \in Seq(Bytes)
      BY <1>1
    <3>a. g \o Form!Mark \in Seq(Bytes)
      BY ONLY <3>0
    <3>b. Len(g \o Form!Mark) = Len(g) + Len(Form!Mark)
      BY ONLY <3>0
    <3>c. \A i \in 1 .. Len(g) : (g \o Form!Mark)[i] = g[i]
      BY ONLY <3>0
    <3>d. \A j \in 1 .. Len(Form!Mark) : (g \o Form!Mark)[Len(g) + j] = Form!Mark[j]
      BY ONLY <3>0
    <3>2. Len(g) = G /\ Len(Form!Mark) = L
      BY DEF G, L
    <3>. QED BY <3>a, <3>b, <3>c, <3>d, <3>2
  <2>2. Len(Part(formFile, n)) = n /\ \A i \in 1 .. n : Part(formFile, n)[i] = Form!Stream[i]
    <3>1. \A i \in 1 .. n : Form!Stream[i] \in Bytes
      BY <1>1
    <3>2. /\ Len(Part(formFile, n)) = (IF 1 <= n THEN n - 1 + 1 ELSE 0)
          /\ \A i \in 1 .. n - 1 + 1 : Part(formFile, n)[i] = Form!Stream[1 + i - 1]
      BY <3>1, SubSeqProperties DEF Part, Wire, Form!Stream
    <3>3. n \in Nat
      BY <1>1
    <3>4. n - 1 + 1 = n /\ \A i \in 1 .. n : 1 + i - 1 = i
      BY <3>3
    <3>5. Len(Part(formFile, n)) = n
      BY <3>2, <3>3
    <3>. QED BY <3>2, <3>4, <3>5
  <2>3. G + L = n
    BY <2>1, <2>2
  <2>4. ASSUME NEW i \in 1 .. G PROVE g[i] = Form!Stream[i]
    <3>1. i \in 1 .. G + L
      BY <1>1
    <3>. QED BY <2>1, <2>2, <2>3, <3>1
  <2>5. ASSUME NEW j \in 1 .. L PROVE Form!Stream[G + j] = Form!Mark[j]
    <3>1. G + j \in 1 .. G + L
      BY <1>1
    <3>2. (g \o Form!Mark)[G + j] = Part(formFile, n)[G + j]
      OBVIOUS
    <3>. QED BY <2>1, <2>2, <2>3, <3>1, <3>2
  <2>. QED BY <2>3, <2>4, <2>5
<1>. HIDE DEF c, e
<1>5. CASE G < F
  <2>1. CASE G + L <= F
    <3>1. G \in 0 .. F - L /\ \A j \in 1 .. L : G + j \in 1 .. F
      BY <1>1, <1>5, <2>1
    <3>2. \A j \in 1 .. L : formFile[G + j] = Form!Mark[j]
      BY <1>3, <1>4, <3>1
    <3>3. \E j \in 1 .. L : formFile[G + j] # Form!Mark[j]
      BY <3>1 DEF Form!Apart
    <3>. QED BY <3>2, <3>3
  <2>2. CASE ~(G + L <= F)
    <3>. DEFINE j == F + 1 - G
    <3>1. j \in 2 .. L /\ j \in 1 .. L /\ G + j = F + 1
      BY <1>1, <1>5, <2>2
    <3>. HIDE DEF j
    <3>2. Form!Stream[F + 1] = Form!Mark[j]
      BY <1>4, <3>1
    <3>. QED BY <1>1, <1>3, <3>1, <3>2
  <2>. QED BY <2>1, <2>2
<1>6. CASE G > F
  <2>1. G + 1 \in {F + 2, F + 3, F + 4, F + 5}
    <3>1. G + L <= F + 4 + B + 4
      BY <1>3, <1>4
    <3>. HIDE DEF F, B, G, L
    <3>. QED BY <1>1, <1>6, <3>1
  <2>2. Form!Stream[G + 1] = "r"
    <3>1. 1 \in 1 .. L
      BY <1>1
    <3>. QED BY <1>1, <1>4, <3>1
  <2>3. Boundary[1] # "r"
    <3>1. 1 \in DOMAIN Boundary
      BY <1>1
    <3>. QED BY <3>1 DEF Form!Apart
  <2>. QED BY <1>3, <2>1, <2>2, <2>3
<1>7. CASE G = F
  <2>1. \A i \in 1 .. F : g[i] = formFile[i]
    BY <1>3, <1>4, <1>7
  <2>. QED BY <1>1, <1>7, <2>1, SeqEqual
<1>. QED BY <1>1, <1>5, <1>6, <1>7

-----------------------------------------------------------------------------
FormType ==
  /\ formFile \in Files /\ formArrived \in 0 .. Len(Form!Stream) /\ formGot \in 0 .. formArrived
  /\ formBuf \in Seq(Bytes) /\ formGiven \in Seq(Bytes) /\ formEndBuf \in Seq(Bytes) /\ formHeld \in Bytes
  /\ formStage \in {"head", "next", "file", "lf", "dash", "boundary", "tail", "over", "stuck", "refused"}

\* What the handler was told: the start before the file, the end once.
ToldInv ==
  /\ formStage = "head" => formGiven = <<>> /\ formBuf = <<>> /\ formGot = 0
  /\ formStage \in {"head", "next", "file", "lf", "dash"} => formEndBuf = <<>>
  /\ formStage \in {"head", "next", "file", "lf", "dash", "boundary"} => formStatus \in {"none", "begun"}
  /\ formStage = "tail" => formStatus = "end"
  /\ formStage = "over" => formStatus \in {"end", "aborted"}
  /\ formStage \in {"stuck", "refused"} => formLate

\* The bytes given, those held back and the mark read so far are the first part of what was sent.
PartInv ==
  /\ formStage = "next" => Taken = Part(formFile, formGot)
  /\ formStage = "file" => \/ Taken \o <<formHeld>> = Part(formFile, formGot)
                           \/ formHeld # "r" /\ ~Form!Connected /\ Taken = Part(formFile, formGot)
  /\ formStage = "lf" => Taken \o <<"r", "n">> = Part(formFile, formGot)
  /\ formStage = "dash" => Taken \o <<"r", "n", "-">> = Part(formFile, formGot)
  /\ formStage = "boundary" => (Taken \o <<"r", "n", "-", "-">>) \o formEndBuf = Part(formFile, formGot)
  /\ Form!IsPrefix(formGiven, Wire(formFile))
  /\ formStatus = "end" => formGiven = formFile

FormInv == FormType /\ ToldInv /\ (~formLate => PartInv)

LEMMA Regroup == \A u, v, w \in Seq(Bytes) : (u \o v) \o w = u \o (v \o w)
<1>. QED BY ConcatAssociative, SMTT(30)

LEMMA FormWriteKeeps ==
  ASSUME Form!Forms, formGiven \in Seq(Bytes), formBuf \in Seq(Bytes), NEW b \in Seq(Bytes), Form!Write(b)
  PROVE  /\ formGiven' \in Seq(Bytes) /\ formBuf' \in Seq(Bytes)
         /\ formGiven' \o formBuf' = Taken \o b
<1>. DEFINE all == formBuf \o b
            kept == IF all = <<>> THEN 0 ELSE ((Len(all) - 1) % UploadBuffer) + 1
            k == Len(all) - kept
<1>1. all \in Seq(Bytes) /\ Len(all) \in Nat
  OBVIOUS
<1>2. formGiven' = formGiven \o SubSeq(all, 1, k) /\ formBuf' = SubSeq(all, k + 1, Len(all))
  BY DEF Form!Write
<1>3. kept \in 0 .. Len(all)
  <2>. HIDE DEF all
  <2>1. CASE all = <<>>
    BY <1>1, <2>1
  <2>2. CASE all # <<>>
    <3>1. Len(all) - 1 \in Nat /\ UploadBuffer \in Nat \ {0}
      BY <1>1, <2>2 DEF Form!Forms
    <3>2. (Len(all) - 1) % UploadBuffer \in 0 .. Len(all) - 1
      BY <3>1, SmallRest
    <3>. QED BY <1>1, <2>2, <3>2
  <2>. QED BY <2>1, <2>2
<1>. HIDE DEF all, kept
<1>4. k \in 0 .. Len(all)
  BY <1>1, <1>3
<1>. HIDE DEF k
<1>5. /\ SubSeq(all, 1, k) \in Seq(Bytes) /\ SubSeq(all, k + 1, Len(all)) \in Seq(Bytes)
      /\ SubSeq(all, 1, k) \o SubSeq(all, k + 1, Len(all)) = all
  BY <1>1, <1>4, SplitJoins
<1>. DEFINE x == SubSeq(all, 1, k)
            y == SubSeq(all, k + 1, Len(all))
<1>. HIDE DEF x, y
<1>6. x \in Seq(Bytes) /\ y \in Seq(Bytes) /\ x \o y = all
  BY <1>5 DEF x, y
<1>7. (formGiven \o x) \o y = formGiven \o all
  BY <1>6, Regroup
<1>8. formGiven \o all = Taken \o b
  <2>1. formGiven \o (formBuf \o b) = (formGiven \o formBuf) \o b
    BY Regroup
  <2>. QED BY <2>1 DEF Taken, all
<1>9. formGiven' = formGiven \o x /\ formBuf' = y
  BY <1>2 DEF x, y
<1>10. formGiven \o x \in Seq(Bytes)
  BY ONLY <1>6, formGiven \in Seq(Bytes)
<1>. QED BY <1>6, <1>7, <1>8, <1>9, <1>10

\* The next byte of what is sent.
LEMMA PartGrows ==
  ASSUME Form!Forms, Form!Apart, NEW f \in Files, NEW n \in Nat, n < Len(Wire(f))
  PROVE  Wire(f)[n + 1] \in Bytes /\ Part(f, n + 1) = Part(f, n) \o <<Wire(f)[n + 1]>>
<1>1. Wire(f) \in Seq(Bytes)
  BY Wires DEF Wire
<1>2. 1 \in 1 .. Len(Wire(f)) /\ n + 1 \in 1 .. Len(Wire(f)) /\ n + 1 - 1 = n
  BY <1>1
<1>3. SubSeq(Wire(f), 1, n + 1) = SubSeq(Wire(f), 1, n + 1 - 1) \o <<Wire(f)[n + 1]>>
  BY <1>1, <1>2, SubSeqRecursiveSecond
<1>4. Wire(f)[n + 1] \in Bytes
  BY <1>1, <1>2
<1>. QED BY <1>2, <1>3, <1>4 DEF Part

LEMMA PartIsPrefix ==
  ASSUME Form!Forms, Form!Apart, NEW f \in Files, NEW n \in 0 .. Len(Wire(f)), NEW a \in Seq(Bytes), NEW b \in Seq(Bytes),
         a \o b = Part(f, n)
  PROVE  Form!IsPrefix(a, Wire(f))
<1>1. Wire(f) \in Seq(Bytes)
  BY Wires DEF Wire
<1>. DEFINE A == Len(a)
            w == Wire(f)
<1>. HIDE DEF w
<1>2. \A i \in 1 .. n : w[i] \in Bytes
  BY <1>1 DEF w
<1>3. Len(Part(f, n)) = n /\ \A i \in 1 .. n : Part(f, n)[i] = w[i]
  <2>1. Part(f, n) = SubSeq(w, 1, n)
    BY DEF Part, w
  <2>2. /\ Len(SubSeq(w, 1, n)) = IF 1 <= n THEN n - 1 + 1 ELSE 0
        /\ \A i \in 1 .. n - 1 + 1 : SubSeq(w, 1, n)[i] = w[1 + i - 1]
    BY <1>2, SubSeqProperties
  <2>3. n \in Nat
    BY <1>1
  <2>4. n - 1 + 1 = n /\ \A i \in 1 .. n : 1 + i - 1 = i
    BY <2>3
  <2>5. Len(Part(f, n)) = n
    BY <2>1, <2>2, <2>3
  <2>. QED BY <2>1, <2>2, <2>4, <2>5
<1>4. Len(a \o b) = Len(a) + Len(b)
  BY ONLY a \in Seq(Bytes), b \in Seq(Bytes)
<1>5. \A i \in 1 .. Len(a) : (a \o b)[i] = a[i]
  BY ONLY a \in Seq(Bytes), b \in Seq(Bytes)
<1>6. Len(a) \in Nat /\ Len(b) \in Nat
  OBVIOUS
<1>7. Len(a) <= n /\ \A i \in 1 .. Len(a) : a[i] = w[i] /\ w[i] \in Bytes
  BY <1>2, <1>3, <1>4, <1>5, <1>6
<1>8. SubSeq(a, 1, Len(a)) = a
  BY SubSeqFull
<1>9. SubSeq(w, 1, Len(a)) = a
  <2>1. /\ SubSeq(w, 1, A) \in Seq(Bytes)
        /\ Len(SubSeq(w, 1, A)) = IF 1 <= A THEN A - 1 + 1 ELSE 0
        /\ \A i \in 1 .. A - 1 + 1 : SubSeq(w, 1, A)[i] = w[1 + i - 1]
    BY <1>6, <1>7, SubSeqProperties
  <2>. HIDE DEF A
  <2>2. A \in Nat /\ A = Len(a)
    BY <1>6 DEF A
  <2>3. A - 1 + 1 = A /\ \A i \in 1 .. A : 1 + i - 1 = i
    BY <2>2
  <2>4. Len(SubSeq(w, 1, A)) = Len(a) /\ \A i \in 1 .. Len(a) : SubSeq(w, 1, A)[i] = a[i]
    BY <1>7, <2>1, <2>2, <2>3
  <2>. QED BY <2>1, <2>2, <2>4, SeqEqual
<1>10. Len(a) <= Len(w)
  BY <1>1, <1>6, <1>7 DEF w
<1>. QED BY <1>8, <1>9, <1>10 DEF Form!IsPrefix, w

LEMMA Marks ==
  ASSUME NEW a, NEW b, NEW c
  PROVE  /\ <<a>> \o <<b>> = <<a, b>> /\ <<a, b>> \o <<c>> = <<a, b, c>>
<1>. DEFINE S == {a, b, c}
<1>1. /\ <<a>> \in Seq(S) /\ <<b>> \in Seq(S) /\ <<c>> \in Seq(S)
      /\ <<a, b>> \in Seq(S) /\ <<a, b, c>> \in Seq(S)
  OBVIOUS
<1>2. <<a>> \o <<b>> = <<a, b>>
  <2>. DEFINE s == <<a>> \o <<b>>
  <2>1. s \in Seq(S) /\ Len(s) = 2 /\ s[1] = a /\ s[2] = b
    BY <1>1, ConcatAt
  <2>. HIDE DEF s
  <2>2. \A i \in 1 .. 2 : s[i] = <<a, b>>[i]
    BY <2>1
  <2>3. s = <<a, b>>
    BY <1>1, <2>1, <2>2, SeqEqual
  <2>. QED BY <2>3 DEF s
<1>3. <<a, b>> \o <<c>> = <<a, b, c>>
  <2>. DEFINE s == <<a, b>> \o <<c>>
  <2>1. s \in Seq(S) /\ Len(s) = 3 /\ s[1] = a /\ s[2] = b /\ s[3] = c
    BY <1>1, ConcatAt
  <2>. HIDE DEF s
  <2>2. \A i \in 1 .. 3 : s[i] = <<a, b, c>>[i]
    BY <2>1
  <2>3. s = <<a, b, c>>
    BY <1>1, <2>1, <2>2, SeqEqual
  <2>. QED BY <2>3 DEF s
<1>. QED BY <1>2, <1>3

LEMMA LastMark == ASSUME NEW a, NEW b, NEW c, NEW d PROVE <<a, b, c>> \o <<d>> = <<a, b, c, d>>
<1>. DEFINE S == {a, b, c, d}
<1>1. <<a, b, c>> \in Seq(S) /\ <<d>> \in Seq(S) /\ <<a, b, c, d>> \in Seq(S)
  OBVIOUS
<1>2. <<a, b, c>> \o <<d>> = <<a, b, c, d>>
  <2>. DEFINE s == <<a, b, c>> \o <<d>>
  <2>1. s \in Seq(S) /\ Len(s) = 4 /\ s[1] = a /\ s[2] = b /\ s[3] = c /\ s[4] = d
    BY <1>1, ConcatAt
  <2>. HIDE DEF s
  <2>2. \A i \in 1 .. 4 : s[i] = <<a, b, c, d>>[i]
    BY <2>1
  <2>3. s = <<a, b, c, d>>
    BY <1>1, <2>1, <2>2, SeqEqual
  <2>. QED BY <2>3 DEF s
<1>. QED BY <1>2

\* A byte that is read is the next one of what was sent.
LEMMA ReadGives ==
  ASSUME Form!Forms, Form!Apart, FormType, Form!Read
  PROVE  /\ formGot' \in 0 .. formArrived /\ Form!Byte \in Bytes
         /\ Form!HasByte => formGot' = formGot + 1 /\ Part(formFile, formGot') = Part(formFile, formGot) \o <<Form!Byte>>
         /\ ~Form!HasByte => formGot' = formGot /\ ~Form!Connected /\ Form!Byte = "255"
<1>1. formArrived \in Nat /\ formGot \in Nat /\ formArrived <= Len(Wire(formFile)) /\ Form!Stream = Wire(formFile) /\ Len(Wire(formFile)) \in Nat
  BY DEF FormType, Form!Stream, Wire
<1>2. "255" \in Bytes
  BY DEF Bytes
<1>3. CASE Form!HasByte
  <2>1. formGot < Len(Wire(formFile)) /\ formGot' = formGot + 1 /\ formGot' \in 0 .. formArrived
    BY <1>1, <1>3 DEF Form!HasByte, Form!Read, FormType
  <2>2. Wire(formFile)[formGot + 1] \in Bytes /\ Part(formFile, formGot + 1) = Part(formFile, formGot) \o <<Wire(formFile)[formGot + 1]>>
    BY <1>1, <2>1, PartGrows DEF FormType
  <2>3. Form!Byte = Wire(formFile)[formGot + 1]
    BY <1>1, <1>3 DEF Form!Byte
  <2>. QED BY <1>3, <2>1, <2>2, <2>3
<1>4. CASE ~Form!HasByte
  BY <1>1, <1>2, <1>4 DEF Form!Read, Form!Readable, Form!Byte, FormType
<1>. QED BY <1>3, <1>4

LEMMA ExpectKeeps ==
  ASSUME Form!Forms, Form!Apart, FormType, NEW byte, NEW then, NEW back \in Seq(Bytes), Form!Expect(byte, then, back)
  PROVE  /\ formGot' \in 0 .. formArrived /\ UNCHANGED <<Form!wire, formEndBuf, formLate>>
         /\ \/ formStage' = "over" /\ formStatus' = "aborted" /\ UNCHANGED <<formHeld, formBuf, formGiven>>
            \/ /\ formStage' = then /\ formStatus' = formStatus /\ UNCHANGED <<formHeld, formBuf, formGiven>>
               /\ Taken \o back = Part(formFile, formGot) => Taken \o (back \o <<byte>>) = Part(formFile, formGot')
            \/ /\ formStage' = "file" /\ formStatus' = formStatus /\ formHeld' \in Bytes
               /\ formGiven' \in Seq(Bytes) /\ formBuf' \in Seq(Bytes)
               /\ Taken \o back = Part(formFile, formGot) =>
                    formGiven' \o formBuf' = Taken \o back /\ (formGiven' \o formBuf') \o <<formHeld'>> = Part(formFile, formGot')
<1>1. /\ formGot' \in 0 .. formArrived /\ Form!Byte \in Bytes
      /\ Form!HasByte => formGot' = formGot + 1 /\ Part(formFile, formGot') = Part(formFile, formGot) \o <<Form!Byte>>
      /\ ~Form!HasByte => formGot' = formGot /\ ~Form!Connected
  BY ReadGives DEF Form!Expect
<1>2. UNCHANGED <<Form!wire, formEndBuf, formLate>>
  BY DEF Form!Expect
<1>3. CASE ~Form!StillConnected
  BY <1>1, <1>2, <1>3 DEF Form!Expect, Form!Abort
<1>4. CASE Form!StillConnected
  <2>1. Form!HasByte
    <3>1. ~Form!HasByte => ~Form!StillConnected
      BY <1>1 DEF Form!StillConnected, Form!HasByte, Form!Connected
    <3>. QED BY <1>4, <3>1
  <2>2. formGiven \in Seq(Bytes) /\ formBuf \in Seq(Bytes) /\ Taken \in Seq(Bytes)
    BY DEF FormType, Taken
  <2>3. CASE Form!Byte = byte
    <3>1. formStage' = then /\ formStatus' = formStatus /\ UNCHANGED <<formHeld, formBuf, formGiven>>
      BY <1>4, <2>3 DEF Form!Expect
    <3>2. Taken \o (back \o <<byte>>) = (Taken \o back) \o <<byte>>
      <4>1. <<byte>> \in Seq(Bytes)
        BY <1>1, <2>3
      <4>. QED BY <2>2, <4>1, Regroup
    <3>. QED BY <1>1, <1>2, <2>1, <2>3, <3>1, <3>2
  <2>4. CASE Form!Byte # byte
    <3>1. Form!Write(back) /\ formHeld' = Form!Byte /\ formStage' = "file" /\ formStatus' = formStatus
      BY <1>4, <2>4 DEF Form!Expect
    <3>2. formGiven' \in Seq(Bytes) /\ formBuf' \in Seq(Bytes) /\ formGiven' \o formBuf' = Taken \o back
      BY <2>2, <3>1, FormWriteKeeps
    <3>. QED BY <1>1, <1>2, <2>1, <3>1, <3>2
  <2>. QED BY <2>3, <2>4
<1>. QED BY <1>3, <1>4

LEMMA FormInit == ASSUME Form!Forms, Form!Apart, Form!Init PROVE FormInv
<1>1. FormType
  <2>1. <<>> \in Seq(Bytes) /\ "none" \in Bytes
    BY DEF Bytes
  <2>2. Len(Form!Stream) \in Nat
    BY Wires DEF Form!Init, Form!Stream
  <2>. QED BY <2>1, <2>2 DEF Form!Init, FormType
<1>2. ToldInv
  BY DEF Form!Init, ToldInv
<1>3. PartInv
  <2>1. Form!IsPrefix(<<>>, Wire(formFile))
    <3>1. Wire(formFile) \in Seq(Bytes)
      BY Wires DEF Form!Init, Wire
    <3>2. Len(Wire(formFile)) >= 0 /\ SubSeq(Wire(formFile), 1, 0) = <<>> /\ SubSeq(<<>>, 1, 0) = <<>> /\ Len(<<>>) = 0
      BY <3>1, SubSeqEmpty
    <3>. QED BY <3>2 DEF Form!IsPrefix
  <2>2. formStage = "head" /\ formStatus = "none" /\ formGiven = <<>>
    BY DEF Form!Init
  <2>. QED BY <2>1, <2>2 DEF PartInv
<1>. QED BY <1>1, <1>2, <1>3 DEF FormInv

\* Every step of the browser, the connection and the parser keeps the invariant.
LEMMA FormStays == ASSUME Form!Forms, Form!Apart, FormInv, Form!Next PROVE FormInv'
<1>0. /\ FormType /\ ToldInv /\ (~formLate => PartInv)
      /\ formFile \in Files /\ formArrived \in Nat /\ formGot \in Nat /\ formGot <= formArrived /\ formArrived <= Len(Wire(formFile))
      /\ Len(Wire(formFile)) \in Nat /\ Form!Stream = Wire(formFile)
      /\ formBuf \in Seq(Bytes) /\ formGiven \in Seq(Bytes) /\ formEndBuf \in Seq(Bytes) /\ formHeld \in Bytes /\ Taken \in Seq(Bytes)
  <2>1. FormInv => FormType /\ ToldInv /\ (~formLate => PartInv)
    BY DEF FormInv
  <2>2. Form!Stream \in Seq(Bytes) /\ Form!Stream = Wire(formFile)
    BY <2>1, Wires DEF FormInv, FormType, Form!Stream, Wire
  <2>3. formBuf \in Seq(Bytes) /\ formGiven \in Seq(Bytes) /\ formEndBuf \in Seq(Bytes) /\ formHeld \in Bytes /\ formFile \in Files
    BY <2>1 DEF FormType
  <2>4. Taken \in Seq(Bytes)
    BY <2>3 DEF Taken
  <2>5. Len(Form!Stream) \in Nat
    BY <2>2
  <2>. QED BY <2>1, <2>2, <2>3, <2>4, <2>5 DEF FormType
<1>00. formFile' = formFile /\ Form!Stream' = Wire(formFile) /\ Wire(formFile)' = Wire(formFile) /\ \A n : Part(formFile, n)' = Part(formFile, n)
  <2>1. formFile' = formFile
    BY DEF Form!Next, Form!Parser, Form!Parse, Form!Timeouts, Form!Arrive, Form!Close, Form!PartHead, Form!NoPartHead, Form!NextByte, Form!FileByte, Form!LineFeed, Form!FirstDash,
           Form!SecondDash, Form!Expect, Form!BoundaryByte, Form!BoundaryLate, Form!FileEnds, Form!NoBoundary, Form!LastLine, Form!LastLineLate, Form!wire
  <2>. QED BY <2>1 DEF Form!Stream, Wire, Part
<1>. USE <1>0, <1>00
<1>1. CASE Form!Arrive
  <2>1. FormType'
    BY <1>1 DEF Form!Arrive, FormType, Form!upload
  <2>2. ToldInv'
    BY <1>1 DEF Form!Arrive, ToldInv, Form!upload
  <2>3. ASSUME ~formLate, PartInv PROVE PartInv'
    BY <1>1, <2>3 DEF Form!Arrive, PartInv, Form!upload, Taken, Form!Connected
  <2>. QED BY <1>1, <2>1, <2>2, <2>3 DEF FormInv, Form!Arrive
<1>2. CASE Form!Close
  <2>1. FormType'
    BY <1>2 DEF Form!Close, FormType, Form!upload
  <2>2. ToldInv'
    BY <1>2 DEF Form!Close, ToldInv, Form!upload
  <2>3. ASSUME ~formLate, PartInv PROVE PartInv'
    BY <1>2, <2>3 DEF Form!Close, PartInv, Form!upload, Taken, Form!Connected, Form!HasByte
  <2>. QED BY <1>2, <2>1, <2>2, <2>3 DEF FormInv, Form!Close
<1>3. CASE Form!PartHead
  <2>1. FormType'
    BY <1>3 DEF Form!PartHead, FormType, Form!wire
  <2>2. ToldInv'
    BY <1>3 DEF Form!PartHead, ToldInv
  <2>3. ASSUME ~formLate, PartInv PROVE PartInv'
    <3>1. formGiven = <<>> /\ formBuf = <<>> /\ formGot = 0 /\ formStage' = "next" /\ formStatus' = "begun" /\ UNCHANGED <<formGiven, formBuf, formGot>>
      BY <1>3 DEF Form!PartHead, ToldInv
    <3>2. <<>> \o <<>> = <<>> /\ Part(formFile, 0) = <<>>
      <4>1. SubSeq(Wire(formFile), 1, 0) = <<>>
        BY SubSeqEmpty
      <4>. QED BY <4>1 DEF Part
    <3>. QED BY <2>3, <3>1, <3>2 DEF PartInv, Taken
  <2>. QED BY <1>3, <2>1, <2>2, <2>3 DEF FormInv, Form!PartHead
<1>4. CASE Form!NoPartHead
  <2>1. FormType'
    BY <1>4 DEF Form!NoPartHead, FormType, Form!wire, Form!upload
  <2>2. ToldInv'
    BY <1>4 DEF Form!NoPartHead, ToldInv, Form!upload
  <2>. QED BY <1>4, <2>1, <2>2 DEF FormInv, Form!NoPartHead
<1>5. CASE Form!NextByte
  <2>1. /\ formGot' \in 0 .. formArrived /\ formHeld' \in Bytes /\ formStage = "next" /\ formStage' = "file" /\ formHeld' = Form!Byte
        /\ UNCHANGED <<formFile, formArrived, formConn, formEndBuf, formBuf, formGiven, formStatus, formLate>>
    BY <1>5, ReadGives DEF Form!NextByte, Form!wire, Form!upload
  <2>2. FormType'
    BY <2>1 DEF FormType
  <2>3. ToldInv'
    BY <2>1 DEF ToldInv
  <2>4. ASSUME ~formLate, PartInv PROVE PartInv'
    <3>1. Taken = Part(formFile, formGot)
      BY <2>1, <2>4 DEF PartInv
    <3>2. Taken \o <<formHeld'>> = Part(formFile, formGot') \/ (formHeld' # "r" /\ ~Form!Connected' /\ Taken = Part(formFile, formGot'))
      <4>1. CASE Form!HasByte
        BY <1>5, <2>1, <3>1, <4>1, ReadGives DEF Form!NextByte
      <4>2. CASE ~Form!HasByte
        <5>1. ~Form!Connected /\ Form!Byte = "255" /\ formGot' = formGot
          BY <1>5, <4>2, ReadGives DEF Form!NextByte
        <5>2. Form!Connected' = Form!Connected
          BY <2>1, <5>1 DEF Form!Connected, Form!HasByte
        <5>. QED BY <2>1, <3>1, <5>1, <5>2
      <4>. QED BY <4>1, <4>2
    <3>. QED BY <2>1, <2>4, <3>2 DEF PartInv, Taken
  <2>. QED BY <2>1, <2>2, <2>3, <2>4 DEF FormInv
<1>6. CASE Form!FileByte
  <2>1. formStage = "file" /\ formHeld # "r" /\ UNCHANGED <<formFile, formArrived, formConn, formGot, formHeld, formEndBuf, formLate>>
    BY <1>6 DEF Form!FileByte, Form!wire
  <2>2. CASE Form!Connected
    <3>1. Form!Write(<<formHeld>>) /\ formStage' = "next" /\ formStatus' = formStatus
      BY <1>6, <2>2 DEF Form!FileByte
    <3>2. formGiven' \in Seq(Bytes) /\ formBuf' \in Seq(Bytes) /\ formGiven' \o formBuf' = Taken \o <<formHeld>>
      <4>1. <<formHeld>> \in Seq(Bytes)
        OBVIOUS
      <4>. QED BY <3>1, <4>1, FormWriteKeeps
    <3>3. FormType'
      BY <2>1, <3>1, <3>2 DEF FormType
    <3>4. ToldInv'
      BY <2>1, <3>1 DEF ToldInv
    <3>5. ASSUME ~formLate, PartInv PROVE PartInv'
      <4>1. formGiven' \o formBuf' = Part(formFile, formGot)
        BY <2>1, <2>2, <3>2, <3>5 DEF PartInv
      <4>2. Form!IsPrefix(formGiven', Wire(formFile))
        BY ONLY Form!Forms, Form!Apart, formFile \in Files, formGot \in 0 .. Len(Wire(formFile)), <3>2, <4>1, PartIsPrefix
      <4>3. formStatus # "end"
        BY <2>1 DEF ToldInv
      <4>. QED BY <2>1, <3>1, <4>1, <4>2, <4>3 DEF PartInv, Taken
    <3>. QED BY <2>1, <3>3, <3>4, <3>5 DEF FormInv
  <2>3. CASE ~Form!Connected
    <3>1. formStage' = "over" /\ formStatus' = "aborted" /\ UNCHANGED <<formBuf, formGiven>>
      BY <1>6, <2>3 DEF Form!FileByte, Form!Abort
    <3>2. FormType'
      BY <2>1, <3>1 DEF FormType
    <3>3. ToldInv'
      BY <2>1, <3>1 DEF ToldInv
    <3>4. ASSUME ~formLate, PartInv PROVE PartInv'
      BY <2>1, <3>1, <3>4 DEF PartInv
    <3>. QED BY <2>1, <3>2, <3>3, <3>4 DEF FormInv
  <2>. QED BY <2>2, <2>3
<1>7. ASSUME NEW byte, NEW then \in {"lf", "dash", "boundary"}, NEW back \in Seq(Bytes), NEW on \in Seq(Bytes),
             formStage \in {"file", "lf", "dash"}, Form!Expect(byte, then, back), back \o <<byte>> = on,
             ~formLate /\ PartInv => Taken \o back = Part(formFile, formGot),
             then = "lf" => on = <<"r", "n">>, then = "dash" => on = <<"r", "n", "-">>,
             then = "boundary" => on = <<"r", "n", "-", "-">>
      PROVE  FormInv'
  <2>1. /\ formGot' \in 0 .. formArrived /\ UNCHANGED <<formFile, formArrived, formConn, formEndBuf, formLate>>
        /\ formEndBuf = <<>> /\ formStatus \in {"none", "begun"}
    BY <1>7, ExpectKeeps DEF Form!wire, ToldInv
  <2>2. CASE formStage' = "over" /\ formStatus' = "aborted" /\ UNCHANGED <<formHeld, formBuf, formGiven>>
    <3>1. FormType'
      BY <2>1, <2>2 DEF FormType
    <3>2. ToldInv'
      BY <2>1, <2>2 DEF ToldInv
    <3>3. ASSUME ~formLate, PartInv PROVE PartInv'
      BY <2>1, <2>2, <3>3 DEF PartInv
    <3>. QED BY <2>1, <3>1, <3>2, <3>3 DEF FormInv
  <2>3. CASE /\ formStage' = then /\ formStatus' = formStatus /\ UNCHANGED <<formHeld, formBuf, formGiven>>
             /\ Taken \o back = Part(formFile, formGot) => Taken \o on = Part(formFile, formGot')
    <3>1. FormType'
      BY <1>7, <2>1, <2>3 DEF FormType
    <3>2. ToldInv'
      BY <1>7, <2>1, <2>3 DEF ToldInv
    <3>3. ASSUME ~formLate, PartInv PROVE PartInv'
      <4>1. Taken \o on = Part(formFile, formGot') /\ Taken' = Taken /\ Form!IsPrefix(formGiven, Wire(formFile))
        BY <1>7, <2>3, <3>3 DEF Taken, PartInv
      <4>2. then = "boundary" => (Taken \o <<"r", "n", "-", "-">>) \o <<>> = Taken \o <<"r", "n", "-", "-">>
        <5>1. then = "boundary" => Taken \o <<"r", "n", "-", "-">> \in Seq(Bytes)
          <6>1. Taken \o on \in Seq(Bytes)
            BY ONLY Taken \in Seq(Bytes), on \in Seq(Bytes)
          <6>. QED BY <1>7, <6>1
        <5>. QED BY <5>1, ConcatEmptySeq
      <4>3. formStage' \in {"lf", "dash", "boundary"} /\ formStage' = then /\ formEndBuf' = <<>> /\ formGiven' = formGiven /\ formStatus' \in {"none", "begun"}
        BY <1>7, <2>1, <2>3
      <4>4. formStage' = "lf" => Taken' \o <<"r", "n">> = Part(formFile, formGot')
        BY <1>7, <4>1, <4>3
      <4>5. formStage' = "dash" => Taken' \o <<"r", "n", "-">> = Part(formFile, formGot')
        BY <1>7, <4>1, <4>3
      <4>6. formStage' = "boundary" => (Taken' \o <<"r", "n", "-", "-">>) \o formEndBuf' = Part(formFile, formGot')
        BY <1>7, <4>1, <4>2, <4>3
      <4>. QED BY <4>1, <4>3, <4>4, <4>5, <4>6 DEF PartInv
    <3>. QED BY <2>1, <3>1, <3>2, <3>3 DEF FormInv
  <2>4. CASE /\ formStage' = "file" /\ formStatus' = formStatus /\ formHeld' \in Bytes
             /\ formGiven' \in Seq(Bytes) /\ formBuf' \in Seq(Bytes)
             /\ Taken \o back = Part(formFile, formGot) =>
                  formGiven' \o formBuf' = Taken \o back /\ (formGiven' \o formBuf') \o <<formHeld'>> = Part(formFile, formGot')
    <3>1. FormType'
      BY <2>1, <2>4 DEF FormType
    <3>2. ToldInv'
      BY <2>1, <2>4 DEF ToldInv
    <3>3. ASSUME ~formLate, PartInv PROVE PartInv'
      <4>1. formGiven' \o formBuf' = Part(formFile, formGot) /\ (formGiven' \o formBuf') \o <<formHeld'>> = Part(formFile, formGot')
        BY <1>7, <2>4, <3>3
      <4>2. Form!IsPrefix(formGiven', Wire(formFile))
        BY ONLY Form!Forms, Form!Apart, formFile \in Files, formGot \in 0 .. Len(Wire(formFile)), <2>4, <4>1, PartIsPrefix
      <4>. QED BY <2>1, <2>4, <4>1, <4>2 DEF PartInv, Taken
    <3>. QED BY <2>1, <3>1, <3>2, <3>3 DEF FormInv
  <2>. QED BY <1>7, <2>2, <2>3, <2>4, ExpectKeeps
<1>8. /\ <<"r">> \in Seq(Bytes) /\ <<"r", "n">> \in Seq(Bytes) /\ <<"r", "n", "-">> \in Seq(Bytes)
      /\ <<"r", "n", "-", "-">> \in Seq(Bytes)
      /\ <<"r">> \o <<"n">> = <<"r", "n">> /\ <<"r", "n">> \o <<"-">> = <<"r", "n", "-">>
      /\ <<"r", "n", "-">> \o <<"-">> = <<"r", "n", "-", "-">>
  <2>1. "r" \in Bytes /\ "n" \in Bytes /\ "-" \in Bytes
    BY DEF Bytes
  <2>2. <<"r">> \in Seq(Bytes) /\ <<"r", "n">> \in Seq(Bytes)
    BY ONLY <2>1
  <2>3. <<"r", "n", "-">> \in Seq(Bytes) /\ <<"r", "n", "-", "-">> \in Seq(Bytes)
    BY ONLY <2>1
  <2>4. <<"r">> \o <<"n">> = <<"r", "n">>
    BY Marks
  <2>5. <<"r", "n">> \o <<"-">> = <<"r", "n", "-">>
    BY Marks
  <2>6. <<"r", "n", "-">> \o <<"-">> = <<"r", "n", "-", "-">>
    BY LastMark
  <2>. QED BY <2>2, <2>3, <2>4, <2>5, <2>6
<1>9. CASE Form!LineFeed
  <2>1. formStage = "file" /\ formHeld = "r" /\ Form!Expect("n", "lf", <<"r">>)
    BY <1>9 DEF Form!LineFeed, Form!BackCR
  <2>2. ~formLate /\ PartInv => Taken \o <<"r">> = Part(formFile, formGot)
    BY <2>1 DEF PartInv
  <2>. QED BY <1>7, <1>8, <2>1, <2>2
<1>10. CASE Form!FirstDash
  <2>1. formStage = "lf" /\ Form!Expect("-", "dash", <<"r", "n">>)
    BY <1>10 DEF Form!FirstDash
  <2>2. ~formLate /\ PartInv => Taken \o <<"r", "n">> = Part(formFile, formGot)
    BY <2>1 DEF PartInv
  <2>. QED BY <1>7, <1>8, <2>1, <2>2
<1>11. CASE Form!SecondDash
  <2>1. formStage = "dash" /\ Form!Expect("-", "boundary", <<"r", "n", "-">>)
    BY <1>11 DEF Form!SecondDash
  <2>2. ~formLate /\ PartInv => Taken \o <<"r", "n", "-">> = Part(formFile, formGot)
    BY <2>1 DEF PartInv
  <2>. QED BY <1>7, <1>8, <2>1, <2>2
<1>12. CASE Form!BoundaryByte
  <2>1. /\ formStage = "boundary" /\ Form!HasByte /\ formEndBuf' = Append(formEndBuf, Form!Byte) /\ formGot' = formGot + 1
        /\ UNCHANGED <<formFile, formArrived, formConn, formStage, formHeld, formBuf, formGiven, formStatus, formLate>>
    BY <1>12 DEF Form!BoundaryByte, Form!wire, Form!upload
  <2>2. formGot' \in 0 .. formArrived /\ Form!Byte \in Bytes /\ Part(formFile, formGot') = Part(formFile, formGot) \o <<Form!Byte>>
    <3>1. Form!Read
      BY <2>1 DEF Form!Read, Form!Readable
    <3>. QED BY <2>1, <3>1, ReadGives
  <2>3. formEndBuf' \in Seq(Bytes) /\ formEndBuf' = formEndBuf \o <<Form!Byte>>
    <3>1. Append(formEndBuf, Form!Byte) = formEndBuf \o <<Form!Byte>>
      BY <2>2
    <3>2. Append(formEndBuf, Form!Byte) \in Seq(Bytes)
      BY <2>2
    <3>. QED BY <2>1, <3>1, <3>2
  <2>4. FormType'
    BY <2>1, <2>2, <2>3 DEF FormType
  <2>5. ToldInv'
    BY <2>1 DEF ToldInv
  <2>6. ASSUME ~formLate, PartInv PROVE PartInv'
    <3>. DEFINE x == Taken \o <<"r", "n", "-", "-">>
                y == <<Form!Byte>>
    <3>1. x \in Seq(Bytes) /\ y \in Seq(Bytes)
      BY <1>8, <2>2
    <3>2. x \o formEndBuf = Part(formFile, formGot) /\ x' = x
      BY <2>1, <2>6 DEF PartInv, Taken
    <3>3. formEndBuf' = formEndBuf \o y /\ Part(formFile, formGot') = Part(formFile, formGot) \o y
      BY <2>2, <2>3
    <3>. HIDE DEF x, y
    <3>4. x \o (formEndBuf \o y) = (x \o formEndBuf) \o y
      BY ONLY <3>1, formEndBuf \in Seq(Bytes), Regroup
    <3>5. x' \o formEndBuf' = Part(formFile, formGot')
      BY <3>2, <3>3, <3>4
    <3>. QED BY <2>1, <2>6, <3>5 DEF PartInv, x
  <2>. QED BY <2>1, <2>4, <2>5, <2>6 DEF FormInv
<1>13. CASE Form!BoundaryLate
  <2>1. /\ formStage = "boundary" /\ formLate' /\ UNCHANGED <<formFile, formArrived, formConn, formGot, formStage, formHeld, formBuf, formGiven, formStatus>>
        /\ formEndBuf' = formEndBuf \o [i \in 1 .. Len(Boundary) - Len(formEndBuf) |-> "stack"] /\ Len(formEndBuf) < Len(Boundary)
    BY <1>13 DEF Form!BoundaryLate, Form!wire, Form!upload
  <2>2. formEndBuf' \in Seq(Bytes)
    <3>1. Len(Boundary) \in Nat /\ "stack" \in Bytes
      BY Wires DEF Bytes
    <3>. DEFINE m == Len(Boundary) - Len(formEndBuf)
    <3>2. m \in Nat
      BY <2>1, <3>1
    <3>. HIDE DEF m
    <3>3. [i \in 1 .. m |-> "stack"] \in Seq(Bytes)
      BY <3>1, <3>2
    <3>4. formEndBuf \o [i \in 1 .. m |-> "stack"] \in Seq(Bytes)
      BY ONLY formEndBuf \in Seq(Bytes), <3>3
    <3>. QED BY <2>1, <3>4 DEF m
  <2>3. FormType'
    BY <2>1, <2>2 DEF FormType
  <2>4. ToldInv'
    BY <2>1 DEF ToldInv
  <2>. QED BY <2>1, <2>3, <2>4 DEF FormInv
<1>14. CASE Form!FileEnds
  <2>1. /\ formStage = "boundary" /\ formEndBuf = Boundary /\ formGiven' = formGiven \o formBuf /\ formBuf' = <<>> /\ formStatus' = "end"
        /\ formStage' = "tail" /\ UNCHANGED <<formFile, formArrived, formConn, formGot, formHeld, formEndBuf, formLate>>
    BY <1>14 DEF Form!FileEnds, Form!wire
  <2>2. formGiven' = Taken /\ formGiven' \in Seq(Bytes) /\ formBuf' \in Seq(Bytes)
    BY <2>1 DEF Taken
  <2>3. FormType'
    BY <2>1, <2>2 DEF FormType
  <2>4. ToldInv'
    BY <2>1 DEF ToldInv
  <2>5. ASSUME ~formLate, PartInv PROVE PartInv'
    <3>. DEFINE y == <<"r", "n", "-", "-">>
    <3>1. (Taken \o y) \o Boundary = Part(formFile, formGot)
      BY <2>1, <2>5 DEF PartInv
    <3>2. y \in Seq(Bytes) /\ Boundary \in Seq(Bytes)
      BY <1>8, <2>1
    <3>3. Form!Mark = y \o Boundary
      BY DEF Form!Mark
    <3>. HIDE DEF y
    <3>4. (Taken \o y) \o Boundary = Taken \o (y \o Boundary)
      BY <3>2, Regroup
    <3>5. Taken \o Form!Mark = Part(formFile, formGot) /\ formGot \in 0 .. Len(Form!Stream)
      BY <3>1, <3>3, <3>4
    <3>6. Taken = formFile
      BY <3>5, MarkOnce
    <3>7. Form!IsPrefix(formGiven', Wire(formFile))
      <4>1. y \o Boundary \in Seq(Bytes)
        BY <3>2
      <4>. QED BY <2>2, <3>3, <3>5, <4>1, PartIsPrefix
    <3>. QED BY <2>1, <2>2, <3>6, <3>7 DEF PartInv
  <2>. QED BY <2>1, <2>3, <2>4, <2>5 DEF FormInv
<1>15. CASE Form!NoBoundary
  <2>1. /\ formStage = "boundary" /\ Form!Write(<<"r", "n", "-", "-">> \o formEndBuf) /\ formEndBuf' = <<>> /\ formStage' = "next"
        /\ UNCHANGED <<formFile, formArrived, formConn, formGot, formHeld, formStatus, formLate>>
    BY <1>15 DEF Form!NoBoundary, Form!wire
  <2>. DEFINE y == <<"r", "n", "-", "-">>
  <2>2. y \in Seq(Bytes) /\ Form!Write(y \o formEndBuf)
    BY <1>8, <2>1
  <2>. HIDE DEF y
  <2>3. y \o formEndBuf \in Seq(Bytes)
    BY <2>2
  <2>4. formGiven' \in Seq(Bytes) /\ formBuf' \in Seq(Bytes) /\ formGiven' \o formBuf' = Taken \o (y \o formEndBuf)
    BY <2>2, <2>3, FormWriteKeeps
  <2>5. FormType'
    BY <2>1, <2>4 DEF FormType
  <2>6. ToldInv'
    BY <2>1 DEF ToldInv
  <2>7. ASSUME ~formLate, PartInv PROVE PartInv'
    <3>1. (Taken \o y) \o formEndBuf = Part(formFile, formGot)
      BY <2>1, <2>7 DEF PartInv, y
    <3>2. (Taken \o y) \o formEndBuf = Taken \o (y \o formEndBuf)
      BY <2>2, Regroup
    <3>3. formGiven' \o formBuf' = Part(formFile, formGot)
      BY <2>4, <3>1, <3>2
    <3>4. Form!IsPrefix(formGiven', Wire(formFile))
      BY ONLY Form!Forms, Form!Apart, formFile \in Files, formGot \in 0 .. Len(Wire(formFile)), <2>4, <3>3, PartIsPrefix
    <3>5. formStatus # "end"
      BY <2>1 DEF ToldInv
    <3>. QED BY <2>1, <3>3, <3>4, <3>5 DEF PartInv, Taken
  <2>. QED BY <2>1, <2>5, <2>6, <2>7 DEF FormInv
<1>16. CASE Form!LastLine
  <2>1. /\ formStage = "tail" /\ formArrived = Len(Form!Stream) /\ formGot' = formArrived /\ formStage' = "over"
        /\ UNCHANGED <<formFile, formArrived, formConn, formHeld, formEndBuf, formBuf, formGiven, formStatus, formLate>>
    BY <1>16 DEF Form!LastLine, Form!wire, Form!upload
  <2>2. FormType'
    BY <2>1 DEF FormType
  <2>3. ToldInv'
    BY <2>1 DEF ToldInv
  <2>4. ASSUME ~formLate, PartInv PROVE PartInv'
    BY <2>1, <2>4 DEF PartInv
  <2>. QED BY <2>1, <2>2, <2>3, <2>4 DEF FormInv
<1>17. CASE Form!LastLineLate
  <2>1. FormType'
    BY <1>17 DEF Form!LastLineLate, FormType, Form!wire, Form!upload
  <2>2. ToldInv'
    BY <1>17 DEF Form!LastLineLate, ToldInv, Form!upload
  <2>. QED BY <1>17, <2>1, <2>2 DEF FormInv, Form!LastLineLate
<1>. QED BY <1>1, <1>2, <1>3, <1>4, <1>5, <1>6, <1>9, <1>10, <1>11, <1>12, <1>13, <1>14, <1>15, <1>16, <1>17
         DEF Form!Next, Form!Parser, Form!Parse, Form!Timeouts

LEMMA FormSame == ASSUME FormInv, UNCHANGED Form!vars PROVE FormInv'
<1>. QED BY DEF Form!vars, Form!wire, Form!upload, FormInv, FormType, ToldInv, PartInv, Taken, Part, Wire, Form!Stream, Form!Connected, Form!HasByte

LEMMA FormGives == ASSUME FormInv PROVE Form!FileKept /\ Form!EndOrAbort
<1>1. Form!Stream = Wire(formFile)
  BY DEF Form!Stream, Wire
<1>. QED BY <1>1 DEF FormInv, Form!FileKept, Form!EndOrAbort, PartInv, ToldInv

-----------------------------------------------------------------------------
(* TestFrame: the channels of a test frame *)

frameDmx     == x1
frameOutput  == x2
frameRequest == x3

USE DEF frameDmx, frameOutput, frameRequest

\* The frame after the overrides whose places are in a set, the last of them last.
Overrides(g, len, d, s) ==
  g = [t \in SUBSET (DOMAIN s) |-> IF t = {} THEN d ELSE Frame!Set(len, g[t \ {Frame!Max(t)}], s[Frame!Max(t)])]

LEMMA MaxIs == ASSUME NEW n \in Nat, NEW t \in SUBSET (1 .. n), n \in t PROVE Frame!Max(t) = n
<1>1. \A x \in t : (\A y \in t : x >= y) <=> x = n
  OBVIOUS
<1>. QED BY <1>1 DEF Frame!Max

LEMMA OverridesExist ==
  ASSUME NEW len, NEW d, NEW s \in Seq(Int \X Int)
  PROVE  \E g : Overrides(g, len, d, s)
<1>. DEFINE UpTo(n, g) == \A t \in SUBSET (1 .. n) :
                            g[t] = IF t = {} THEN d ELSE Frame!Set(len, g[t \ {Frame!Max(t)}], s[Frame!Max(t)])
            Bad == {n \in 0 .. Len(s) : ~\E g : UpTo(n, g)}
<1>1. Bad = {}
  <2>. SUFFICES ASSUME Bad # {} PROVE FALSE
    OBVIOUS
  <2>. Bad \in SUBSET Nat
    OBVIOUS
  <2>. HIDE DEF Bad
  <2>1. PICK n \in Bad : \A m \in Bad : n <= m
    BY HasLeast
  <2>2. n \in 0 .. Len(s) /\ ~\E g : UpTo(n, g)
    BY <2>1 DEF Bad
  <2>3. n > 0 => n - 1 \in 0 .. Len(s) /\ n - 1 \notin Bad
    <3>. HIDE DEF UpTo
    <3>. QED BY <2>1, <2>2
  <2>4. CASE n = 0
    <3>. DEFINE g == [t \in {{}} |-> d]
    <3>1. UpTo(n, g)
      BY <2>4
    <3>. QED BY <2>2, <3>1
  <2>5. CASE n > 0
    <3>1. PICK f : UpTo(n - 1, f)
      BY <2>3, <2>5 DEF Bad
    <3>. DEFINE g == [t \in SUBSET (1 .. n) |-> IF n \in t THEN Frame!Set(len, f[t \ {n}], s[n]) ELSE f[t]]
    <3>0. \A t \in SUBSET (1 .. n) : g[t] = IF n \in t THEN Frame!Set(len, f[t \ {n}], s[n]) ELSE f[t]
      OBVIOUS
    <3>. HIDE DEF g
    <3>2. ASSUME NEW t \in SUBSET (1 .. n)
          PROVE  g[t] = IF t = {} THEN d ELSE Frame!Set(len, g[t \ {Frame!Max(t)}], s[Frame!Max(t)])
      <4>1. CASE n \in t
        <5>1. Frame!Max(t) = n
          BY <2>2, <4>1, MaxIs
        <5>2. t \ {n} \in SUBSET (1 .. n) /\ n \notin t \ {n}
          OBVIOUS
        <5>3. g[t \ {n}] = f[t \ {n}] /\ g[t] = Frame!Set(len, f[t \ {n}], s[n])
          BY <3>0, <4>1, <5>2
        <5>. QED BY <4>1, <5>1, <5>3
      <4>2. CASE n \notin t
        <5>1. t \in SUBSET (1 .. n - 1)
          <6>1. n \in Nat /\ \A i \in 1 .. n : i # n => i \in 1 .. n - 1
            BY <2>2
          <6>. QED BY <4>2, <6>1, Zenon
        <5>2. t \ {Frame!Max(t)} \in SUBSET (1 .. n) /\ n \notin t \ {Frame!Max(t)}
          BY <4>2, Zenon
        <5>3. g[t \ {Frame!Max(t)}] = f[t \ {Frame!Max(t)}] /\ g[t] = f[t]
          BY <3>0, <4>2, <5>2
        <5>4. f[t] = IF t = {} THEN d ELSE Frame!Set(len, f[t \ {Frame!Max(t)}], s[Frame!Max(t)])
          BY <3>1, <5>1
        <5>. QED BY <5>3, <5>4
      <4>. QED BY <4>1, <4>2
    <3>3. UpTo(n, g)
      BY <3>2
    <3>. QED BY <2>2, <3>3
  <2>. QED BY <2>2, <2>4, <2>5
<1>2. Len(s) \in 0 .. Len(s) /\ DOMAIN s = 1 .. Len(s)
  OBVIOUS
<1>3. PICK f : UpTo(Len(s), f)
  BY <1>1, <1>2
<1>. DEFINE g == [t \in SUBSET (DOMAIN s) |-> f[t]]
<1>4. ASSUME NEW t \in SUBSET (DOMAIN s)
      PROVE  g[t] = IF t = {} THEN d ELSE Frame!Set(len, g[t \ {Frame!Max(t)}], s[Frame!Max(t)])
  <2>1. t \ {Frame!Max(t)} \in SUBSET (DOMAIN s)
    OBVIOUS
  <2>2. g[t \ {Frame!Max(t)}] = f[t \ {Frame!Max(t)}] /\ g[t] = f[t]
    BY <2>1
  <2>3. f[t] = IF t = {} THEN d ELSE Frame!Set(len, f[t \ {Frame!Max(t)}], s[Frame!Max(t)])
    BY <1>2, <1>3
  <2>. HIDE DEF g
  <2>. QED BY <2>2, <2>3
<1>5. g = [t \in SUBSET (DOMAIN s) |-> g[t]]
  OBVIOUS
<1>. HIDE DEF g
<1>6. Overrides(g, len, d, s)
  BY <1>4, <1>5 DEF Overrides
<1>. QED BY <1>6

\* What the list gives a channel by its first k entries, or the fill.
WantedBy(k, s, fill, ch) ==
  LET of == {i \in 1 .. k : s[i][1] = ch}
  IN  IF of = {} THEN fill ELSE Frame!Constrain(s[CHOOSE i \in of : \A j \in of : j <= i][2], 0, FullScale)

LEMMA WantedNext ==
  ASSUME NEW k \in Nat, NEW s, NEW fill, NEW ch
  PROVE  WantedBy(k + 1, s, fill, ch) = IF s[k + 1][1] = ch THEN Frame!Constrain(s[k + 1][2], 0, FullScale)
                                        ELSE WantedBy(k, s, fill, ch)
<1>. DEFINE of == {i \in 1 .. k + 1 : s[i][1] = ch}
<1>1. CASE s[k + 1][1] = ch
  <2>1. k + 1 \in of /\ \A i \in of : (\A j \in of : j <= i) <=> i = k + 1
    BY <1>1
  <2>2. (CHOOSE i \in of : \A j \in of : j <= i) = k + 1
    <3>. HIDE DEF of
    <3>. QED BY <2>1
  <2>. QED BY <1>1, <2>1, <2>2 DEF WantedBy
<1>2. CASE s[k + 1][1] # ch
  <2>. DEFINE before == {i \in 1 .. k : s[i][1] = ch}
              last(T) == IF T = {} THEN fill ELSE Frame!Constrain(s[CHOOSE i \in T : \A j \in T : j <= i][2], 0, FullScale)
  <2>1. of = before
    BY <1>2
  <2>2. WantedBy(k + 1, s, fill, ch) = last(of) /\ WantedBy(k, s, fill, ch) = last(before)
    BY DEF WantedBy
  <2>. HIDE DEF of, before, last
  <2>. QED BY <1>2, <2>1, <2>2
<1>. QED BY <1>1, <1>2

LEMMA BuiltIs ==
  ASSUME Frame!Widths, NEW d \in [1 .. Channels -> Int], NEW r, r.len \in 1 .. Channels, r.fill \in Int, r.set \in Seq(Int \X Int)
  PROVE  /\ Frame!Built(d, r) \in [1 .. Channels -> Int]
         /\ \A ch \in 1 .. r.len : Frame!Built(d, r)[ch] = WantedBy(Len(r.set), r.set, r.fill, ch)
<1>. DEFINE s == r.set
            n == r.len
            d0 == Frame!Filled(d, r.fill, r.len)
            g == CHOOSE f : Overrides(f, n, d0, s)
<1>1. Frame!Built(d, r) = g[DOMAIN s]
  BY DEF Frame!Built, Frame!FoldLeft, Frame!MapThenFoldSet, Overrides
<1>2. Overrides(g, n, d0, s)
  <2>1. s \in Seq(Int \X Int)
    OBVIOUS
  <2>. HIDE DEF s, d0, n
  <2>. QED BY <2>1, OverridesExist
<1>3. d0 \in [1 .. Channels -> Int] /\ \A ch \in 1 .. n : d0[ch] = r.fill
  BY DEF Frame!Filled, Frame!Widths
<1>4. n \in 1 .. Channels /\ s \in Seq(Int \X Int) /\ DOMAIN s = 1 .. Len(s) /\ Len(s) \in Nat /\ Channels \in Nat /\ FullScale \in Nat
  BY DEF Frame!Widths
<1>. DEFINE Right(k) == /\ g[1 .. k] \in [1 .. Channels -> Int]
                        /\ \A ch \in 1 .. n : g[1 .. k][ch] = WantedBy(k, s, r.fill, ch)
            Bad == {k \in 0 .. Len(s) : ~Right(k)}
<1>. HIDE DEF g, d0, s, n
<1>5. Bad = {}
  <2>. SUFFICES ASSUME Bad # {} PROVE FALSE
    OBVIOUS
  <2>. Bad \in SUBSET Nat
    OBVIOUS
  <2>. HIDE DEF Bad
  <2>1. PICK k \in Bad : \A m \in Bad : k <= m
    BY HasLeast
  <2>. HIDE DEF Right
  <2>2. k \in 0 .. Len(s) /\ ~Right(k) /\ (k > 0 => k - 1 \in 0 .. Len(s) /\ Right(k - 1))
    BY <1>4, <2>1 DEF Bad
  <2>3. CASE k = 0
    <3>1. 1 .. k = {} /\ {} \in SUBSET (DOMAIN s)
      BY <2>3
    <3>2. g[1 .. k] = d0
      BY <1>2, <3>1 DEF Overrides
    <3>3. \A ch : WantedBy(0, s, r.fill, ch) = r.fill
      BY DEF WantedBy
    <3>. QED BY <1>3, <2>2, <2>3, <3>2, <3>3 DEF Right
  <2>4. CASE k > 0
    <3>1. 1 .. k \in SUBSET (DOMAIN s) /\ k \in 1 .. k /\ 1 .. k # {} /\ (1 .. k) \ {k} = 1 .. (k - 1) /\ k - 1 + 1 = k
      <4>1. k \in Nat /\ k <= Len(s)
        BY <1>4, <2>2
      <4>2. (1 .. k) \ {k} = 1 .. (k - 1) /\ k \in 1 .. k /\ k - 1 + 1 = k
        BY <2>4, <4>1
      <4>3. \A i \in 1 .. k : i \in DOMAIN s
        BY <1>4, <4>1
      <4>. QED BY <4>2, <4>3
    <3>2. Frame!Max(1 .. k) = k
      BY <1>4, <2>2, <3>1, MaxIs
    <3>3. g[1 .. k] = Frame!Set(n, g[1 .. (k - 1)], s[k])
      BY <1>2, <3>1, <3>2 DEF Overrides
    <3>4. s[k] \in Int \X Int
      BY <1>4, <3>1
    <3>5. g[1 .. (k - 1)] \in [1 .. Channels -> Int] /\ \A ch \in 1 .. n : g[1 .. (k - 1)][ch] = WantedBy(k - 1, s, r.fill, ch)
      BY <2>2, <2>4 DEF Right
    <3>6. \A ch : WantedBy(k, s, r.fill, ch) = IF s[k][1] = ch THEN Frame!Constrain(s[k][2], 0, FullScale)
                                               ELSE WantedBy(k - 1, s, r.fill, ch)
      <4>. DEFINE j == k - 1
      <4>1. j \in Nat /\ j + 1 = k
        BY <1>4, <2>2, <2>4
      <4>. HIDE DEF j
      <4>2. \A ch : WantedBy(j + 1, s, r.fill, ch) = IF s[j + 1][1] = ch THEN Frame!Constrain(s[j + 1][2], 0, FullScale)
                                                      ELSE WantedBy(j, s, r.fill, ch)
        BY ONLY <4>1, WantedNext
      <4>. QED BY <4>1, <4>2 DEF j
    <3>. DEFINE e == g[1 .. (k - 1)]
                p == s[k]
    <3>7. Frame!Constrain(p[2], 0, FullScale) \in Int
      BY <1>4, <3>4 DEF Frame!Constrain
    <3>. HIDE DEF e, p
    <3>8. e \in [1 .. Channels -> Int]
      BY <3>5 DEF e
    <3>9. /\ Frame!Set(n, e, p) \in [1 .. Channels -> Int]
          /\ \A ch \in 1 .. n : Frame!Set(n, e, p)[ch] = IF p[1] = ch THEN Frame!Constrain(p[2], 0, FullScale) ELSE e[ch]
      <4>. DEFINE v == Frame!Constrain(p[2], 0, FullScale)
      <4>. HIDE DEF v
      <4>1. v \in Int /\ n \in Nat /\ n <= Channels /\ Frame!Set(n, e, p) = IF p[1] \in 1 .. n THEN [e EXCEPT ![p[1]] = v] ELSE e
        BY <1>4, <3>7 DEF Frame!Set, v
      <4>2. CASE p[1] \in 1 .. n
        <5>0. Frame!Set(n, e, p) = [e EXCEPT ![p[1]] = v] /\ 1 .. n \subseteq 1 .. Channels
          BY <1>4, <4>1, <4>2
        <5>1. Frame!Set(n, e, p) \in [1 .. Channels -> Int]
          BY <3>8, <4>1, <5>0
        <5>2. \A ch \in 1 .. n : Frame!Set(n, e, p)[ch] = IF p[1] = ch THEN v ELSE e[ch]
          BY <3>8, <5>0
        <5>. QED BY <5>1, <5>2 DEF v
      <4>3. CASE p[1] \notin 1 .. n
        BY <3>8, <4>1, <4>3
      <4>. QED BY <4>2, <4>3
    <3>. QED BY <2>2, <3>3, <3>5, <3>6, <3>9 DEF Right, e, p
  <2>. QED BY <2>2, <2>3, <2>4
<1>6. Right(Len(s))
  <2>1. Len(s) \in 0 .. Len(s)
    BY <1>4
  <2>. HIDE DEF Right
  <2>. QED BY <1>5, <2>1
<1>. QED BY <1>1, <1>4, <1>6 DEF s, n

\* The nodes show what the last request asked for.
FrameInv == /\ frameDmx \in [1 .. Channels -> Int] /\ DOMAIN frameOutput = Universe
            /\ Frame!FrameAsAsked

LEMMA FrameInit == ASSUME Frame!Widths, Frame!Init PROVE FrameInv
<1>1. frameRequest.universe \in Universe
  BY DEF Frame!Widths, Frame!Init
<1>2. \A ch : Frame!Wanted(ch) = 0
  <2>1. frameRequest.set = <<>> /\ frameRequest.fill = 0 /\ DOMAIN frameRequest.set = {}
    BY DEF Frame!Init
  <2>. QED BY <2>1 DEF Frame!Wanted
<1>3. frameOutput = [u \in Universe |-> Frame!Zero] /\ frameDmx = Frame!Zero /\ frameRequest.len = 2
  BY DEF Frame!Init
<1>4. 1 .. 2 \subseteq 1 .. Channels
  BY DEF Frame!Widths
<1>. QED BY <1>1, <1>2, <1>3, <1>4 DEF FrameInv, Frame!FrameAsAsked, Frame!Zero

LEMMA FrameStep == ASSUME Frame!Widths, FrameInv, Frame!Next PROVE FrameInv'
<1>1. PICK u \in Universe, l \in Asked, f \in Asked, s \in Pairs : Frame!apiPostArtDmx(u, l, f, s)
  BY DEF Frame!Next
<1>. DEFINE r == [universe |-> u, len |-> Frame!Constrain(l, 2, Channels), fill |-> Frame!Constrain(f, 0, FullScale), set |-> s]
<1>2. /\ frameDmx' = Frame!Built(frameDmx, r) /\ Frame!sendArtDmx(u, frameDmx', r.len) /\ frameRequest' = r
  BY <1>1 DEF Frame!apiPostArtDmx
<1>3. /\ r.len \in 1 .. Channels /\ r.fill \in Int /\ r.set = s /\ r.universe = u /\ s \in Seq(Int \X Int)
      /\ DOMAIN s = 1 .. Len(s) /\ Len(s) \in Nat
  BY DEF Frame!Constrain, Frame!Widths
<1>. HIDE DEF r
<1>4. /\ frameDmx' \in [1 .. Channels -> Int]
      /\ \A ch \in 1 .. r.len : frameDmx'[ch] = WantedBy(Len(s), s, r.fill, ch)
  <2>1. frameDmx \in [1 .. Channels -> Int] /\ r.len \in 1 .. Channels /\ r.fill \in Int /\ r.set \in Seq(Int \X Int)
    BY <1>3 DEF FrameInv
  <2>. QED BY <1>2, <1>3, <2>1, BuiltIs
<1>5. \A ch : Frame!Wanted(ch)' = WantedBy(Len(s), s, r.fill, ch)
  BY <1>2, <1>3 DEF Frame!Wanted, WantedBy
<1>6. DOMAIN frameOutput' = Universe /\ \A ch \in 1 .. r.len : frameOutput'[u][ch] = frameDmx'[ch]
  <2>1. r.len \in Nat /\ r.len <= Frame!Even(r.len) /\ \A ch \in 1 .. r.len : ch \in 1 .. Channels /\ ch <= Frame!Even(r.len)
    BY <1>3 DEF Frame!Even, Frame!Widths
  <2>. QED BY <1>2, <2>1 DEF Frame!sendArtDmx, FrameInv
<1>7. Frame!FrameAsAsked'
  <2>1. frameRequest'.universe = u /\ frameRequest'.len = r.len
    BY <1>2, <1>3
  <2>2. ASSUME NEW ch \in 1 .. r.len PROVE frameOutput'[u][ch] = Frame!Wanted(ch)'
    BY <1>4, <1>5, <1>6
  <2>. QED BY <2>1, <2>2 DEF Frame!FrameAsAsked
<1>8. frameDmx' \in [1 .. Channels -> Int] /\ DOMAIN frameOutput' = Universe
  BY <1>4, <1>6
<1>. QED BY <1>7, <1>8, Zenon DEF FrameInv

LEMMA FrameStays == ASSUME Frame!Widths, FrameInv, [Frame!Next]_(Frame!vars) PROVE FrameInv'
<1>1. ASSUME UNCHANGED Frame!vars PROVE FrameInv'
  <2>1. UNCHANGED <<frameDmx, frameOutput, frameRequest>>
    BY <1>1 DEF Frame!vars
  <2>2. ASSUME NEW ch PROVE Frame!Wanted(ch)' = Frame!Wanted(ch)
    BY <2>1 DEF Frame!Wanted
  <2>. QED BY <2>1, <2>2 DEF FrameInv, Frame!FrameAsAsked
<1>. QED BY <1>1, FrameStep

-----------------------------------------------------------------------------
(* DhcpClient: the client among several servers *)

dhcpState   == x1
dhcpLocalIp == x3
dhcpClock   == x5
dhcpWaited  == x6
dhcpReplies == x8
dhcpRx      == x9
dhcpAcked   == x10

USE DEF dhcpState, dhcpLocalIp, dhcpClock, dhcpWaited, dhcpReplies, dhcpRx, dhcpAcked

\* Who sent an ACK has acknowledged; and a turn of the loop begins before the time is over,
\* and lasts no longer than the wait for an answer.
DhcpInv ==
  /\ dhcpClock \in Nat /\ dhcpWaited \in 0 .. ResponseTimeout + 1
  /\ \A p \in dhcpReplies \union {dhcpRx} : p.type = "ACK" => p.from \in dhcpAcked
  /\ Dhcp!Listening => dhcpClock <= DhcpTimeout + dhcpWaited
  /\ dhcpState = "START" => dhcpClock <= DhcpTimeout
  /\ Dhcp!LeaseGranted /\ Dhcp!ReturnsInTime

\* Nothing is sent yet and no time has passed.
LEMMA DhcpInit == ASSUME Dhcp!Times, Dhcp!Init PROVE DhcpInv
BY DEF Dhcp!Times, Dhcp!Init, DhcpInv, Dhcp!Listening, Dhcp!LeaseGranted, Dhcp!ReturnsInTime, Dhcp!Empty, Dhcp!None

\* A server and the network.
LEMMA ServersKeep ==
  ASSUME DhcpInv, (\E s \in Servers : Dhcp!ServerHears(s)) \/ Dhcp!Delivered PROVE DhcpInv'
<1>1. UNCHANGED Dhcp!client /\ dhcpAcked \subseteq dhcpAcked'
  BY DEF Dhcp!ServerHears, Dhcp!Delivered, Dhcp!Answer
<1>. DEFINE Meant == \A p \in dhcpReplies \union {dhcpRx} : p.type = "ACK" => p.from \in dhcpAcked
<1>2. Meant'
  <2>1. CASE Dhcp!Delivered
    BY <2>1 DEF Dhcp!Delivered, DhcpInv
  <2>2. ASSUME NEW s \in Servers, Dhcp!ServerHears(s) PROVE Meant'
    <3>1. PICK p \in x7 :
            \/ Dhcp!Answer(p, "OFFER", s)
            \/ Dhcp!Answer(p, "ACK", s) /\ s \in dhcpAcked'
            \/ Dhcp!Answer(p, "NAK", s)
      BY <2>2 DEF Dhcp!ServerHears
    <3>2. UNCHANGED dhcpRx
      BY <2>2 DEF Dhcp!ServerHears
    <3>. QED BY <1>1, <3>1, <3>2 DEF Dhcp!Answer, DhcpInv
  <2>. QED BY <2>1, <2>2
<1>. QED BY <1>1, <1>2 DEF Dhcp!client, DhcpInv, Dhcp!Listening, Dhcp!LeaseGranted, Dhcp!ReturnsInTime

\* The client.
LEMMA ClientKeeps == ASSUME Dhcp!Times, DhcpInv, ~Dhcp!Returned, Dhcp!Client PROVE DhcpInv'
<1>. USE DEF Dhcp!Times
<1>1. UNCHANGED <<dhcpReplies, dhcpAcked>> /\ dhcpRx' \in {dhcpRx, Dhcp!Empty}
  BY DEF Dhcp!Client, Dhcp!Discover, Dhcp!Delay, Dhcp!NoAnswer, Dhcp!NotMine, Dhcp!Offered, Dhcp!Acknowledged,
         Dhcp!Refused, Dhcp!Ignored, Dhcp!Parse, Dhcp!net
<1>2. \A p \in dhcpReplies' \union {dhcpRx'} : p.type = "ACK" => p.from \in dhcpAcked'
  BY <1>1 DEF DhcpInv, Dhcp!Empty, Dhcp!None
<1>3. CASE Dhcp!Delay
  BY <1>1, <1>2, <1>3 DEF Dhcp!Delay, DhcpInv, Dhcp!Listening, Dhcp!LeaseGranted, Dhcp!ReturnsInTime, Dhcp!net
<1>4. CASE Dhcp!Acknowledged
  BY <1>1, <1>2, <1>4 DEF Dhcp!Acknowledged, Dhcp!Parse, Dhcp!Address, DhcpInv, Dhcp!Listening, Dhcp!LeaseGranted, Dhcp!ReturnsInTime
<1>5. CASE Dhcp!Discover \/ Dhcp!NoAnswer \/ Dhcp!NotMine \/ Dhcp!Offered \/ Dhcp!Refused \/ Dhcp!Ignored
  <2>1. dhcpClock' = dhcpClock /\ dhcpWaited' \in {dhcpWaited, 0}
    BY <1>5 DEF Dhcp!Discover, Dhcp!NoAnswer, Dhcp!NotMine, Dhcp!Offered, Dhcp!Refused, Dhcp!Ignored, Dhcp!Parse
  <2>2. \E st : Dhcp!GoOn(st) /\ st # "LEASED"
    BY <1>5 DEF Dhcp!Discover, Dhcp!NoAnswer, Dhcp!NotMine, Dhcp!Offered, Dhcp!Refused, Dhcp!Ignored, Dhcp!Returned, Dhcp!Listening
  <2>3. dhcpState' # "LEASED" /\ (dhcpState' # "FAILED" => dhcpClock <= DhcpTimeout)
    BY <2>2 DEF Dhcp!GoOn, Dhcp!Expired, DhcpInv
  <2>. QED BY <1>2, <2>1, <2>3 DEF DhcpInv, Dhcp!Listening, Dhcp!LeaseGranted, Dhcp!ReturnsInTime
<1>. QED BY <1>3, <1>4, <1>5 DEF Dhcp!Client

\* Each step of the client, a server or the network keeps it.
LEMMA DhcpStays == ASSUME Dhcp!Times, DhcpInv, [Dhcp!Next]_(Dhcp!vars) PROVE DhcpInv'
<1>1. ASSUME UNCHANGED Dhcp!vars PROVE DhcpInv'
  BY <1>1 DEF Dhcp!vars, Dhcp!client, Dhcp!net, DhcpInv, Dhcp!Listening, Dhcp!LeaseGranted, Dhcp!ReturnsInTime
<1>. QED BY <1>1, ServersKeep, ClientKeeps DEF Dhcp!Next, Dhcp!Done
-----------------------------------------------------------------------------
(* The network settings: for any addresses and any numbers in the requests *)

NetSettings == [dhcp : BOOLEAN, ip : Chosen \cup {Factory, Leased} \cup Net!Octet, fallback : BOOLEAN, own : Net!Octet,
                start : 2 .. 253, size : Nat \ {0}, lease : Nat]

NetInv == /\ x1 \in NetSettings /\ x2 \in NetSettings
          /\ Net!PoolFits

\* What the clips leave of any numbers at all (api.cpp:644-661).
LEMMA NetClips ==
  ASSUME NEW s \in [dhcp : BOOLEAN, ip : Chosen \cup {Factory, Leased} \cup Net!Octet, fallback : BOOLEAN, own : Net!Octet,
                    start : Nat, size : Nat, lease : Nat]
  PROVE  /\ Net!Clipped(s) \in NetSettings
         /\ Net!Clipped(s).start + Net!Clipped(s).size <= 254 /\ Net!Clipped(s).lease >= 60
<1>. DEFINE start == Net!NotAbove(Net!NotBelow(s.start, 2), 253)
            size  == Net!NotBelow(Net!NotAbove(s.size, (254 - start) % 256), 1)
            lease == Net!NotBelow(s.lease, 60)
<1>1. start \in 2 .. 253
  BY DEF Net!NotAbove, Net!NotBelow
<1>2. size \in Nat \ {0} /\ start + size <= 254
  <2>1. (254 - start) % 256 = 254 - start
    BY <1>1
  <2>. QED BY <1>1, <2>1 DEF Net!NotAbove, Net!NotBelow
<1>3. lease \in Nat /\ lease >= 60
  BY DEF Net!NotBelow
<1>4. Net!Clipped(s) = [s EXCEPT !.start = start, !.size = size, !.lease = lease]
  BY DEF Net!Clipped
<1>. HIDE DEF start, size, lease
<1>. QED BY <1>1, <1>2, <1>3, <1>4 DEF NetSettings

\* A request leaves settings that fit.
LEMMA NetRequests ==
  ASSUME Net!Addresses, NEW r \in Net!Request, NEW s \in NetSettings,
         s.start + s.size <= 254, s.lease >= 60
  PROVE  /\ Net!Applied(s, r) \in NetSettings
         /\ Net!Applied(s, r).start + Net!Applied(s, r).size <= 254 /\ Net!Applied(s, r).lease >= 60
<1>. DEFINE t == Net!Top(s, r)
<1>1. /\ t \in NetSettings
      /\ t.start + t.size <= 254 /\ t.lease >= 60
  BY DEF Net!Top, Net!Given, Net!Request, NetSettings
<1>2. CASE r.pool = Absent
  BY <1>1, <1>2 DEF Net!Applied
<1>3. CASE r.pool # Absent
  <2>. DEFINE p == r.pool
              u == [t EXCEPT !.fallback = Net!Given(p.on, @), !.own = Net!Given(p.own, @),
                      !.start = IF p.start = Absent THEN @ ELSE Net!Fits(p.start, 256),
                      !.size  = IF p.size = Absent THEN @ ELSE Net!Fits(p.size, 256),
                      !.lease = IF p.lease = Absent THEN @ ELSE Net!Fits(p.lease, 65536)]
  <2>1. p \in Net!Pool
    BY <1>3 DEF Net!Request
  <2>2. u \in [dhcp : BOOLEAN, ip : Chosen \cup {Factory, Leased} \cup Net!Octet, fallback : BOOLEAN, own : Net!Octet,
               start : Nat, size : Nat, lease : Nat]
    <3>. DEFINE on    == Net!Given(p.on, t.fallback)
                own   == Net!Given(p.own, t.own)
                start == IF p.start = Absent THEN t.start ELSE Net!Fits(p.start, 256)
                size  == IF p.size = Absent THEN t.size ELSE Net!Fits(p.size, 256)
                lease == IF p.lease = Absent THEN t.lease ELSE Net!Fits(p.lease, 65536)
    <3>1. on \in BOOLEAN /\ own \in Net!Octet
      BY <1>1, <2>1 DEF Net!Given, Net!Pool, NetSettings, Net!Addresses
    <3>2. start \in Nat /\ size \in Nat /\ lease \in Nat
      <4>1. \A n \in {p.start, p.size, p.lease} : n # Absent => n \in Nat
        BY <2>1 DEF Net!Pool, Net!Addresses
      <4>2. \A n \in Nat : Net!Fits(n, 256) \in Nat /\ Net!Fits(n, 65536) \in Nat
        BY DEF Net!Fits
      <4>3. t.start \in Nat /\ t.size \in Nat /\ t.lease \in Nat
        BY <1>1 DEF NetSettings
      <4>. QED BY <4>1, <4>2, <4>3
    <3>3. u = [t EXCEPT !.fallback = on, !.own = own, !.start = start, !.size = size, !.lease = lease]
      OBVIOUS
    <3>. HIDE DEF u, on, own, start, size, lease
    <3>. QED BY <1>1, <3>1, <3>2, <3>3 DEF NetSettings
  <2>3. Net!Applied(s, r) = Net!Clipped(u)
    BY <1>3 DEF Net!Applied, Net!Group
  <2>. HIDE DEF u
  <2>. QED BY <2>2, <2>3, NetClips
<1>. QED BY <1>2, <1>3

\* A pool that is asked for and fits passes the clips unchanged.
LEMMA NetLegal ==
  ASSUME Net!Addresses, NEW p \in Net!Pool, NEW s, NEW r \in Net!Request, r.pool = p, p # Absent,
         Absent \notin {p.start, p.size}, p.start \in 2 .. 253, p.size \in 1 .. 254 - p.start,
         Net!Top(s, r) \in NetSettings
  PROVE  Net!Applied(s, r).start = p.start /\ Net!Applied(s, r).size = p.size
<1>. DEFINE u == [Net!Top(s, r) EXCEPT !.fallback = Net!Given(p.on, @), !.own = Net!Given(p.own, @),
                      !.start = IF p.start = Absent THEN @ ELSE Net!Fits(p.start, 256),
                      !.size  = IF p.size = Absent THEN @ ELSE Net!Fits(p.size, 256),
                      !.lease = IF p.lease = Absent THEN @ ELSE Net!Fits(p.lease, 65536)]
<1>1. u.start = p.start /\ u.size = p.size
  BY DEF Net!Fits, NetSettings
<1>2. /\ Net!Clipped(u).start = Net!NotAbove(Net!NotBelow(u.start, 2), 253)
      /\ Net!Clipped(u).size =
           Net!NotBelow(Net!NotAbove(u.size, (254 - Net!NotAbove(Net!NotBelow(u.start, 2), 253)) % 256), 1)
  BY DEF Net!Clipped, NetSettings
<1>3. Net!Applied(s, r) = Net!Clipped(u)
  BY DEF Net!Applied, Net!Group
<1>. HIDE DEF u
<1>4. Net!NotAbove(Net!NotBelow(p.start, 2), 253) = p.start
  BY DEF Net!NotAbove, Net!NotBelow
<1>5. (254 - p.start) % 256 = 254 - p.start
  OBVIOUS
<1>. QED BY <1>1, <1>2, <1>3, <1>4, <1>5 DEF Net!NotAbove, Net!NotBelow

LEMMA NetInit == ASSUME Net!Init PROVE NetInv /\ Net!LegalPoolKept
  BY DEF Net!Init, NetInv, Net!PoolFits, Net!Defaults, NetSettings, Net!LegalPoolKept, Net!Octet

LEMMA NetStays ==
  ASSUME Net!Addresses, NetInv, Net!LegalPoolKept, [Net!Next]_(Net!vars)
  PROVE  NetInv' /\ Net!LegalPoolKept' /\ [Net!StaticKept]_(Net!vars)
<1>1. ASSUME NEW r \in Net!Request, Net!networkConfigApply(r)
      PROVE  NetInv' /\ Net!LegalPoolKept'
  <2>1. NetInv'
    BY <1>1, NetRequests DEF Net!networkConfigApply, NetInv, Net!PoolFits, NetSettings
  <2>2. Net!Top(x1, r) \in NetSettings
    <3>1. /\ Net!Given(r.dhcp, x1.dhcp) \in BOOLEAN
          /\ Net!Given(r.ip, x1.ip) \in Chosen \cup {Factory, Leased} \cup Net!Octet
      BY DEF Net!Given, Net!Request, NetInv, NetSettings
    <3>. QED BY <3>1 DEF Net!Top, NetInv, NetSettings
  <2>3. r.pool # Absent => r.pool \in Net!Pool
    BY DEF Net!Request
  <2>. QED BY <1>1, <2>1, <2>2, <2>3, NetLegal DEF Net!networkConfigApply, Net!LegalPoolKept
<1>2. ASSUME NEW upstream \in BOOLEAN, Net!ethernetStart(upstream)
      PROVE  NetInv' /\ Net!LegalPoolKept' /\ Net!StaticKept
  <2>1. Net!Started(x2, upstream)[2] \in Chosen \cup {Factory, Leased} \cup Net!Octet
    BY DEF NetInv, NetSettings, Net!Started
  <2>2. NetInv'
    BY <1>2, <2>1 DEF Net!ethernetStart, NetInv, Net!PoolFits, NetSettings
  <2>3. ~x2.dhcp => Net!Started(x2, upstream)[2] = x2.ip
    BY DEF Net!Started
  <2>4. Net!StaticKept
    BY <1>2, <2>3 DEF Net!ethernetStart, Net!StaticKept
  <2>. QED BY <1>2, <2>2, <2>4 DEF Net!ethernetStart, Net!LegalPoolKept
<1>3. CASE Net!SaveCounters
  BY <1>3 DEF Net!SaveCounters, NetInv, Net!PoolFits, Net!LegalPoolKept, Net!StaticKept
<1>4. CASE Net!Restart
  BY <1>4 DEF Net!Restart, NetInv, Net!PoolFits, Net!LegalPoolKept, Net!StaticKept
<1>5. CASE UNCHANGED Net!vars
  BY <1>5 DEF Net!vars, NetInv, Net!PoolFits, Net!LegalPoolKept
<1>6. ASSUME NEW r \in Net!Request, Net!networkConfigApply(r) PROVE Net!StaticKept
  BY <1>6 DEF Net!networkConfigApply, Net!StaticKept
<1>. QED BY <1>1, <1>2, <1>3, <1>4, <1>5, <1>6 DEF Net!Next

\* Whatever networkConfigApply is asked for, whatever ethernetStart writes back
\* and whenever the power fails, the pool the DHCP server starts with fits.
THEOREM PoolStaysFit == Net!Spec => []Net!PoolFits
<1>. USE Parameters
<1>1. NetInv => Net!PoolFits
  BY DEF NetInv
<1>. QED BY <1>1, NetInit, NetStays, PTL DEF Net!Spec

\* ... it is the one that was asked for, if that fits; and without DHCP the unit
\* starts with the address it was told.
THEOREM NetworkAsAsked == Net!Spec => []Net!LegalPoolKept /\ Net!StaticStays
<1>. USE Parameters
<1>. QED BY NetInit, NetStays, PTL DEF Net!Spec, Net!StaticStays

-----------------------------------------------------------------------------
(* The components in MCServices *)

\* The LED blinks for locate as long as it was asked to, and is green only while nodes
\* answer (tick, startLocate): LedTrue, whatever the periods are.
THEOREM LedShows == Spec => []LedTrue
<1>. DEFINE Inv == component = "led" => LedInv
<1>. USE Parameters, Circumstances
<1>1. Init => Inv
  BY BeginsAs, LedInit
<1>2. Inv /\ [Next]_vars => Inv'
  BY Moves, LedStep, LedSame
<1>3. Inv => LedTrue
  BY LedGives DEF LedTrue
<1>. QED BY <1>1, <1>2, <1>3, PTL DEF Spec

\* The monitor lists who was heard lately and nobody else; the lists of the handlers are
\* never sent cut off, and the tags always: ListsTrue, for any number of senders and slots.
THEOREM ListsShow == Spec => []ListsTrue
<1>. DEFINE Inv == (component = "monitor" => MonInv) /\ (component = "reports" => ReportInv)
<1>. USE Parameters, Circumstances
<1>1. Init => Inv
  BY BeginsAs, MonInit, ReportInit
<1>2. Inv /\ [Next]_vars => Inv'
  BY Moves, MonStep, MonSame, ReportStep, ReportSame
<1>3. Inv => ListsTrue
  BY MonGives, ReportGives DEF ListsTrue
<1>. QED BY <1>1, <1>2, <1>3, PTL DEF Spec

\* Only whole lines of the console are commands, each gets at most one reply, and the web
\* server its transport back (serialLinkTick): SerialInStep, for any script of lines.
THEOREM SerialKeepsStep == Spec => []SerialInStep
<1>. DEFINE Inv == component = "serial" => SerialInv
<1>. USE Parameters, Circumstances
<1>1. Init => Inv
  BY BeginsAs, SerialInit
<1>2. Inv /\ [Next]_vars => Inv'
  BY Moves, SerialStays
<1>3. Inv => SerialInStep
  BY SerialGives DEF SerialInStep
<1>. QED BY <1>1, <1>2, <1>3, PTL DEF Spec

\* The LED reads the colour that was set, and no wait in the driver outlasts its pulse
\* (doPixel, doAPA106): ColourInTime, for any widths of pulses that the driver can keep apart.
THEOREM ColourComes == Spec => []ColourInTime
<1>. DEFINE Inv == component = "pixel" => PixelInv
<1>. USE Parameters, Circumstances
<1>1. Init => Inv
  BY BeginsAs, PixelInit
<1>2. Inv /\ [Next]_vars => Inv'
  BY Moves, PixelStep, PixelSame
<1>3. Inv => ColourInTime
  BY PixelGives DEF ColourInTime
<1>. QED BY <1>1, <1>2, <1>3, PTL DEF Spec

\* The pool the network handler stores lies inside the subnet, and is the one that was
\* asked for if that is legal (networkConfigApply): PoolServable, for all addresses and pools.
THEOREM PoolStaysServable == Spec => []PoolServable
<1>. DEFINE Inv == component = "network" => NetInv /\ Net!LegalPoolKept
<1>. USE Parameters
<1>1. Init => Inv
  BY BeginsAs, NetInit
<1>2. Inv /\ [Next]_vars => Inv'
  BY Moves, NetStays
<1>3. Inv => PoolServable
  BY DEF NetInv, PoolServable
<1>. QED BY <1>1, <1>2, <1>3, PTL DEF Spec

\* The variables that are not the component's own stay 0.
LEMMA OthersRest ==
  ASSUME [Next]_vars
  PROVE  (component = "eeprom" => UNCHANGED Rest7) /\ (component = "network" => UNCHANGED Rest9)
<1>1. CASE Next
  BY <1>1 DEF Next, QueuePass, SerialType, SerialWork, SendStep, ReceiveStep, FormStep, RequestStep
<1>2. CASE UNCHANGED vars
  BY <1>2 DEF vars, Rest3, Rest7, Rest9
<1>. QED BY <1>1, <1>2

\* Whatever the other parts save, a reboot finds the leases and the wizard's flag again, and
\* with DHCP off the unit starts with the address it was told: StoredStays, for any records.
THEOREM StoredKeeps == Spec => StoredStays
<1>. DEFINE Inv == /\ component = "eeprom" => RomInv
                   /\ component = "network" => NetInv /\ Net!LegalPoolKept
            Kept == /\ component = "eeprom" => Eeprom!LeasesKept /\ Eeprom!WizardKept
                    /\ component = "network" => Net!StaticKept
<1>. USE Parameters
<1>1. Init => Inv
  BY BeginsAs, RomInit, NetInit
<1>2. ASSUME Inv, [Next]_vars PROVE Inv' /\ [Kept]_vars
  <2>1. component' = component
    BY <1>2, Moves
  <2>2. ASSUME component = "eeprom" PROVE Inv' /\ [Kept]_vars
    <3>1. RomInv' /\ [Eeprom!LeasesKept]_(Eeprom!vars) /\ [Eeprom!WizardKept]_(Eeprom!vars)
      BY <1>2, <2>2, Moves, RomStays
    <3>2. UNCHANGED Eeprom!vars => UNCHANGED vars
      BY <1>2, <2>1, <2>2, OthersRest DEF vars, Rest3, Rest7, Eeprom!vars
    <3>. QED BY <2>1, <2>2, <3>1, <3>2
  <2>3. ASSUME component = "network" PROVE Inv' /\ [Kept]_vars
    <3>1. NetInv' /\ Net!LegalPoolKept' /\ [Net!StaticKept]_(Net!vars)
      BY <1>2, <2>3, Moves, NetStays
    <3>2. UNCHANGED Net!vars => UNCHANGED vars
      BY <1>2, <2>1, <2>3, OthersRest DEF vars, Rest3, Rest9, Net!vars
    <3>. QED BY <2>1, <2>3, <3>1, <3>2
  <2>. QED BY <2>1, <2>2, <2>3
<1>. QED BY <1>1, <1>2, PTL DEF Spec, StoredStays

\* The three that pass bytes on.
StreamInv == /\ component = "send" => SendInv
             /\ component = "receive" => RecvInv
             /\ component = "form" => FormInv

\* The bytes of a stream, a datagram and an uploaded file are passed on in their order and
\* whole (SocketSend, SocketReceive, UploadForm): StreamsKept, whatever the sizes are.
THEOREM StreamsHold == Spec => []StreamsKept
<1>. USE Parameters, Circumstances
<1>1. ASSUME Init PROVE StreamInv
  BY <1>1, BeginsAs, SendInit, RecvInit, FormInit DEF StreamInv
<1>2. ASSUME StreamInv, [Next]_vars PROVE StreamInv'
  <2>1. component' = component
    BY <1>2, Moves
  <2>2. ASSUME component = "send" PROVE SendInv'
    BY <1>2, <2>2, Moves, SendStays DEF StreamInv
  <2>3. ASSUME component = "receive" PROVE RecvInv'
    BY <1>2, <2>3, Moves, RecvStays DEF StreamInv
  <2>4. ASSUME component = "form" PROVE FormInv'
    BY <1>2, <2>4, Moves, FormStays, FormSame DEF StreamInv
  <2>. QED BY <2>1, <2>2, <2>3, <2>4 DEF StreamInv
<1>3. StreamInv => StreamsKept
  BY SendGives, RecvGives, FormGives DEF StreamInv, StreamsKept
<1>. QED BY <1>1, <1>2, <1>3, PTL DEF Spec

\* The four that answer: a node's answer, a test frame, a request and a lease.
AnswersInv == /\ component = "get" => GetInv
              /\ component = "frame" => FrameInv
              /\ component = "request" => ReqInv
              /\ component = "dhcp" => DhcpInv

\* httpGet returns what the node sent and in time, the test frame is as asked for, a handler
\* gets the whole request, and the unit an address its server acknowledged (HttpGet,
\* TestFrame, HttpRequest, DhcpClient): AnswersTrue, whatever is asked and answered.
THEOREM AnswersHold == Spec => []AnswersTrue
<1>. USE Parameters
<1>1. ASSUME Init PROVE AnswersInv
  BY <1>1, BeginsAs, GetInit, FrameInit, ReqInit, DhcpInit DEF AnswersInv
<1>2. ASSUME AnswersInv, [Next]_vars PROVE AnswersInv'
  <2>1. component' = component
    BY <1>2, Moves
  <2>2. ASSUME component = "get" PROVE GetInv'
    BY <1>2, <2>2, Moves, GetStays DEF AnswersInv
  <2>3. ASSUME component = "frame" PROVE FrameInv'
    BY <1>2, <2>3, Moves, FrameStays DEF AnswersInv
  <2>4. ASSUME component = "request" PROVE ReqInv'
    BY <1>2, <2>4, Moves, ReqStays DEF AnswersInv
  <2>5. ASSUME component = "dhcp" PROVE DhcpInv'
    BY <1>2, <2>5, Moves, DhcpStays DEF AnswersInv
  <2>. QED BY <2>1, <2>2, <2>3, <2>4, <2>5 DEF AnswersInv
<1>3. AnswersInv => AnswersTrue
  <2>1. GetInv => Get!BodyReturned /\ Get!LoopKeptBriefly
    BY DEF GetInv, GetReturned, GetTime
  <2>2. FrameInv => Frame!FrameAsAsked
    BY DEF FrameInv
  <2>3. ReqInv => Request!RequestWhole
    BY ReqGives
  <2>4. DhcpInv => Dhcp!LeaseGranted /\ Dhcp!ReturnsInTime
    BY DEF DhcpInv
  <2>. QED BY <2>1, <2>2, <2>3, <2>4 DEF AnswersInv, AnswersTrue
<1>. QED BY <1>1, <1>2, <1>3, PTL DEF Spec
=============================================================================
