----------------------------- MODULE PageProofs -----------------------------
(***************************************************************************)
(* What the parts of the webpage keep true, as MCPage puts them into two   *)
(* specifications, for any numbers of browsers, nodes, visits, saves and   *)
(* answers.  Each part has an inductive invariant of its own; its section  *)
(* names the variables x1, x2, ... of MCPage as the part has them, and     *)
(* ends with three facts: the invariant holds at first (Init), every step  *)
(* of the part keeps it (Stays), and it says what was asked (Gives).  The  *)
(* theorems are at the end.                                                *)
(***************************************************************************)
EXTENDS MCPage, FiniteSetTheorems, SequenceTheorems, WellFoundedInduction, TLAPS

-----------------------------------------------------------------------------
(* TagStore: the labels on their way from the browsers to the unit *)

tagServer  == x1
tagMirror  == x2
tagLocal   == x3
tagLoading == x4
tagSaving  == x5
tagLegacy  == x6
tagLost    == x7

USE DEF tagServer, tagMirror, tagLocal, tagLoading, tagSaving, tagLegacy, tagLost

TagSteps == {Tags!Off, Tags!Asked, Tags!Opened} \union {Tags!Migrating(ms) : ms \in SUBSET Macs}
\* While a browser migrates, what it has left to send is still in its own store.
Sending == \A b \in Browsers : tagLoading[b].todo \subseteq Tags!Kept(tagLocal[b])
\* What it has sent is on the unit, changed by the user since, or lost.
Sent == \A b \in Browsers, m \in Macs :
          tagLoading[b].step = "migrating" /\ tagLegacy[b][m] # Tags!Blank =>
            m \in tagLost \/ tagServer[m] # Tags!Blank \/ m \in tagLoading[b].todo
TagInv ==
  /\ tagServer \in Tags!Store /\ tagLocal \in [Browsers -> Tags!Store] /\ tagLegacy \in [Browsers -> Tags!Store]
  /\ tagLoading \in [Browsers -> TagSteps]
  /\ tagSaving \in [Browsers -> [mac : Macs, label : Labels \union {Tags!Blank}] \union {Tags!Nothing}]
  /\ Sending /\ Sent /\ Tags!LegacyKept

LEMMA TagInit == ASSUME Tags!Init PROVE TagInv
<1>. USE DEF Tags!Init, Tags!Store, Tags!Off
<1>1. tagLoading \in [Browsers -> TagSteps] /\ Sending /\ Sent
  BY DEF TagSteps, Sending, Sent
<1>2. tagSaving \in [Browsers -> [mac : Macs, label : Labels \union {Tags!Blank}] \union {Tags!Nothing}]
  OBVIOUS
<1>3. Tags!LegacyKept
  BY DEF Tags!LegacyKept
<1>. QED BY <1>1, <1>2, <1>3 DEF TagInv

\* The step of one browser's loadServerTags.
LEMMA LoadKeeps ==
  ASSUME TagInv, NEW b \in Browsers, Tags!Load(b) \/ Tags!Loaded(b) \/ Tags!LoadFails(b)
  PROVE  TagInv'
<1>. DEFINE step == tagLoading'[b]
<1>1. /\ UNCHANGED <<tagServer, tagLocal, tagSaving, tagLegacy, tagLost>>
      /\ tagLoading' = [tagLoading EXCEPT ![b] = step]
      /\ \/ step \in {Tags!Asked, Tags!Opened}
         \/ step = Tags!Migrating(Tags!Kept(tagLocal[b])) /\ tagServer = Tags!Empty
  BY DEF TagInv, Tags!Load, Tags!Loaded, Tags!LoadFails
<1>2. step \in TagSteps
  BY <1>1 DEF TagSteps, Tags!Kept
<1>3. step.todo \subseteq Tags!Kept(tagLocal[b])
  BY <1>1 DEF Tags!Asked, Tags!Opened, Tags!Migrating
<1>4. \A m \in Macs : step.step = "migrating" /\ tagLegacy[b][m] # Tags!Blank =>
          m \in tagLost \/ tagServer[m] # Tags!Blank \/ m \in step.todo
  BY <1>1 DEF Tags!Asked, Tags!Opened, Tags!Migrating, Tags!Empty, Tags!Kept, TagInv, Tags!LegacyKept
<1>. HIDE DEF step
<1>5. tagLoading' \in [Browsers -> TagSteps] /\ tagLoading'[b] = step /\ \A c \in Browsers \ {b} : tagLoading'[c] = tagLoading[c]
  BY <1>1, <1>2 DEF TagInv
<1>6. Sending' /\ Sent'
  BY <1>1, <1>3, <1>4, <1>5 DEF Sending, Sent, TagInv, Tags!Kept
<1>. QED BY <1>1, <1>5, <1>6 DEF TagInv, Tags!LegacyKept

LEMMA MigrateKeeps ==
  ASSUME TagInv, NEW b \in Browsers, NEW m \in Macs, Tags!Migrate(b, m)
  PROVE  TagInv'
<1>1. /\ UNCHANGED <<tagLocal, tagSaving, tagLegacy>>
      /\ m \in tagLoading[b].todo
      /\ tagLoading' = [tagLoading EXCEPT ![b].todo = tagLoading[b].todo \ {m}]
  BY DEF Tags!Migrate
<1>2. \/ tagServer' = [tagServer EXCEPT ![m] = tagLocal[b][m]] /\ UNCHANGED tagLost
      \/ tagLost' = tagLost \union {m} /\ UNCHANGED tagServer
  BY DEF Tags!Migrate
<1>3. tagLocal[b][m] # Tags!Blank /\ tagLocal[b][m] \in Labels \union {Tags!Blank}
  BY <1>1 DEF TagInv, Sending, Tags!Kept, Tags!Store
<1>4. /\ tagServer' \in Tags!Store
      /\ \A n \in Macs : (tagServer[n] # Tags!Blank => tagServer'[n] # Tags!Blank) /\ (n \in tagLost => n \in tagLost')
      /\ m \in tagLost' \/ tagServer'[m] # Tags!Blank
  BY <1>2, <1>3 DEF TagInv, Tags!Store
<1>5. \A c \in Browsers : /\ tagLoading'[c].step = tagLoading[c].step
                          /\ tagLoading'[c].todo = IF c = b THEN tagLoading[c].todo \ {m} ELSE tagLoading[c].todo
  <2>1. tagLoading[b] \in TagSteps
    BY DEF TagInv
  <2>2. tagLoading[b] = [step |-> tagLoading[b].step, todo |-> tagLoading[b].todo]
    BY <2>1 DEF TagSteps, Tags!Off, Tags!Asked, Tags!Opened, Tags!Migrating
  <2>. QED BY <1>1, <2>2 DEF TagInv
<1>6. tagLoading' \in [Browsers -> TagSteps]
  <2>1. PICK ms \in SUBSET Macs : tagLoading[b] = Tags!Migrating(ms)
    BY <1>1 DEF TagInv, TagSteps, Tags!Off, Tags!Asked, Tags!Opened
  <2>2. [tagLoading[b] EXCEPT !.todo = tagLoading[b].todo \ {m}] = Tags!Migrating(ms \ {m})
    BY <2>1 DEF Tags!Migrating
  <2>3. Tags!Migrating(ms \ {m}) \in TagSteps
    BY <2>1 DEF TagSteps
  <2>4. tagLoading'[b] = Tags!Migrating(ms \ {m}) /\ \A c \in Browsers \ {b} : tagLoading'[c] = tagLoading[c]
    BY <1>1, <2>2 DEF TagInv
  <2>5. tagLoading' \in [Browsers -> {tagLoading'[c] : c \in Browsers}]
    BY <1>1 DEF TagInv
  <2>. QED BY <2>3, <2>4, <2>5 DEF TagInv
<1>7. Sending' /\ Sent'
  BY <1>1, <1>4, <1>5 DEF Sending, Sent, TagInv, Tags!Kept
<1>8. Tags!LegacyKept'
  BY <1>1, <1>4 DEF TagInv, Tags!LegacyKept
<1>. QED BY <1>1, <1>4, <1>6, <1>7, <1>8 DEF TagInv

LEMMA MigrationEndKeeps ==
  ASSUME TagInv, NEW b \in Browsers, Tags!MigrationEnds(b)
  PROVE  TagInv'
<1>1. /\ UNCHANGED <<tagServer, tagSaving, tagLegacy, tagLost>>
      /\ tagLoading[b] = Tags!Migrating({})
      /\ tagLoading' = [tagLoading EXCEPT ![b] = Tags!Opened]
      /\ tagLocal' = [tagLocal EXCEPT ![b] = Tags!Empty]
  BY DEF Tags!MigrationEnds, Tags!Dropped
<1>2. tagLoading' \in [Browsers -> TagSteps] /\ tagLocal' \in [Browsers -> Tags!Store]
  BY <1>1 DEF TagInv, TagSteps, Tags!Store, Tags!Empty
<1>3. \A m \in Macs : tagLegacy[b][m] # Tags!Blank => m \in tagLost \/ tagServer[m] # Tags!Blank
  BY <1>1 DEF TagInv, Sent, Tags!Migrating
<1>4. Sending' /\ Sent'
  BY <1>1, <1>2 DEF TagInv, Sending, Sent, Tags!Opened, Tags!Kept
<1>5. Tags!LegacyKept'
  BY <1>1, <1>3 DEF TagInv, Tags!LegacyKept
<1>. QED BY <1>1, <1>2, <1>4, <1>5 DEF TagInv

LEMMA SetTagKeeps ==
  ASSUME TagInv, NEW b \in Browsers, Tags!SetTag(b) \/ Tags!TagRefused(b)
  PROVE  TagInv'
<1>1. UNCHANGED <<tagServer, tagLocal, tagLoading, tagLegacy, tagLost>>
  BY DEF Tags!SetTag, Tags!TagRefused
<1>2. tagSaving' \in [Browsers -> [mac : Macs, label : Labels \union {Tags!Blank}] \union {Tags!Nothing}]
  BY DEF TagInv, Tags!SetTag, Tags!TagRefused
<1>. QED BY <1>1, <1>2 DEF TagInv, Sending, Sent, Tags!LegacyKept, Tags!Kept

LEMMA TagSavedKeeps ==
  ASSUME TagInv, NEW b \in Browsers, Tags!TagSaved(b)
  PROVE  TagInv'
<1>. DEFINE s == tagSaving[b]
<1>1. s.mac \in Macs /\ s.label \in Labels \union {Tags!Blank}
  BY DEF Tags!TagSaved, TagInv
<1>2. /\ UNCHANGED <<tagLocal, tagLoading, tagLost>>
      /\ tagServer' = [tagServer EXCEPT ![s.mac] = s.label]
      /\ tagSaving' = [tagSaving EXCEPT ![b] = Tags!Nothing]
      /\ tagLegacy' = [c \in Browsers |-> [tagLegacy[c] EXCEPT ![s.mac] = Tags!Blank]]
  BY DEF Tags!TagSaved
<1>. HIDE DEF s
<1>3. tagServer' \in Tags!Store /\ \A m \in Macs : m # s.mac => tagServer'[m] = tagServer[m]
  BY <1>1, <1>2 DEF TagInv, Tags!Store
<1>4. \A c \in Browsers : /\ tagLegacy'[c] \in Tags!Store /\ tagLegacy'[c][s.mac] = Tags!Blank
                          /\ \A m \in Macs : m # s.mac => tagLegacy'[c][m] = tagLegacy[c][m]
  BY <1>1, <1>2 DEF TagInv, Tags!Store
<1>5. tagLegacy' \in [Browsers -> Tags!Store]
  BY <1>2, <1>4
<1>6. tagSaving' \in [Browsers -> [mac : Macs, label : Labels \union {Tags!Blank}] \union {Tags!Nothing}]
  BY <1>2 DEF TagInv
<1>7. Sending' /\ Sent' /\ Tags!LegacyKept'
  BY <1>1, <1>2, <1>3, <1>4 DEF TagInv, Sending, Sent, Tags!LegacyKept, Tags!Kept
<1>. QED BY <1>2, <1>3, <1>5, <1>6, <1>7 DEF TagInv

LEMMA TagStays == ASSUME TagInv, [Tags!Next]_(Tags!vars) PROVE TagInv'
<1>1. CASE Tags!Next
  BY <1>1, LoadKeeps, MigrateKeeps, MigrationEndKeeps, SetTagKeeps, TagSavedKeeps DEF Tags!Next
<1>2. CASE UNCHANGED Tags!vars
  BY <1>2 DEF Tags!vars, TagInv, Sending, Sent, Tags!LegacyKept, Tags!Kept
<1>. QED BY <1>1, <1>2

HIDE DEF tagServer, tagMirror, tagLocal, tagLoading, tagSaving, tagLegacy, tagLost
-----------------------------------------------------------------------------
(* FirmwareUpload: what the page says of the image *)

upPage   == x1
upMode   == x3
upFlag   == x4
upBegun  == x5
upStaged == x6
upImage  == x7

USE DEF upPage, upMode, upFlag, upBegun, upStaged, upImage

UploadInv == /\ upStaged \in BOOLEAN /\ upImage \in {"old", "new"}
             /\ Upload!ToldIsInstalled

LEMMA UploadInit == ASSUME Upload!Init PROVE UploadInv
BY DEF Upload!Init, UploadInv, Upload!ToldIsInstalled

LEMMA UploadStays == ASSUME UploadInv, [Upload!Next]_(Upload!vars) PROVE UploadInv'
<1>. USE DEF UploadInv, Upload!ToldIsInstalled
<1>1. CASE Upload!Press \/ Upload!Unanswered \/ Upload!Reload \/ Upload!RebootLink
  BY <1>1 DEF Upload!Press, Upload!Unanswered, Upload!Reload, Upload!RebootLink, Upload!unit
<1>2. CASE Upload!Prepare \/ Upload!UploadStarts \/ Upload!WriteFails \/ Upload!UploadEnds
  BY <1>2 DEF Upload!Prepare, Upload!UploadStarts, Upload!WriteFails, Upload!UploadEnds, Upload!Completed
<1>3. CASE Upload!UploadBreaks \/ Upload!UploadRefused \/ Upload!Restart
  BY <1>3 DEF Upload!UploadBreaks, Upload!UploadRefused, Upload!Restart, Upload!unit
<1>4. CASE Upload!Boots
  BY <1>4 DEF Upload!Boots
<1>5. CASE UNCHANGED Upload!vars
  BY <1>5 DEF Upload!vars, Upload!unit
<1>. QED BY <1>1, <1>2, <1>3, <1>4, <1>5 DEF Upload!Next

HIDE DEF upPage, upMode, upFlag, upBegun, upStaged, upImage
-----------------------------------------------------------------------------
(* Backup: what a restore writes, and what the summary says of it *)

bkLive    == x1
bkAt      == x2
bkEdits   == x3
bkStage   == x5
bkList    == x6
bkBundle  == x7
bkPending == x8
bkShown   == x9
bkLeft    == x10
bkCurrent == x11
bkOk      == x12
bkMissing == x13
bkFailed  == x14
bkStirred == x15

USE DEF bkLive, bkAt, bkEdits, bkStage, bkList, bkBundle, bkPending, bkShown, bkLeft, bkCurrent, bkOk,
        bkMissing, bkFailed, bkStirred

\* A value is a node and a version; Null is one too.
Values == Nat \X Nat
InHand == {bkCurrent[1]} \ {Store!NoNode}
BackTypes ==
  /\ bkLive \in [BackedUp -> [Parts -> Values]] /\ bkEdits \in 0 .. MaxEdits /\ bkStirred \in BOOLEAN
  /\ bkAt \in [BackedUp -> Nat] /\ bkList \in [BackedUp -> Nat]
  /\ \A n, m \in BackedUp : bkAt[n] = bkAt[m] /\ bkAt[n] # Store!Away => n = m
  /\ bkBundle \in [DOMAIN bkBundle -> [Parts -> Values]] /\ DOMAIN bkBundle \subseteq BackedUp
  /\ bkCurrent \in (BackedUp \union {Store!NoNode}) \X (Nat \ {0})
\* Unless something stirred, a node has its own settings, and so has its place in the file.
BackOwn ==
  ~bkStirred =>
    /\ \A n \in BackedUp, p \in Parts : bkLive[n][p] \in Store!Own(n)
    /\ \A n \in DOMAIN bkBundle, p \in Parts : bkBundle[n][p] \in {Store!Null} \union Store!Own(n)
\* What is still to be read is asked where the node is; and the same of what is written.
BackWay ==
  /\ bkStage = "collect" /\ ~bkStirred =>
       bkList = bkAt /\ \A n \in DOMAIN bkBundle : bkList[n] # Store!Away
  /\ bkStage = "collect" => bkPending \subseteq (DOMAIN bkBundle) \X Parts
  /\ bkStage = "restore" /\ ~bkStirred => \A n \in BackedUp : bkList[n] \in {Store!Away, bkAt[n]}
  /\ bkCurrent[1] # Store!NoNode => bkStage = "restore" /\ bkList[bkCurrent[1]] # Store!Away
\* Every node of the file is in one of the piles: to do, in hand, or with its result.
BackParted ==
  /\ bkStage = "list" => bkLeft = DOMAIN bkBundle /\ bkOk = {} /\ bkMissing = {} /\ bkFailed = {}
  /\ bkStage = "restore" =>
       /\ bkLeft \union InHand \union bkOk \union bkMissing \union bkFailed = DOMAIN bkBundle
       /\ bkLeft \cap InHand = {} /\ (bkLeft \union InHand) \cap (bkOk \union bkMissing \union bkFailed) = {}
       /\ bkOk \cap bkMissing = {} /\ bkOk \cap bkFailed = {} /\ bkMissing \cap bkFailed = {}
\* The parts written so far are as in the file.
Matches(n, p) == bkBundle[n][p] \in {Store!Null, bkLive[n][p]}
BackMatch ==
  bkStage = "restore" /\ ~bkStirred =>
    /\ \A n \in bkOk, p \in Parts : Matches(n, p)
    /\ bkCurrent[1] # Store!NoNode => \A p \in Parts : p < bkCurrent[2] => Matches(bkCurrent[1], p)
BackInv == BackTypes /\ BackOwn /\ BackWay /\ BackParted /\ BackMatch

\* Backup counts with the Cardinality of FiniteSets.
LEMMA StoreCount == \A S : Store!Cardinality(S) = Cardinality(S)
BY DEF Store!Cardinality, Cardinality
LEMMA StoreFinite == \A S : Store!IsFiniteSet(S) <=> IsFiniteSet(S)
BY DEF Store!IsFiniteSet, IsFiniteSet

LEMMA OwnAreValues == ASSUME NEW n \in Nat \ {0}, Store!Sizes PROVE Store!Own(n) \subseteq Values \ {Store!Null}
BY DEF Store!Own, Store!Versions, Store!Value, Store!Sizes, Store!Null, Values

LEMMA BackedAre == ASSUME Store!Sizes PROVE BackedUp \subseteq Nat \ {0} /\ Store!Last \in Nat /\ Parts = 1 .. Store!Last
<1>1. Cardinality(BackedUp) \in Nat /\ Cardinality(Parts) \in Nat
  BY FS_CardinalityType, StoreFinite DEF Store!Sizes
<1>2. 1 .. Cardinality(BackedUp) \subseteq Nat \ {0}
  BY <1>1
<1>. QED BY <1>1, <1>2, StoreCount DEF Store!Sizes, Store!Last

LEMMA BackInit == ASSUME Store!Sizes, Store!Init PROVE BackInv
<1>. USE DEF Store!Init, Store!Away, Store!Null, Store!NoNode
<1>1. BackTypes
  <2>1. \A n \in BackedUp : Store!Value(n, 0) \in Values
    BY BackedAre DEF Store!Value, Values
  <2>2. 0 \in 0 .. MaxEdits
    BY DEF Store!Sizes
  <2>3. bkLive \in [BackedUp -> [Parts -> Values]] /\ bkAt \in [BackedUp -> Nat] /\ bkList \in [BackedUp -> Nat]
    BY <2>1, BackedAre
  <2>4. bkBundle \in [DOMAIN bkBundle -> [Parts -> Values]] /\ DOMAIN bkBundle = {}
    OBVIOUS
  <2>5. bkCurrent \in (BackedUp \union {Store!NoNode}) \X (Nat \ {0})
    OBVIOUS
  <2>6. \A n, m \in BackedUp : bkAt[n] = bkAt[m] /\ bkAt[n] # Store!Away => n = m
    OBVIOUS
  <2>. QED BY <2>2, <2>3, <2>4, <2>5, <2>6 DEF BackTypes
<1>2. BackOwn
  <2>1. 0 \in Store!Versions
    BY DEF Store!Versions, Store!Sizes
  <2>2. \A n \in BackedUp : Store!Value(n, 0) \in Store!Own(n)
    BY <2>1 DEF Store!Own
  <2>. QED BY <2>2 DEF BackOwn
<1>3. BackWay /\ BackParted /\ BackMatch
  BY DEF BackWay, BackParted, BackMatch
<1>. QED BY <1>1, <1>2, <1>3 DEF BackInv

\* Others: a setting is edited, a node changes its place.
LEMMA EditKeeps ==
  ASSUME Store!Sizes, BackInv, NEW n \in BackedUp, NEW p \in Parts, Store!Edit(n, p)
  PROVE  BackInv'
<1>. DEFINE new == Store!Value(n, bkEdits')
<1>1. /\ UNCHANGED <<bkAt, bkStage, bkList, bkBundle, bkPending, bkLeft, bkCurrent, bkOk, bkMissing, bkFailed>>
      /\ bkLive' = [bkLive EXCEPT ![n][p] = new]
      /\ bkEdits' \in 0 .. MaxEdits
      /\ bkStirred' = (bkStirred \/ bkStage \in {"list", "restore"})
  BY DEF Store!Edit, Store!result, BackInv, BackTypes, Store!Sizes
<1>2. new \in Store!Own(n) /\ new \in Values
  <2>1. new \in Store!Own(n)
    BY <1>1 DEF Store!Own, Store!Versions
  <2>. QED BY <2>1, BackedAre, OwnAreValues
<1>. HIDE DEF new
<1>3. bkLive' \in [BackedUp -> [Parts -> Values]]
      /\ \A m \in BackedUp, q \in Parts : bkLive'[m][q] = IF m = n /\ q = p THEN new ELSE bkLive[m][q]
  BY <1>1, <1>2 DEF BackInv, BackTypes
<1>4. BackTypes'
  BY <1>1, <1>3 DEF BackInv, BackTypes
<1>5. BackOwn'
  BY <1>1, <1>2, <1>3 DEF BackInv, BackOwn
<1>6. BackWay' /\ BackParted' /\ BackMatch'
  BY <1>1 DEF BackInv, BackWay, BackParted, BackMatch, InHand
<1>. QED BY <1>4, <1>5, <1>6 DEF BackInv

LEMMA MoveKeeps == ASSUME Store!Sizes, BackInv, Store!Move PROVE BackInv'
<1>1. /\ UNCHANGED <<bkLive, bkEdits, bkStage, bkList, bkBundle, bkPending, bkLeft, bkCurrent, bkOk, bkMissing, bkFailed>>
      /\ bkStirred' = (bkStirred \/ Store!Busy)
  BY DEF Store!Move, Store!result
<1>2. bkAt' \in [BackedUp -> Nat]
      /\ \A n, m \in BackedUp : bkAt'[n] = bkAt'[m] /\ bkAt'[n] # Store!Away => n = m
  <2>1. CASE \E n \in BackedUp : bkAt' = [bkAt EXCEPT ![n] = Store!Away]
    BY <2>1 DEF BackInv, BackTypes, Store!Away
  <2>2. CASE \E n, m \in BackedUp : n # m /\ bkAt' = [bkAt EXCEPT ![n] = bkAt[m], ![m] = bkAt[n]]
    <3>1. PICK n, m \in BackedUp : n # m /\ bkAt' = [bkAt EXCEPT ![n] = bkAt[m], ![m] = bkAt[n]]
      BY <2>2
    <3>2. bkAt' \in [BackedUp -> Nat] /\ \A k \in BackedUp : bkAt'[k] = IF k = m THEN bkAt[n] ELSE IF k = n THEN bkAt[m] ELSE bkAt[k]
      BY <3>1 DEF BackInv, BackTypes
    <3>. QED BY <3>1, <3>2 DEF BackInv, BackTypes
  <2>3. CASE \E n \in BackedUp : bkAt[n] = Store!Away /\ bkAt' = [bkAt EXCEPT ![n] = n] /\ n \notin {bkAt[m] : m \in BackedUp}
    <3>1. PICK n \in BackedUp : bkAt' = [bkAt EXCEPT ![n] = n] /\ n \notin {bkAt[m] : m \in BackedUp}
      BY <2>3
    <3>2. bkAt' \in [BackedUp -> Nat] /\ \A k \in BackedUp : bkAt'[k] = IF k = n THEN n ELSE bkAt[k]
      BY <3>1, BackedAre DEF BackInv, BackTypes
    <3>. QED BY <3>1, <3>2 DEF BackInv, BackTypes
  <2>. QED BY <2>1, <2>2, <2>3 DEF Store!Move
<1>3. BackTypes'
  BY <1>1, <1>2 DEF BackInv, BackTypes, Store!Busy
<1>4. BackOwn'
  BY <1>1 DEF BackInv, BackOwn
<1>5. BackWay' /\ BackParted' /\ BackMatch'
  BY <1>1 DEF BackInv, BackWay, BackParted, BackMatch, InHand, Store!Busy, Matches
<1>. QED BY <1>3, <1>4, <1>5 DEF BackInv

\* The file is made.
LEMMA DownloadKeeps == ASSUME Store!Sizes, BackInv, Store!Download PROVE BackInv'
<1>. DEFINE there == {m \in BackedUp : bkAt[m] # Store!Away}
<1>1. /\ UNCHANGED <<bkLive, bkAt, bkEdits, bkLeft, bkCurrent, bkOk, bkMissing, bkFailed, bkStirred>>
      /\ bkStage = "idle" /\ bkStage' = "collect" /\ bkList' = bkAt
      /\ bkBundle' = [n \in there |-> [p \in Parts |-> Store!Null]]
      /\ bkPending' = there \X Parts
  BY DEF Store!Download, Store!result, Store!world
<1>2. DOMAIN bkBundle' = there /\ bkBundle' \in [there -> [Parts -> Values]] /\ there \subseteq BackedUp
  BY <1>1 DEF Store!Null, Values
<1>3. BackTypes'
  BY <1>1, <1>2 DEF BackInv, BackTypes
<1>4. BackOwn'
  BY <1>1, <1>2 DEF BackInv, BackOwn
<1>5. BackWay'
  <2>1. bkPending' \subseteq (DOMAIN bkBundle') \X Parts
    BY <1>1, <1>2
  <2>2. \A n \in there : bkList'[n] # Store!Away
    BY <1>1
  <2>3. bkCurrent'[1] = Store!NoNode
    BY <1>1 DEF BackInv, BackWay
  <2>. HIDE DEF there
  <2>. QED BY <1>1, <1>2, <2>1, <2>2, <2>3 DEF BackWay
<1>6. BackParted' /\ BackMatch'
  BY <1>1 DEF BackParted, BackMatch
<1>. QED BY <1>3, <1>4, <1>5, <1>6 DEF BackInv

LEMMA ReadKeeps ==
  ASSUME Store!Sizes, BackInv, NEW n \in BackedUp, NEW p \in Parts, Store!Read(n, p)
  PROVE  BackInv'
<1>1. /\ UNCHANGED <<bkLive, bkAt, bkEdits, bkStage, bkList, bkLeft, bkCurrent, bkOk, bkMissing, bkFailed, bkStirred>>
      /\ bkStage = "collect" /\ <<n, p>> \in bkPending
      /\ bkPending' \subseteq bkPending
      /\ \/ \E m \in Store!At(n) : bkBundle' = [bkBundle EXCEPT ![n][p] = bkLive[m][p]]
         \/ UNCHANGED bkBundle
  BY DEF Store!Read, Store!result, Store!world
<1>2. n \in DOMAIN bkBundle
  <2>1. bkPending \subseteq (DOMAIN bkBundle) \X Parts
    BY <1>1 DEF BackInv, BackWay
  <2>2. <<n, p>> \in (DOMAIN bkBundle) \X Parts
    BY <1>1, <2>1
  <2>. QED BY <2>2
<1>3. CASE UNCHANGED bkBundle
  BY <1>1, <1>3 DEF BackInv, BackTypes, BackOwn, BackWay, BackParted, BackMatch
<1>4. CASE \E m \in Store!At(n) : bkBundle' = [bkBundle EXCEPT ![n][p] = bkLive[m][p]]
  <2>1. PICK m \in BackedUp : m \in Store!At(n) /\ bkBundle' = [bkBundle EXCEPT ![n][p] = bkLive[m][p]]
    BY <1>4 DEF Store!At
  <2>2. ~bkStirred => m = n
    BY <1>1, <1>2, <2>1 DEF BackInv, BackWay, BackTypes, Store!At
  <2>3. bkLive[m][p] \in Values
    BY <2>1 DEF BackInv, BackTypes
  <2>4. /\ DOMAIN bkBundle' = DOMAIN bkBundle /\ bkBundle' \in [DOMAIN bkBundle -> [Parts -> Values]]
        /\ \A k \in DOMAIN bkBundle, q \in Parts : bkBundle'[k][q] = IF k = n /\ q = p THEN bkLive[m][p] ELSE bkBundle[k][q]
    BY <1>2, <2>1, <2>3 DEF BackInv, BackTypes
  <2>5. BackTypes'
    BY <1>1, <2>4 DEF BackInv, BackTypes
  <2>6. BackOwn'
    BY <1>1, <2>1, <2>2, <2>4 DEF BackInv, BackOwn
  <2>7. BackWay'
    <3>1. DOMAIN bkBundle' = DOMAIN bkBundle
      BY <2>4
    <3>. QED BY <1>1, <3>1 DEF BackInv, BackWay
  <2>8. BackParted' /\ BackMatch'
    BY <1>1 DEF BackParted, BackMatch
  <2>. QED BY <2>5, <2>6, <2>7, <2>8 DEF BackInv
<1>. QED BY <1>1, <1>3, <1>4

LEMMA PreviewKeeps ==
  ASSUME Store!Sizes, BackInv, Store!Saved \/ Store!Preview \/ Store!Cancel \/ Store!Apply \/ Store!Restored
  PROVE  BackInv'
<1>1. /\ UNCHANGED <<bkLive, bkAt, bkEdits, bkList, bkBundle, bkPending, bkCurrent, bkStirred>>
      /\ bkStage = "restore" => bkCurrent[1] = Store!NoNode
      /\ \/ bkStage' \in {"saved", "preview", "over"}
         \/ bkStage' = "list" /\ bkLeft' = DOMAIN bkBundle /\ bkOk' = {} /\ bkMissing' = {} /\ bkFailed' = {}
  BY DEF Store!Saved, Store!Preview, Store!Cancel, Store!Apply, Store!Restored, Store!result, Store!world
<1>2. BackTypes' /\ BackOwn'
  BY <1>1 DEF BackInv, BackTypes, BackOwn
<1>3. BackWay' /\ BackParted' /\ BackMatch'
  BY <1>1 DEF BackInv, BackWay, BackParted, BackMatch
<1>. QED BY <1>2, <1>3 DEF BackInv

LEMMA ListNowKeeps == ASSUME Store!Sizes, BackInv, Store!ListNow PROVE BackInv'
<1>1. /\ UNCHANGED <<bkLive, bkAt, bkEdits, bkBundle, bkPending, bkLeft, bkCurrent, bkOk, bkMissing, bkFailed, bkStirred>>
      /\ bkStage = "list" /\ bkStage' = "restore"
      /\ bkList' = bkAt \/ bkList' = [n \in BackedUp |-> Store!Away]
  BY DEF Store!ListNow, Store!Refetch, Store!result, Store!world
<1>2. bkList' \in [BackedUp -> Nat] /\ \A n \in BackedUp : bkList'[n] \in {Store!Away, bkAt[n]}
  BY <1>1 DEF BackInv, BackTypes, Store!Away
<1>3. bkCurrent[1] = Store!NoNode /\ InHand' = {}
  BY <1>1 DEF BackInv, BackWay, InHand
<1>4. BackTypes' /\ BackOwn'
  BY <1>1, <1>2 DEF BackInv, BackTypes, BackOwn
<1>5. BackWay' /\ BackMatch'
  BY <1>1, <1>2, <1>3 DEF BackInv, BackWay, BackMatch, BackParted
<1>6. BackParted'
  BY <1>1, <1>3 DEF BackInv, BackParted
<1>. QED BY <1>4, <1>5, <1>6 DEF BackInv

\* The restore takes the nodes of the file one by one.
LEMMA NextNodeKeeps == ASSUME Store!Sizes, BackInv, Store!NextNode PROVE BackInv'
<1>1. /\ UNCHANGED <<bkLive, bkAt, bkEdits, bkStage, bkList, bkBundle, bkPending, bkOk, bkFailed, bkStirred>>
      /\ bkStage = "restore" /\ bkCurrent[1] = Store!NoNode
  BY DEF Store!NextNode, Store!world
<1>2. PICK n \in bkLeft :
        /\ bkLeft' = bkLeft \ {n}
        /\ \/ bkList[n] = Store!Away /\ bkMissing' = bkMissing \union {n} /\ UNCHANGED bkCurrent
           \/ bkList[n] # Store!Away /\ bkCurrent' = <<n, 1>> /\ UNCHANGED bkMissing
  BY DEF Store!NextNode
<1>3. n \in DOMAIN bkBundle /\ n \in BackedUp /\ n # Store!NoNode /\ InHand = {}
  BY <1>1, BackedAre DEF BackInv, BackParted, BackTypes, InHand, Store!NoNode
<1>4. BackTypes' /\ BackOwn'
  BY <1>1, <1>2, <1>3 DEF BackInv, BackTypes, BackOwn
<1>5. BackWay'
  BY <1>1, <1>2, <1>3 DEF BackInv, BackWay
<1>6. BackParted'
  <2>1. CASE bkMissing' = bkMissing \union {n} /\ UNCHANGED bkCurrent
    <3>1. InHand' = {}
      BY <1>3, <2>1 DEF InHand
    <3>. QED BY <1>1, <1>2, <1>3, <2>1, <3>1 DEF BackInv, BackParted
  <2>2. CASE bkCurrent' = <<n, 1>> /\ UNCHANGED bkMissing
    <3>1. InHand' = {n}
      BY <1>3, <2>2 DEF InHand
    <3>. QED BY <1>1, <1>2, <1>3, <2>2, <3>1 DEF BackInv, BackParted
  <2>. QED BY <1>2, <2>1, <2>2
<1>7. BackMatch'
  <2>1. \A q \in Parts : ~(q < 1)
    BY BackedAre
  <2>. QED BY <1>1, <1>2, <1>3, <2>1 DEF BackInv, BackMatch, Matches
<1>. QED BY <1>4, <1>5, <1>6, <1>7 DEF BackInv

\* A result for the node in hand moves it to its pile.
LEMMA PileKeeps ==
  ASSUME BackInv, bkStage = "restore", UNCHANGED <<bkStage, bkBundle, bkLeft, bkMissing>>,
         bkCurrent[1] # Store!NoNode,
         \/ InHand' = {} /\ bkOk' = bkOk \union InHand /\ UNCHANGED bkFailed
         \/ InHand' = {} /\ bkFailed' = bkFailed \union InHand /\ UNCHANGED bkOk
         \/ InHand' = InHand /\ UNCHANGED <<bkOk, bkFailed>>
  PROVE  BackParted'
BY DEF BackInv, BackParted

LEMMA WritePartKeeps == ASSUME Store!Sizes, BackInv, Store!WritePart PROVE BackInv'
<1>. DEFINE n == bkCurrent[1]
            p == bkCurrent[2]
<1>1. /\ UNCHANGED <<bkAt, bkEdits, bkStage, bkList, bkBundle, bkPending, bkLeft, bkMissing, bkFailed, bkStirred>>
      /\ bkStage = "restore" /\ n # Store!NoNode /\ p <= Store!Last
      /\ Store!Written(n, p)
      /\ \/ p = Store!Last /\ bkCurrent' = <<Store!NoNode, 1>> /\ bkOk' = bkOk \union {n}
         \/ p # Store!Last /\ bkCurrent' = <<n, p + 1>> /\ UNCHANGED bkOk
  BY DEF Store!WritePart
<1>2. n \in BackedUp /\ p \in Nat \ {0} /\ p \in Parts
  BY <1>1, BackedAre DEF BackInv, BackTypes
<1>3. InHand = {n} /\ n \in DOMAIN bkBundle /\ n \notin bkOk
  BY <1>1 DEF InHand, BackInv, BackParted
<1>4. /\ bkLive' \in [BackedUp -> [Parts -> Values]]
      /\ ~bkStirred => /\ \A m \in BackedUp, q \in Parts : m # n \/ q # p => bkLive'[m][q] = bkLive[m][q]
                       /\ bkLive'[n][p] \in Store!Own(n) /\ bkBundle[n][p] \in {Store!Null, bkLive'[n][p]}
  <2>1. CASE bkBundle[n][p] = Store!Null /\ UNCHANGED bkLive
    BY <1>2, <2>1 DEF BackInv, BackTypes, BackOwn
  <2>2. CASE bkBundle[n][p] # Store!Null /\ \E m \in Store!At(n) : bkLive' = [bkLive EXCEPT ![m][p] = bkBundle[n][p]]
    <3>1. PICK m \in BackedUp : m \in Store!At(n) /\ bkLive' = [bkLive EXCEPT ![m][p] = bkBundle[n][p]]
      BY <2>2 DEF Store!At
    <3>2. bkBundle[n][p] \in Values
      BY <1>2, <1>3 DEF BackInv, BackTypes
    <3>3. ~bkStirred => m = n
      BY <1>1, <1>2, <3>1 DEF BackInv, BackWay, BackTypes, Store!At
    <3>4. /\ bkLive' \in [BackedUp -> [Parts -> Values]]
          /\ \A k \in BackedUp, q \in Parts : bkLive'[k][q] = IF k = m /\ q = p THEN bkBundle[n][p] ELSE bkLive[k][q]
      BY <1>2, <3>1, <3>2 DEF BackInv, BackTypes
    <3>5. ~bkStirred => bkBundle[n][p] \in Store!Own(n)
      BY <1>2, <1>3, <2>2 DEF BackInv, BackOwn
    <3>. QED BY <1>2, <3>3, <3>4, <3>5
  <2>. QED BY <1>1, <2>1, <2>2 DEF Store!Written
<1>. HIDE DEF n, p
<1>5. bkCurrent' \in (BackedUp \union {Store!NoNode}) \X (Nat \ {0})
  BY <1>1, <1>2
<1>6. BackTypes'
  BY <1>1, <1>4, <1>5 DEF BackInv, BackTypes
<1>7. BackOwn'
  BY <1>1, <1>2, <1>4 DEF BackInv, BackOwn
<1>8. BackWay'
  <2>1. bkList[n] # Store!Away
    BY <1>1 DEF BackInv, BackWay, n
  <2>. QED BY <1>1, <2>1 DEF BackInv, BackWay
<1>9. BackParted'
  <2>1. \/ InHand' = {} /\ bkOk' = bkOk \union InHand
        \/ InHand' = InHand /\ UNCHANGED bkOk
    BY <1>1, <1>2, <1>3 DEF InHand
  <2>. QED BY <1>1, <2>1, PileKeeps DEF n
<1>10. BackMatch'
  <2>. SUFFICES ASSUME ~bkStirred PROVE BackMatch'
    BY <1>1 DEF BackMatch
  <2>1. \A q \in Parts : q < p + 1 => q < p \/ q = p
    BY <1>2, BackedAre
  <2>2. \A q \in Parts : q < p => bkBundle[n][q] \in {Store!Null, bkLive[n][q]}
    BY <1>1 DEF BackInv, BackMatch, Matches, n, p
  <2>3. \A q \in Parts : q < p \/ q = p => bkBundle[n][q] \in {Store!Null, bkLive'[n][q]}
    BY <1>2, <1>4, <2>2
  <2>4. \A m \in bkOk, q \in Parts : bkBundle[m][q] \in {Store!Null, bkLive'[m][q]}
    <3>1. \A m \in bkOk : m \in BackedUp /\ m # n
      BY <1>1, <1>3 DEF BackInv, BackParted, BackTypes
    <3>. QED BY <1>1, <1>4, <3>1 DEF BackInv, BackMatch, Matches
  <2>5. p = Store!Last => \A q \in Parts : q < p \/ q = p
    BY <1>2, BackedAre
  <2>6. CASE p = Store!Last /\ bkCurrent' = <<Store!NoNode, 1>> /\ bkOk' = bkOk \union {n}
    BY <1>1, <2>3, <2>4, <2>5, <2>6 DEF BackMatch, Matches
  <2>7. CASE p # Store!Last /\ bkCurrent' = <<n, p + 1>> /\ UNCHANGED bkOk
    BY <1>1, <2>1, <2>3, <2>4, <2>7 DEF BackMatch, Matches
  <2>. QED BY <1>1, <2>6, <2>7
<1>. QED BY <1>6, <1>7, <1>8, <1>9, <1>10 DEF BackInv

LEMMA WriteFailsKeeps == ASSUME Store!Sizes, BackInv, Store!WriteFails PROVE BackInv'
<1>1. /\ UNCHANGED <<bkLive, bkAt, bkEdits, bkStage, bkList, bkBundle, bkPending, bkLeft, bkOk, bkMissing, bkStirred>>
      /\ bkStage = "restore" /\ bkCurrent[1] # Store!NoNode
      /\ bkFailed' = bkFailed \union {bkCurrent[1]} /\ bkCurrent' = <<Store!NoNode, 1>>
  BY DEF Store!WriteFails, Store!GiveUp, Store!world
<1>2. InHand = {bkCurrent[1]} /\ InHand' = {}
  BY <1>1 DEF InHand
<1>3. BackParted'
  BY <1>1, <1>2, PileKeeps
<1>. QED BY <1>1, <1>3 DEF BackInv, BackTypes, BackOwn, BackWay, BackMatch, Matches

LEMMA BackStays == ASSUME Store!Sizes, BackInv, [Store!Next]_(Store!vars) PROVE BackInv'
<1>1. CASE Store!Next
  BY <1>1, EditKeeps, MoveKeeps, DownloadKeeps, ReadKeeps, PreviewKeeps, ListNowKeeps, NextNodeKeeps,
     WritePartKeeps, WriteFailsKeeps DEF Store!Next
<1>2. CASE UNCHANGED Store!vars
  BY <1>2 DEF Store!vars, Store!world, Store!result, BackInv, BackTypes, BackOwn, BackWay, BackParted, BackMatch,
              Matches, InHand
<1>. QED BY <1>1, <1>2

LEMMA BackGives == ASSUME Store!Sizes, BackInv PROVE Store!OwnSettings /\ Store!SummaryTrue
<1>1. Store!OwnSettings
  BY DEF BackInv, BackOwn, Store!OwnSettings
<1>2. ASSUME bkStage = "restore", bkCurrent[1] = Store!NoNode, bkLeft = {}, ~bkStirred
      PROVE  /\ \A n \in bkOk, p \in Parts : bkBundle[n][p] \in {Store!Null, bkLive[n][p]}
             /\ bkOk \union bkMissing \union bkFailed = DOMAIN bkBundle
             /\ Cardinality(bkOk) + Cardinality(bkMissing) + Cardinality(bkFailed) = Cardinality(DOMAIN bkBundle)
  <2>1. \A n \in bkOk, p \in Parts : bkBundle[n][p] \in {Store!Null, bkLive[n][p]}
    BY <1>2 DEF BackInv, BackMatch, Matches
  <2>2. /\ bkOk \union bkMissing \union bkFailed = DOMAIN bkBundle
        /\ bkOk \cap bkMissing = {} /\ (bkOk \union bkMissing) \cap bkFailed = {}
    BY <1>2 DEF BackInv, BackParted, InHand
  <2>3. IsFiniteSet(DOMAIN bkBundle)
    BY FS_Subset, StoreFinite DEF Store!Sizes, BackInv, BackTypes
  <2>4. IsFiniteSet(bkOk) /\ IsFiniteSet(bkMissing) /\ IsFiniteSet(bkFailed) /\ IsFiniteSet(bkOk \union bkMissing)
    BY <2>2, <2>3, FS_Subset
  <2>5. Cardinality(bkOk \union bkMissing) = Cardinality(bkOk) + Cardinality(bkMissing)
    <3>1. Cardinality(bkOk \cap bkMissing) = 0
      BY <2>2, FS_EmptySet
    <3>2. Cardinality(bkOk \union bkMissing) = Cardinality(bkOk) + Cardinality(bkMissing) - 0
      BY <2>4, <3>1, FS_Union
    <3>. QED BY <2>4, <3>2, FS_CardinalityType
  <2>6. Cardinality(DOMAIN bkBundle) = Cardinality(bkOk \union bkMissing) + Cardinality(bkFailed)
    <3>1. Cardinality((bkOk \union bkMissing) \cap bkFailed) = 0
      BY <2>2, FS_EmptySet
    <3>2. Cardinality((bkOk \union bkMissing) \union bkFailed)
            = Cardinality(bkOk \union bkMissing) + Cardinality(bkFailed) - 0
      BY <2>4, <3>1, FS_Union
    <3>. QED BY <2>2, <2>4, <3>2, FS_CardinalityType
  <2>. QED BY <2>1, <2>2, <2>5, <2>6
<1>. QED BY <1>1, <1>2, StoreCount DEF Store!SummaryTrue

HIDE DEF bkLive, bkAt, bkEdits, bkStage, bkList, bkBundle, bkPending, bkShown, bkLeft, bkCurrent, bkOk,
        bkMissing, bkFailed, bkStirred
-----------------------------------------------------------------------------
(* PageRouter: the timer of the open page, and who paints *)

rtPage      == x1
rtShown     == x2
rtIntervals == x5
rtTimer     == x6

USE DEF rtPage, rtShown, rtIntervals, rtTimer

RouterInv == /\ rtIntervals \in [Pages -> Nat] /\ rtTimer \in Pages \union {"none"}
             /\ Router!TimerIsOwn

LEMMA NoPageIsNone == ASSUME Router!PageOK PROVE Pages \cap {"none", "rebooting"} = {}
BY DEF Router!PageOK, Router!AllPages

LEMMA RouterInit == ASSUME Router!Init PROVE RouterInv
BY DEF Router!Init, RouterInv, Router!TimerIsOwn

LEMMA RouterStays == ASSUME Router!PageOK, RouterInv, [Router!Next]_(Router!vars) PROVE RouterInv'
<1>. USE NoPageIsNone DEF RouterInv, Router!TimerIsOwn
<1>1. ASSUME Router!StopPollTimer PROVE RouterInv'
  <2>1. \A p \in Pages : p = rtTimer => rtIntervals[p] - 1 \in Nat
    OBVIOUS
  <2>. QED BY <1>1, <2>1 DEF Router!StopPollTimer
<1>2. ASSUME NEW p \in Pages, Router!LoadFromHash(p) \/ Router!ShowRebooting PROVE RouterInv'
  BY <1>1, <1>2 DEF Router!LoadFromHash, Router!ShowRebooting
<1>3. ASSUME NEW p \in Pages, NEW ok \in BOOLEAN, Router!LoadEnds(p, ok) PROVE RouterInv'
  <2>1. CASE rtPage = p /\ Router!Armed(p)
    BY <1>3, <2>1 DEF Router!LoadEnds, Router!Armed
  <2>2. CASE UNCHANGED <<rtIntervals, rtTimer>>
    BY <1>3, <2>2 DEF Router!LoadEnds
  <2>. QED BY <1>3, <2>1, <2>2 DEF Router!LoadEnds
<1>4. ASSUME NEW p \in Pages, Router!Tick(p) \/ Router!RefreshButton(p) \/ Router!StatusHook PROVE RouterInv'
  BY <1>4 DEF Router!Tick, Router!RefreshButton, Router!StatusHook, Router!Repaint
<1>5. ASSUME NEW p \in Pages, NEW ok \in BOOLEAN, Router!RepaintEnds(p, ok) PROVE RouterInv'
  BY <1>5 DEF Router!RepaintEnds
<1>6. CASE Router!Reload
  BY <1>6 DEF Router!Reload
<1>7. CASE Router!StatusHook
  BY <1>7 DEF Router!StatusHook, Router!Repaint
<1>8. CASE Router!ShowRebooting
  BY <1>1, <1>8 DEF Router!ShowRebooting
<1>9. CASE UNCHANGED Router!vars
  BY <1>9 DEF Router!vars
<1>. QED BY <1>2, <1>3, <1>4, <1>5, <1>6, <1>7, <1>8, <1>9 DEF Router!Next

LEMMA RouterPaints == ASSUME Router!PageOK, Router!Next PROVE Router!PaintsOwnPage
<1>. USE NoPageIsNone DEF Router!PaintsOwnPage
<1>1. ASSUME NEW p \in Pages, NEW ok \in BOOLEAN, Router!Painted(p, ok), UNCHANGED rtPage PROVE Router!PaintsOwnPage
  BY <1>1 DEF Router!Painted, Router!MayPaint
<1>2. ASSUME NEW p \in Pages, Router!LoadFromHash(p) PROVE Router!PaintsOwnPage
  BY <1>2 DEF Router!LoadFromHash
<1>3. ASSUME UNCHANGED rtShown PROVE Router!PaintsOwnPage
  BY <1>3
<1>4. ASSUME NEW p \in Pages, Router!Tick(p) \/ Router!RefreshButton(p) PROVE UNCHANGED rtShown
  BY <1>4 DEF Router!Tick, Router!RefreshButton, Router!Repaint
<1>5. ASSUME Router!StatusHook PROVE UNCHANGED rtShown
  BY <1>5 DEF Router!StatusHook, Router!Repaint
<1>6. ASSUME NEW p \in Pages, NEW ok \in BOOLEAN, Router!LoadEnds(p, ok) \/ Router!RepaintEnds(p, ok)
      PROVE  Router!Painted(p, ok) /\ UNCHANGED rtPage
  BY <1>6 DEF Router!LoadEnds, Router!RepaintEnds
<1>7. ASSUME Router!ShowRebooting \/ Router!Reload PROVE Router!PaintsOwnPage
  BY <1>7 DEF Router!ShowRebooting, Router!Reload
<1>. QED BY <1>1, <1>2, <1>3, <1>4, <1>5, <1>6, <1>7 DEF Router!Next

HIDE DEF rtPage, rtShown, rtIntervals, rtTimer
-----------------------------------------------------------------------------
(* TestDesk: the newest frame and the desk *)

dkFill      == x1
dkState     == x2
dkTimer     == x3
dkPosts     == x4
dkLast      == x5
dkOutput    == x6
dkOutputOf  == x7
dkDisturbed == x8

USE DEF dkFill, dkState, dkTimer, dkPosts, dkLast, dkOutput, dkOutputOf, dkDisturbed

DeskShows(frame) == dkTimer \/ frame = Desk!testEffective(dkFill, dkState)
\* Frames are numbered as they were sent; the newest is under way or the output, and shows
\* the desk unless the timer is still to send a newer one.
DeskInv ==
  /\ dkLast \in Nat /\ dkOutputOf \in 0 .. dkLast /\ dkTimer \in BOOLEAN /\ dkDisturbed \in BOOLEAN
  /\ \A p \in dkPosts : p.number \in 1 .. dkLast /\ p.number # dkOutputOf
  /\ \A p, q \in dkPosts : p.number = q.number => p = q
  /\ \A p \in dkPosts : p.number = dkLast => DeskShows(p.frame)
  /\ dkLast > 0 /\ ~dkDisturbed => \/ \E p \in dkPosts : p.number = dkLast
                                   \/ dkOutputOf = dkLast /\ DeskShows(dkOutput)

LEMMA DeskInit == ASSUME Desk!Init PROVE DeskInv
<1>1. dkPosts = {} /\ dkLast = 0 /\ dkOutputOf = 0 /\ dkTimer = FALSE /\ dkDisturbed = FALSE
  BY DEF Desk!Init
<1>2. dkLast \in Nat /\ dkOutputOf \in 0 .. dkLast /\ ~(dkLast > 0)
  BY <1>1
<1>. QED BY <1>1, <1>2 DEF DeskInv

\* A frame of the desk as it stands is sent.
LEMMA FrameKeeps ==
  ASSUME DeskInv, Desk!Frame(dkFill', dkState'), dkTimer' \in BOOLEAN, UNCHANGED <<dkOutput, dkOutputOf, dkDisturbed>>
  PROVE  DeskInv'
<1>. DEFINE new == [number |-> dkLast + 1, frame |-> Desk!testEffective(dkFill', dkState')]
<1>1. dkPosts' = dkPosts \union {new} /\ dkLast' = dkLast + 1
  BY DEF Desk!Frame
<1>2. new.number = dkLast + 1 /\ new.frame = Desk!testEffective(dkFill', dkState')
  OBVIOUS
<1>3. \A p \in dkPosts : p.number \in 1 .. dkLast
  BY DEF DeskInv
<1>. HIDE DEF new
<1>4. \A p, q \in dkPosts' : p.number = q.number => p = q
  BY <1>1, <1>2, <1>3 DEF DeskInv
<1>5. \A p \in dkPosts' : p.number = dkLast' => DeskShows(p.frame)'
  <2>1. \A p \in dkPosts' : p.number = dkLast' => p = new
    BY <1>1, <1>2, <1>3 DEF DeskInv
  <2>. QED BY <1>2, <2>1 DEF DeskShows
<1>6. new \in dkPosts' /\ new.number = dkLast'
  BY <1>1, <1>2
<1>. QED BY <1>1, <1>2, <1>3, <1>4, <1>5, <1>6 DEF DeskInv

LEMMA ServedKeeps == ASSUME DeskInv, NEW p \in dkPosts, Desk!Served(p) \/ Desk!Lost(p) PROVE DeskInv'
<1>1. CASE Desk!Served(p)
  <2>1. /\ UNCHANGED <<dkFill, dkState, dkTimer, dkLast>> /\ dkPosts' = dkPosts \ {p}
        /\ dkOutput' = p.frame /\ dkOutputOf' = p.number /\ dkDisturbed' = (dkDisturbed \/ dkOutputOf > p.number)
    BY <1>1 DEF Desk!Served
  <2>2. ASSUME ~dkDisturbed', dkLast > 0
        PROVE  \/ \E q \in dkPosts' : q.number = dkLast
               \/ dkOutputOf' = dkLast /\ DeskShows(dkOutput)'
    <3>1. CASE p.number = dkLast
      BY <2>1, <3>1 DEF DeskInv, DeskShows
    <3>2. CASE \E q \in dkPosts : q.number = dkLast /\ q # p
      BY <2>1, <3>2
    <3>3. ASSUME dkOutputOf = dkLast PROVE FALSE
      <4>1. p.number \in 1 .. dkLast /\ p.number # dkLast /\ dkLast \in Nat
        BY <3>3 DEF DeskInv
      <4>2. dkOutputOf > p.number
        BY <3>3, <4>1
      <4>. QED BY <2>1, <2>2, <4>2
    <3>4. ~dkDisturbed
      BY <2>1, <2>2 DEF DeskInv
    <3>. QED BY <2>2, <3>1, <3>2, <3>3, <3>4 DEF DeskInv
  <2>. QED BY <2>1, <2>2 DEF DeskInv, DeskShows
<1>2. CASE Desk!Lost(p)
  BY <1>2 DEF Desk!Lost, DeskInv, DeskShows
<1>. QED BY <1>1, <1>2

LEMMA DeskStays == ASSUME DeskInv, [Desk!Next]_(Desk!vars) PROVE DeskInv'
<1>1. ASSUME NEW level \in Desk!Levels, Desk!SetAll(level) PROVE DeskInv'
  BY <1>1, FrameKeeps DEF Desk!SetAll, DeskInv
<1>2. ASSUME NEW c \in Channels, NEW level \in Desk!Levels, Desk!testSetOne(c, level) PROVE DeskInv'
  BY <1>2, FrameKeeps DEF Desk!testSetOne, DeskInv
<1>3. ASSUME NEW c \in Channels, NEW level \in Desk!Levels, Desk!testFader(c, level) PROVE DeskInv'
  BY <1>3 DEF Desk!testFader, Desk!Restarted, DeskInv, DeskShows
<1>4. CASE Desk!TimerFires
  BY <1>4, FrameKeeps DEF Desk!TimerFires
<1>5. ASSUME UNCHANGED Desk!desk PROVE DeskInv'
  BY <1>5 DEF Desk!desk, DeskInv, DeskShows
<1>6. ASSUME Desk!masterCue \/ (\E q \in Quads, how \in {"done", "failed"} : Desk!RecallEnds(q, how))
             \/ UNCHANGED Desk!vars
      PROVE  UNCHANGED Desk!desk
  BY <1>6 DEF Desk!masterCue, Desk!RecallEnds, Desk!vars, Desk!desk
<1>. QED BY <1>1, <1>2, <1>3, <1>4, <1>5, <1>6, ServedKeeps DEF Desk!Next

LEMMA DeskGives == ASSUME DeskInv PROVE Desk!OutputIsDesk
BY DEF DeskInv, DeskShows, Desk!OutputIsDesk, Desk!Quiet

HIDE DEF dkFill, dkState, dkTimer, dkPosts, dkLast, dkOutput, dkOutputOf, dkDisturbed
-----------------------------------------------------------------------------
\* A finite set has more than one element when it has two different ones.
LEMMA TwoAre ==
  ASSUME NEW S, IsFiniteSet(S)
  PROVE  Cardinality(S) > 1 <=> \E x, y \in S : x # y
<1>1. Cardinality(S) \in Nat
  BY FS_CardinalityType
<1>2. CASE S = {}
  BY <1>2, FS_EmptySet
<1>3. CASE \E x : S = {x}
  BY <1>3, FS_Singleton
<1>4. CASE S # {} /\ ~\E x : S = {x}
  <2>1. PICK x, y \in S : x # y
    BY <1>4
  <2>2. Cardinality(S) # 0 /\ Cardinality(S) # 1
    BY <1>4, FS_EmptySet, FS_Singleton
  <2>. QED BY <1>1, <2>1, <2>2
<1>. QED BY <1>2, <1>3, <1>4

-----------------------------------------------------------------------------
(* FleetTables: what the tables say of the answers *)

ftPage    == x1
ftAnswers == x2
ftTable   == x3

USE DEF ftPage, ftAnswers, ftTable

Built == CASE ftPage = "universes" -> Fleet!UniverseMap
           [] ftPage = "network" -> Fleet!IpOverview
           [] ftPage = "monitor" -> Fleet!MonitorRows
\* The table is built once, of all the answers.
FleetInv ==
  /\ ftPage \in {"universes", "network", "monitor"}
  /\ \A x \in Fleet!Asked : ftAnswers[x] \in {Fleet!Waiting, Fleet!Nothing} \union Fleet!Answers
  /\ ftAnswers \in [Fleet!Things -> {ftAnswers[x] : x \in Fleet!Things}]
  /\ ftTable # Fleet!Waiting => (\A x \in Fleet!Asked : ftAnswers[x] # Fleet!Waiting) /\ ftTable = Built

LEMMA FleetInit == ASSUME Fleet!Init PROVE FleetInv
<1>1. ftPage \in {"universes", "network", "monitor"} /\ ftAnswers = [x \in Fleet!Things |-> Fleet!Waiting] /\ ftTable = Fleet!Waiting
  BY DEF Fleet!Init
<1>2. Fleet!Asked \subseteq Fleet!Things
  BY <1>1 DEF Fleet!Asked, Fleet!Things, Fleet!Known, Fleet!masterETH
<1>. QED BY <1>1, <1>2 DEF FleetInv

LEMMA FleetStays == ASSUME FleetInv, [Fleet!Next]_(Fleet!vars) PROVE FleetInv'
<1>1. CASE Fleet!Paint
  <2>1. UNCHANGED <<ftPage, ftAnswers>> /\ (\A x \in Fleet!Asked : ftAnswers[x] # Fleet!Waiting) /\ ftTable' = Built
    BY <1>1 DEF Fleet!Paint, Built
  <2>2. Built' = Built /\ Fleet!Asked' = Fleet!Asked /\ Fleet!Answers' = Fleet!Answers
    BY <2>1 DEF Built, Fleet!UniverseMap, Fleet!Keys, Fleet!Refs, Fleet!Read, Fleet!IpOverview, Fleet!dupIps, Fleet!ipCount,
                Fleet!dhcpServers, Fleet!MonitorRows, Fleet!Asked, Fleet!Answers
  <2>. QED BY <2>1, <2>2 DEF FleetInv
<1>2. ASSUME NEW x \in Fleet!Things, NEW a \in Fleet!Answers \union {Fleet!Nothing}, Fleet!Answer(x, a) PROVE FleetInv'
  <2>1. /\ UNCHANGED <<ftPage, ftTable>> /\ x \in Fleet!Asked /\ ftAnswers[x] = Fleet!Waiting
        /\ ftAnswers' = [ftAnswers EXCEPT ![x] = a]
    BY <1>2 DEF Fleet!Answer
  <2>2. Fleet!Asked' = Fleet!Asked /\ Fleet!Answers' = Fleet!Answers
    BY <2>1 DEF Fleet!Asked, Fleet!Answers
  <2>3. ftTable = Fleet!Waiting
    BY <2>1 DEF FleetInv
  <2>4. Fleet!Asked \subseteq Fleet!Things
    BY DEF FleetInv, Fleet!Asked, Fleet!Things, Fleet!Known, Fleet!masterETH
  <2>. QED BY <2>1, <2>2, <2>3, <2>4 DEF FleetInv
<1>3. CASE UNCHANGED Fleet!vars
  <2>1. UNCHANGED <<ftPage, ftAnswers, ftTable>>
    BY <1>3 DEF Fleet!vars
  <2>2. Built' = Built /\ Fleet!Asked' = Fleet!Asked /\ Fleet!Answers' = Fleet!Answers
    BY <2>1 DEF Built, Fleet!UniverseMap, Fleet!Keys, Fleet!Refs, Fleet!Read, Fleet!IpOverview, Fleet!dupIps, Fleet!ipCount,
                Fleet!dhcpServers, Fleet!MonitorRows, Fleet!Asked, Fleet!Answers
  <2>. QED BY <2>1, <2>2 DEF FleetInv
<1>. QED BY <1>1, <1>2, <1>3 DEF Fleet!Next

\* FleetTables counts with the operators of FiniteSets.
LEMMA FleetCount == \A S : Fleet!Cardinality(S) = Cardinality(S)
BY DEF Fleet!Cardinality, Cardinality
LEMMA FleetFinite == \A S : Fleet!IsFiniteSet(S) <=> IsFiniteSet(S)
BY DEF Fleet!IsFiniteSet, IsFiniteSet

\* The things asked are finitely many.
LEMMA AskedFinite == ASSUME Fleet!Sizes, FleetInv PROVE IsFiniteSet(Fleet!Asked)
<1>. DEFINE all == Duals \union Quads \union Switches
<1>1. IsFiniteSet(all)
  BY FleetFinite DEF Fleet!Sizes
<1>2. IsFiniteSet(Fleet!Ports)
  <2>1. IsFiniteSet({"A", "B"})
    <3>1. IsFiniteSet({"A"})
      BY FS_Singleton
    <3>2. {"A", "B"} = {"A"} \union {"B"}
      OBVIOUS
    <3>. QED BY <3>1, <3>2, FS_AddElement
  <2>2. IsFiniteSet(all \X {"A", "B"})
    BY <1>1, <2>1, FS_Product
  <2>3. Fleet!Ports \subseteq (all \X {"A", "B"})
    BY DEF Fleet!Ports, Fleet!PortLettersFor
  <2>. QED BY <2>2, <2>3, FS_Subset
<1>3. IsFiniteSet(Fleet!Known)
  <2>. DEFINE wrap == [s \in Switches |-> <<s>>]
              known == {<<s>> : s \in Switches}
  <2>1. IsFiniteSet(Switches)
    BY <1>1, FS_Subset
  <2>2. wrap \in Surjection(Switches, known)
    BY DEF Surjection
  <2>3. IsFiniteSet(known)
    BY <2>1, <2>2, FS_Surjection
  <2>. QED BY <2>3, FS_AddElement DEF Fleet!Known
<1>4. IsFiniteSet({Fleet!masterETH})
  BY FS_Singleton
<1>. QED BY <1>2, <1>3, <1>4 DEF Fleet!Asked, FleetInv

\* How often the divisor fits, for one and for two.
LEMMA Fits ==
  ASSUME NEW P \in Nat \ {0}, NEW a \in Nat
  PROVE  /\ a \div P \in Nat /\ (a \div P >= 1 <=> a >= P) /\ (a \div P >= 2 <=> a >= P + P)
<1>. DEFINE q == a \div P
            r == a % P
<1>1. q \in Nat /\ r \in 0 .. P - 1 /\ a = P * q + r
  OBVIOUS
<1>. HIDE DEF q, r
<1>2. CASE q = 0
  BY <1>1, <1>2 DEF q
<1>3. CASE q = 1
  BY <1>1, <1>3 DEF q
<1>4. CASE q >= 2
  <2>1. P * q >= P * 2
    BY <1>1, <1>4
  <2>. QED BY <1>1, <1>4, <2>1 DEF q
<1>. QED BY <1>1, <1>2, <1>3, <1>4

\* computeConsumedUniverses has the universes that the pixels take.
LEMMA ConsumedTakes ==
  ASSUME Fleet!Sizes, NEW x \in Fleet!Ports, NEW cfg \in Fleet!Cfgs, NEW u
  PROVE  u \in Fleet!computeConsumedUniverses(x[1], cfg) <=> Fleet!Takes(x[1], cfg, u)
<1>. DEFINE P == PerUniverse
            n == cfg.numPixels
            us == cfg.universe
<1>1. us \in [1 .. 2 -> {0, 1}] /\ n \in Nat /\ P \in Nat \ {0}
  BY DEF Fleet!Cfgs, Fleet!Arrays, Fleet!Sizes
<1>2. Len(us) = 2
  BY <1>1
<1>3. x[1] \in Duals <=> x[1] \notin Quads
  BY DEF Fleet!Ports, Fleet!Sizes
<1>4. CASE x[1] \in Quads \/ cfg.mode # "pixels"
  BY <1>3, <1>4 DEF Fleet!computeConsumedUniverses, Fleet!Takes
<1>5. CASE x[1] \notin Quads /\ cfg.mode = "pixels"
  <2>. DEFINE wanted == Fleet!Ceil(n, P)
              count == IF wanted = 0 THEN 1 ELSE wanted
  <2>1. wanted = (n + P - 1) \div P
    BY DEF Fleet!Ceil
  <2>2. wanted \in Nat /\ (wanted >= 2 <=> n >= P + 1)
    <3>1. n + P - 1 \in Nat
      BY <1>1
    <3>2. wanted \in Nat /\ (wanted >= 2 <=> n + P - 1 >= P + P)
      BY <1>1, <2>1, <3>1, Fits
    <3>. QED BY <1>1, <3>2
  <2>3. Fleet!computeConsumedUniverses(x[1], cfg) = {us[i] : i \in 1 .. Fleet!Min2(count, 2)}
    BY <1>2, <1>5 DEF Fleet!computeConsumedUniverses
  <2>. HIDE DEF wanted
  <2>4. 1 .. Fleet!Min2(count, 2) = IF n >= P + 1 THEN {1, 2} ELSE {1}
    <3>1. 1 .. 2 = {1, 2} /\ 1 .. 1 = {1}
      OBVIOUS
    <3>2. Fleet!Min2(count, 2) = IF wanted >= 2 THEN 2 ELSE 1
      BY <2>2 DEF Fleet!Min2
    <3>. HIDE DEF count
    <3>. QED BY <2>2, <3>1, <3>2
  <2>5. (\E pixel \in 0 .. n - 1 : pixel \div P < 2 /\ us[pixel \div P + 1] = u)
           <=> (n >= 1 /\ us[1] = u) \/ (n >= P + 1 /\ us[2] = u)
    <3>1. ASSUME NEW pixel \in 0 .. n - 1, pixel \div P < 2, us[pixel \div P + 1] = u
          PROVE  (n >= 1 /\ us[1] = u) \/ (n >= P + 1 /\ us[2] = u)
      <4>1. pixel \in Nat /\ n >= 1 /\ pixel < n
        BY <1>1
      <4>2. pixel \div P \in Nat /\ (pixel \div P >= 1 => pixel >= P)
        BY <1>1, <4>1, Fits
      <4>3. CASE pixel \div P = 0
        BY <3>1, <4>1, <4>3
      <4>4. CASE pixel \div P = 1
        BY <1>1, <3>1, <4>1, <4>2, <4>4
      <4>. QED BY <3>1, <4>2, <4>3, <4>4
    <3>2. ASSUME n >= 1, us[1] = u PROVE \E pixel \in 0 .. n - 1 : pixel \div P < 2 /\ us[pixel \div P + 1] = u
      <4>1. 0 \div P = 0
        BY <1>1
      <4>2. 0 \in 0 .. n - 1
        BY <1>1, <3>2
      <4>. QED BY <3>2, <4>1, <4>2
    <3>3. ASSUME n >= P + 1, us[2] = u PROVE \E pixel \in 0 .. n - 1 : pixel \div P < 2 /\ us[pixel \div P + 1] = u
      <4>1. P \div P = 1
        <5>1. P \div P \in Nat /\ P \div P >= 1 /\ ~(P \div P >= 2)
          BY <1>1, Fits
        <5>. QED BY <5>1
      <4>2. P \in 0 .. n - 1
        BY <1>1, <3>3
      <4>. QED BY <3>3, <4>1, <4>2
    <3>. QED BY <3>1, <3>2, <3>3
  <2>6. u \in Fleet!computeConsumedUniverses(x[1], cfg) <=> us[1] = u \/ (n >= P + 1 /\ us[2] = u)
    BY <2>3, <2>4
  <2>7. Fleet!Takes(x[1], cfg, u) <=> us[1] = u \/ (n >= P + 1 /\ us[2] = u)
    BY <1>2, <1>3, <1>5, <2>5 DEF Fleet!Takes
  <2>. QED BY <2>6, <2>7
<1>. QED BY <1>4, <1>5

LEMMA FleetGives == ASSUME Fleet!Sizes, FleetInv PROVE Fleet!TablesTrue
<1>. SUFFICES ASSUME ftTable # Fleet!Waiting PROVE Fleet!TablesTrue
  BY DEF Fleet!TablesTrue
<1>. USE FleetCount, AskedFinite
<1>1. ftTable = Built /\ \A x \in Fleet!Asked : ftAnswers[x] \in {Fleet!Nothing} \union Fleet!Answers
  BY DEF FleetInv
<1>2. CASE ftPage = "universes"
  <2>1. ftTable = Fleet!UniverseMap
    BY <1>1, <1>2 DEF Built
  <2>2. Fleet!Asked = Fleet!Ports /\ Fleet!Answers = Fleet!Cfgs
    BY <1>2 DEF Fleet!Asked, Fleet!Answers
  <2>. DEFINE At(k, x) == ftAnswers[x] # Fleet!Nothing /\ ftAnswers[x].net = k[1] /\ Fleet!Takes(x[1], ftAnswers[x], k[2])
  <2>3. \A k : Fleet!Refs(k) = {x \in Fleet!Asked : At(k, x)}
    BY <1>1, <2>2, ConsumedTakes DEF Fleet!Refs, Fleet!Read
  <2>4. \A k : IsFiniteSet(Fleet!Refs(k))
    BY <2>3, FS_Subset
  <2>. HIDE DEF At
  <2>5. \A k \in {0, 1} \X {0, 1} : /\ k \in ftTable.conflicts <=> \E x, y \in Fleet!Asked : x # y /\ At(k, x) /\ At(k, y)
                                    /\ k \in DOMAIN ftTable.rows <=> \E x \in Fleet!Asked : At(k, x)
    BY <2>1, <2>3, <2>4, TwoAre DEF Fleet!UniverseMap, Fleet!Keys
  <2>. QED BY <1>2, <2>5 DEF Fleet!TablesTrue, Fleet!Two, At
<1>3. CASE ftPage = "network"
  <2>1. ftTable = Fleet!IpOverview
    BY <1>1, <1>3 DEF Built
  <2>. DEFINE Has(ip, x) == ftAnswers[x] # Fleet!Nothing /\ ftAnswers[x].ip = ip
              Serves(x) == ftAnswers[x] # Fleet!Nothing /\ ftAnswers[x].mode = "server"
  <2>2. \A ip : {x \in Fleet!Read : ftAnswers[x].ip = ip} = {x \in Fleet!Asked : Has(ip, x)}
    BY DEF Fleet!Read
  <2>3. Fleet!dhcpServers = {x \in Fleet!Asked : Serves(x)}
    BY DEF Fleet!dhcpServers, Fleet!Read
  <2>. HIDE DEF Has, Serves
  <2>4. (\A ip : IsFiniteSet({x \in Fleet!Asked : Has(ip, x)})) /\ IsFiniteSet({x \in Fleet!Asked : Serves(x)})
    BY FS_Subset
  <2>5. \A ip \in Fleet!Addresses \ {0} : ip \in ftTable.dup <=> \E x, y \in Fleet!Asked : x # y /\ Has(ip, x) /\ Has(ip, y)
    <3>1. \A ip : Fleet!ipCount(ip) = Cardinality({x \in Fleet!Asked : Has(ip, x)})
      BY <2>2 DEF Fleet!ipCount
    <3>2. \A ip \in Fleet!Addresses \ {0} : ip \in ftTable.dup <=> Cardinality({x \in Fleet!Asked : Has(ip, x)}) > 1
      BY <2>1, <3>1 DEF Fleet!IpOverview, Fleet!dupIps
    <3>. QED BY <2>4, <3>2, TwoAre
  <2>6. ftTable.servers <=> \E x, y \in Fleet!Asked : x # y /\ Serves(x) /\ Serves(y)
    <3>1. ftTable.servers <=> Cardinality({x \in Fleet!Asked : Serves(x)}) > 1
      BY <2>1, <2>3 DEF Fleet!IpOverview
    <3>. QED BY <2>4, <3>1, TwoAre
  <2>. QED BY <1>3, <2>5, <2>6 DEF Fleet!TablesTrue, Fleet!Two, Has, Serves
<1>4. CASE ftPage = "monitor"
  <2>1. ftTable = Fleet!MonitorRows
    BY <1>1, <1>4 DEF Built
  <2>. DEFINE rows == ftTable.rows
  <2>2. /\ rows \subseteq Fleet!Sources
        /\ ftTable.conflicts = {u \in {0, 1} : Cardinality(Fleet!byUni(rows, u)) > 1}
    <3>1. Fleet!Asked = {Fleet!masterETH} /\ Fleet!Answers = Fleet!Tallies
      BY <1>4 DEF Fleet!Asked, Fleet!Answers
    <3>2. CASE Fleet!Read = {}
      <4>1. rows = {} /\ ftTable.conflicts = {}
        BY <2>1, <3>2 DEF Fleet!MonitorRows
      <4>2. \A u : Fleet!byUni({}, u) = {}
        BY DEF Fleet!byUni
      <4>3. \A u : ~(Cardinality(Fleet!byUni({}, u)) > 1)
        BY <4>2, FS_EmptySet
      <4>. QED BY <4>1, <4>3
    <3>3. CASE Fleet!Read # {}
      <4>1. ftAnswers[Fleet!masterETH] \in Fleet!Tallies
        BY <1>1, <3>1, <3>3 DEF Fleet!Read
      <4>2. rows = ftAnswers[Fleet!masterETH].sources
            /\ ftTable.conflicts = {u \in {0, 1} : Cardinality(Fleet!byUni(rows, u)) > 1}
        BY <2>1, <3>3 DEF Fleet!MonitorRows
      <4>. QED BY <4>1, <4>2 DEF Fleet!Tallies
    <3>. QED BY <3>2, <3>3
  <2>. HIDE DEF rows
  <2>3. \A u : IsFiniteSet(Fleet!byUni(rows, u))
    <3>1. IsFiniteSet({1} \union {2})
      BY FS_Singleton, FS_AddElement
    <3>2. \A u : Fleet!byUni(rows, u) \subseteq {1} \union {2}
      BY <2>2 DEF Fleet!byUni, Fleet!Sources
    <3>. QED BY <3>1, <3>2, FS_Subset
  <2>4. \A u \in {0, 1} : u \in ftTable.conflicts <=> \E a, b \in Fleet!byUni(rows, u) : a # b
    BY <2>2, <2>3, TwoAre
  <2>5. \A u \in {0, 1} : u \in ftTable.conflicts <=> \E s, t \in rows : s[1] = u /\ t[1] = u /\ s[2] # t[2]
    BY <2>4 DEF Fleet!byUni
  <2>. QED BY <1>4, <2>5 DEF Fleet!TablesTrue, rows
<1>. QED BY <1>2, <1>3, <1>4 DEF FleetInv

HIDE DEF ftPage, ftAnswers, ftTable
-----------------------------------------------------------------------------
\* The least of a set of numbers.
LEMMA Lowest == ASSUME NEW T \in SUBSET Nat, T # {} PROVE \E x \in T : \A y \in T : x <= y
<1>. DEFINE Less == {p \in Nat \X Nat : p[1] < p[2]}
<1>1. IsWellFoundedOn(Less, Nat)
  BY NatLessThanWellFounded, SMT DEF OpToRel
<1>2. \E x \in T : \A y \in T : <<y, x>> \notin Less
  <2>. HIDE DEF Less
  <2>. QED BY <1>1, WFMin
<1>3. ASSUME NEW x \in T, NEW y \in T, <<y, x>> \notin Less PROVE x <= y
  <2>1. x \in Nat /\ y \in Nat
    OBVIOUS
  <2>2. ~ (y < x)
    BY <1>3, <2>1
  <2>. QED BY <2>1, <2>2
<1>. QED BY <1>2, <1>3

-----------------------------------------------------------------------------
(* NodesList: the search field, and the walk of a bulk operation *)

lsField    == x3
lsTyped    == x4
lsQuery    == x6
lsCached   == x7
lsSelected == x9
lsJob      == x10
lsWalk     == x11
lsAddress  == x12
lsActed    == x13
lsMeant    == x14

USE DEF lsField, lsTyped, lsQuery, lsCached, lsSelected, lsJob, lsWalk, lsAddress, lsActed, lsMeant

TypingInv == lsQuery \in lsTyped /\ List!TypingKept

LEMMA TypingInit == ASSUME List!Init PROVE TypingInv
BY DEF List!Init, TypingInv, List!TypingKept

\* The steps of a bulk operation leave the field alone, and those of the field the operation.
LEMMA BulkLeaves ==
  ASSUME List!BulkReboot \/ List!BulkTag \/ List!BulkUniverses \/ List!PortRead \/ List!TargetDone \/ List!TargetFails
  PROVE  UNCHANGED <<lsField, lsTyped, lsQuery, lsCached>>
BY DEF List!BulkReboot, List!BulkTag, List!BulkUniverses, List!PortRead, List!TargetDone, List!TargetFails, List!Begins,
       List!Done, List!page

LEMMA TypingStays == ASSUME TypingInv, [List!Next]_(List!vars) PROVE TypingInv'
<1>. USE DEF TypingInv, List!TypingKept
<1>1. CASE List!Tick \/ List!RegistryFails \/ List!AnswerDropped \/ List!Leaves \/ List!Returns \/ List!ClearSelection
  BY <1>1 DEF List!Tick, List!RegistryFails, List!AnswerDropped, List!Leaves, List!Returns, List!ClearSelection
<1>2. CASE List!ClearSearch
  BY <1>2 DEF List!ClearSearch
<1>3. ASSUME NEW list \in SUBSET ListMacs, List!RegistryAnswers(list) PROVE TypingInv'
  BY <1>3 DEF List!RegistryAnswers
<1>4. ASSUME NEW q \in ListMacs \union {List!Blank}, List!Types(q) PROVE TypingInv'
  BY <1>4 DEF List!Types
<1>5. ASSUME NEW m \in ListMacs, List!ToggleRow(m) PROVE TypingInv'
  BY <1>5 DEF List!ToggleRow, List!page
<1>6. ASSUME UNCHANGED <<lsField, lsTyped, lsQuery>> PROVE TypingInv'
  BY <1>6
<1>7. CASE UNCHANGED List!vars
  BY <1>7 DEF List!vars, List!page
<1>. QED BY <1>1, <1>2, <1>3, <1>4, <1>5, <1>6, <1>7, BulkLeaves DEF List!Next

\* Sums and products: a number below a base in front of a multiple of it.
LEMMA Grows == ASSUME NEW B \in Nat, NEW i \in Nat, NEW j \in Nat, i <= j PROVE B * i <= B * j
<1>. DEFINE d == j - i
<1>1. d \in Nat /\ j = i + d
  OBVIOUS
<1>. HIDE DEF d
<1>2. B * j = B * i + B * d /\ B * d \in Nat /\ B * i \in Nat
  BY <1>1
<1>. QED BY <1>2

LEMMA Below ==
  ASSUME NEW B \in Nat \ {0}, NEW a \in 0 .. B - 1, NEW x \in Nat, NEW M \in Nat
  PROVE  a + B * x < B * M <=> x < M
<1>1. B * x \in Nat /\ B * M \in Nat /\ B * (x + 1) = B * x + B
  OBVIOUS
<1>2. ASSUME x < M PROVE a + B * x < B * M
  <2>1. B * (x + 1) <= B * M
    BY <1>2, Grows
  <2>. QED BY <1>1, <2>1
<1>3. ASSUME M <= x PROVE ~(a + B * x < B * M)
  <2>1. B * M <= B * x
    BY <1>3, Grows
  <2>. QED BY <1>1, <2>1
<1>. QED BY <1>2, <1>3

LEMMA Digits ==
  ASSUME NEW B \in Nat \ {0}, NEW a \in 0 .. B - 1, NEW b \in 0 .. B - 1, NEW x \in Nat, NEW y \in Nat, a + B * x = b + B * y
  PROVE  a = b /\ x = y
<1>1. B * x \in Nat /\ B * y \in Nat /\ B * (x + 1) = B * x + B /\ B * (y + 1) = B * y + B
  OBVIOUS
<1>2. ~(x < y)
  <2>. SUFFICES ASSUME x < y PROVE FALSE
    OBVIOUS
  <2>1. B * (x + 1) <= B * y
    BY Grows
  <2>. QED BY <1>1, <2>1
<1>3. ~(y < x)
  <2>. SUFFICES ASSUME y < x PROVE FALSE
    OBVIOUS
  <2>1. B * (y + 1) <= B * x
    BY Grows
  <2>. QED BY <1>1, <2>1
<1>4. x = y
  BY <1>2, <1>3
<1>. QED BY <1>1, <1>4

\* An address as a number: universes first, then subnets, then nets.
PerSubnet == TopUniverse + 1
PerNet    == TopSubnet + 1
NetCount  == TopNet + 1
AllOf     == PerSubnet * (PerNet * NetCount)
Addressed == [universe : 0 .. TopUniverse, subnet : 0 .. TopSubnet, net : Nat]
Num(w)    == w.universe + PerSubnet * (w.subnet + PerNet * w.net)

LEMMA Counts ==
  ASSUME List!Sizes
  PROVE  /\ PerSubnet \in Nat \ {0} /\ PerNet \in Nat \ {0} /\ NetCount \in Nat \ {0}
         /\ PerNet * NetCount \in Nat /\ AllOf \in Nat
         /\ AllOf = (TopNet + 1) * (TopSubnet + 1) * (TopUniverse + 1)
BY DEF List!Sizes, PerSubnet, PerNet, NetCount, AllOf

LEMMA NumIs ==
  ASSUME List!Sizes, NEW w \in Addressed
  PROVE  Num(w) \in Nat /\ (Num(w) < AllOf <=> w.net < NetCount)
<1>. USE Counts
<1>. DEFINE m == w.subnet + PerNet * w.net
<1>1. w.universe \in 0 .. PerSubnet - 1 /\ w.subnet \in 0 .. PerNet - 1 /\ w.net \in Nat
  BY DEF Addressed, PerSubnet, PerNet, List!Sizes
<1>2. m \in Nat /\ (m < PerNet * NetCount <=> w.net < NetCount)
  <2>1. PerNet * w.net \in Nat
    BY <1>1
  <2>2. w.subnet + PerNet * w.net < PerNet * NetCount <=> w.net < NetCount
    BY <1>1, Below
  <2>. QED BY <1>1, <2>1, <2>2
<1>. HIDE DEF m
<1>3. w.universe + PerSubnet * m < PerSubnet * (PerNet * NetCount) <=> m < PerNet * NetCount
  BY <1>1, <1>2, Below
<1>4. w.universe + PerSubnet * m \in Nat
  BY <1>1, <1>2
<1>. QED BY <1>2, <1>3, <1>4 DEF Num, AllOf, m

LEMMA NumTells ==
  ASSUME List!Sizes, NEW v \in Addressed, NEW w \in Addressed, Num(v) = Num(w)
  PROVE  v = w
<1>. USE Counts
<1>. DEFINE m(x) == x.subnet + PerNet * x.net
<1>1. \A x \in {v, w} : x.universe \in 0 .. PerSubnet - 1 /\ x.subnet \in 0 .. PerNet - 1 /\ x.net \in Nat /\ m(x) \in Nat
  BY DEF Addressed, PerSubnet, PerNet, List!Sizes
<1>. HIDE DEF m
<1>2. v.universe + PerSubnet * m(v) = w.universe + PerSubnet * m(w)
  BY DEF Num, m
<1>3. v.universe = w.universe /\ m(v) = m(w)
  <2>. DEFINE a == v.universe
              b == w.universe
              x == m(v)
              y == m(w)
  <2>1. a \in 0 .. PerSubnet - 1 /\ b \in 0 .. PerSubnet - 1 /\ x \in Nat /\ y \in Nat /\ a + PerSubnet * x = b + PerSubnet * y
    BY <1>1, <1>2
  <2>. HIDE DEF a, b, x, y
  <2>2. a = b /\ x = y
    BY <2>1, Digits
  <2>. QED BY <2>2 DEF a, b, x, y
<1>4. v.subnet + PerNet * v.net = w.subnet + PerNet * w.net
  BY <1>3 DEF m
<1>5. v.subnet = w.subnet /\ v.net = w.net
  <2>. DEFINE B == PerNet
              a == v.subnet
              b == w.subnet
              x == v.net
              y == w.net
  <2>1. B \in Nat \ {0} /\ a \in 0 .. B - 1 /\ b \in 0 .. B - 1 /\ x \in Nat /\ y \in Nat
    BY <1>1
  <2>2. a + B * x = b + B * y
    BY <1>4
  <2>. HIDE DEF B, a, b, x, y
  <2>3. a = b /\ x = y
    BY <2>1, <2>2, Digits
  <2>. QED BY <2>3 DEF a, b, x, y
<1>. QED BY <1>3, <1>5 DEF Addressed

\* One step of the walk is one more, and after the last comes the first; a net that is
\* too high does not survive it.
LEMMA AdvanceIs ==
  ASSUME List!Sizes, NEW w \in Addressed
  PROVE  /\ List!Advance(w) \in Addressed
         /\ Num(w) < AllOf => Num(List!Advance(w)) = IF Num(w) + 1 = AllOf THEN 0 ELSE Num(w) + 1
         /\ Num(List!Advance(w)) < AllOf
<1>. USE Counts
<1>. DEFINE v == List!Advance(w)
            m == w.subnet + PerNet * w.net
<1>1. /\ w.universe \in 0 .. TopUniverse /\ w.subnet \in 0 .. TopSubnet /\ w.net \in Nat
      /\ TopNet \in Nat /\ TopSubnet \in Nat /\ TopUniverse \in Nat
  BY DEF Addressed, List!Sizes
<1>2. v \in Addressed /\ v.net <= TopNet
  BY <1>1 DEF List!Advance, Addressed
<1>3. Num(v) \in Nat /\ Num(v) < AllOf /\ Num(w) \in Nat /\ (Num(w) < AllOf <=> w.net <= TopNet)
  <2>1. Num(v) < AllOf <=> v.net < NetCount
    BY <1>2, NumIs
  <2>2. Num(w) < AllOf <=> w.net < NetCount
    BY NumIs
  <2>3. w.net < NetCount <=> w.net <= TopNet
    BY <1>1 DEF NetCount
  <2>4. v.net < NetCount
    <3>1. v.net \in Nat
      BY <1>2 DEF Addressed
    <3>. QED BY <1>1, <1>2, <3>1 DEF NetCount
  <2>5. Num(v) \in Nat /\ Num(w) \in Nat
    BY <1>2, NumIs
  <2>. QED BY <2>1, <2>2, <2>3, <2>4, <2>5
<1>4. m \in Nat /\ Num(w) = w.universe + PerSubnet * m /\ PerSubnet * m \in Nat /\ PerSubnet * (m + 1) = PerSubnet * m + PerSubnet
  <2>1. PerNet * w.net \in Nat
    BY <1>1
  <2>2. m \in Nat
    BY <1>1, <2>1
  <2>3. Num(w) = w.universe + PerSubnet * m
    BY DEF Num
  <2>. HIDE DEF m
  <2>. QED BY <2>2, <2>3
<1>5. ASSUME w.net <= TopNet PROVE Num(v) = IF Num(w) + 1 = AllOf THEN 0 ELSE Num(w) + 1
  <2>1. CASE w.universe + 1 <= TopUniverse
    <3>1. v.universe = w.universe + 1 /\ v.subnet = w.subnet /\ v.net = w.net
      BY <1>1, <1>5, <2>1 DEF List!Advance
    <3>2. Num(v) = w.universe + 1 + PerSubnet * m
      BY <3>1 DEF Num
    <3>. HIDE DEF m
    <3>. QED BY <1>1, <1>3, <1>4, <3>2
  <2>2. CASE w.universe = TopUniverse /\ w.subnet + 1 <= TopSubnet
    <3>1. v.universe = 0 /\ v.subnet = w.subnet + 1 /\ v.net = w.net
      BY <1>1, <1>5, <2>2 DEF List!Advance
    <3>2. v.subnet + PerNet * v.net = m + 1
      <4>1. PerNet * w.net \in Nat
        BY <1>1
      <4>. QED BY <1>1, <3>1, <4>1
    <3>3. Num(v) = 0 + PerSubnet * (m + 1)
      BY <3>1, <3>2 DEF Num
    <3>. HIDE DEF m
    <3>. QED BY <1>1, <1>3, <1>4, <2>2, <3>3 DEF PerSubnet
  <2>3. CASE w.universe = TopUniverse /\ w.subnet = TopSubnet /\ w.net + 1 <= TopNet
    <3>1. v.universe = 0 /\ v.subnet = 0 /\ v.net = w.net + 1
      BY <1>1, <2>3 DEF List!Advance
    <3>2. v.subnet + PerNet * v.net = m + 1
      <4>1. PerNet * (w.net + 1) = PerNet * w.net + PerNet /\ PerNet * w.net \in Nat
        BY <1>1
      <4>. QED BY <1>1, <2>3, <3>1, <4>1 DEF PerNet
    <3>3. Num(v) = 0 + PerSubnet * (m + 1)
      BY <3>1, <3>2 DEF Num
    <3>. HIDE DEF m
    <3>. QED BY <1>1, <1>3, <1>4, <2>3, <3>3 DEF PerSubnet
  <2>4. CASE w.universe = TopUniverse /\ w.subnet = TopSubnet /\ w.net = TopNet
    <3>1. v.universe = 0 /\ v.subnet = 0 /\ v.net = 0
      BY <1>1, <2>4 DEF List!Advance
    <3>2. Num(v) = 0
      BY <3>1 DEF Num
    <3>3. m + 1 = PerNet * NetCount
      <4>1. PerNet * (w.net + 1) = PerNet * w.net + PerNet /\ PerNet * w.net \in Nat
        BY <1>1
      <4>. QED BY <1>1, <2>4, <4>1 DEF PerNet, NetCount
    <3>4. AllOf = PerSubnet * (m + 1)
      BY <3>3 DEF AllOf
    <3>. HIDE DEF m
    <3>5. Num(w) + 1 = AllOf
      BY <1>1, <1>4, <2>4, <3>4 DEF PerSubnet
    <3>. QED BY <3>2, <3>5
  <2>5. w.universe + 1 <= TopUniverse \/ w.universe = TopUniverse
    <3>. DEFINE u == w.universe
    <3>1. u \in 0 .. TopUniverse /\ TopUniverse \in Nat
      BY <1>1
    <3>. HIDE DEF u
    <3>2. u + 1 <= TopUniverse \/ u = TopUniverse
      BY <3>1
    <3>. QED BY <3>2 DEF u
  <2>6. w.subnet + 1 <= TopSubnet \/ w.subnet = TopSubnet
    BY <1>1
  <2>7. w.net + 1 <= TopNet \/ w.net = TopNet
    BY <1>1, <1>5
  <2>. HIDE DEF v, m
  <2>. QED BY <2>1, <2>2, <2>3, <2>4, <2>5, <2>6, <2>7
<1>. QED BY <1>2, <1>3, <1>5

LEMMA ListFinite == ASSUME NEW S PROVE List!IsFiniteSet(S) <=> IsFiniteSet(S)
BY DEF List!IsFiniteSet, IsFiniteSet

LEMMA ListCount == ASSUME NEW S PROVE List!Cardinality(S) = Cardinality(S)
BY DEF List!Cardinality, Cardinality

\* How far the walk is past an address it has given, and that it is not about to
\* give it again in its next k steps.
Back(v, w) == IF Num(v) < Num(w) THEN Num(w) - Num(v) ELSE Num(w) - Num(v) + AllOf
Apart(v, w, k) == Num(w) < AllOf /\ (Num(v) < AllOf => Back(v, w) <= AllOf - k)

LEMMA ApartDiffers ==
  ASSUME List!Sizes, NEW v \in Addressed, NEW w \in Addressed, NEW k \in Nat \ {0}, Apart(v, w, k)
  PROVE  v # w
<1>1. Num(v) \in Nat /\ Num(w) \in Nat /\ AllOf \in Nat
  BY NumIs, Counts
<1>. QED BY <1>1 DEF Apart, Back

LEMMA ApartMoves ==
  ASSUME List!Sizes, NEW v \in Addressed, NEW w \in Addressed, NEW k \in Nat \ {0}, Apart(v, w, k)
  PROVE  Apart(v, List!Advance(w), k - 1)
<1>. DEFINE a == List!Advance(w)
<1>1. Num(v) \in Nat /\ Num(w) \in Nat /\ Num(a) \in Nat /\ AllOf \in Nat
  BY NumIs, Counts, AdvanceIs
<1>2. Num(a) < AllOf /\ Num(a) = IF Num(w) + 1 = AllOf THEN 0 ELSE Num(w) + 1
  BY AdvanceIs DEF Apart
<1>. HIDE DEF a
<1>3. Apart(v, a, k - 1)
  BY <1>1, <1>2 DEF Apart, Back
<1>. QED BY <1>3 DEF a

LEMMA ApartBegins ==
  ASSUME List!Sizes, NEW w \in Addressed, NEW k \in Nat \ {0}, k <= AllOf
  PROVE  Apart(w, List!Advance(w), k - 1)
<1>. DEFINE a == List!Advance(w)
<1>1. Num(w) \in Nat /\ Num(a) \in Nat /\ AllOf \in Nat
  BY NumIs, Counts, AdvanceIs
<1>2. Num(a) < AllOf /\ (Num(w) < AllOf => Num(a) = IF Num(w) + 1 = AllOf THEN 0 ELSE Num(w) + 1)
  BY AdvanceIs
<1>. HIDE DEF a
<1>3. Apart(w, a, k - 1)
  BY <1>1, <1>2 DEF Apart, Back
<1>. QED BY <1>3 DEF a

LEMMA EnteredIs == ASSUME List!Sizes, NEW k \in Nat PROVE List!Entered(k) \in Addressed
<1>. DEFINE U == TopUniverse + 1
            S == TopSubnet + 1
<1>1. U \in Nat \ {0} /\ S \in Nat \ {0} /\ U * S \in Nat \ {0} /\ TopUniverse = U - 1 /\ TopSubnet = S - 1
  BY DEF List!Sizes
<1>2. List!Entered(k) = [universe |-> k % U, subnet |-> (k \div U) % S, net |-> k \div (U * S)]
  BY DEF List!Entered
<1>. HIDE DEF U, S
<1>3. ASSUME NEW d \in Nat \ {0}, NEW n \in Nat PROVE n % d \in 0 .. d - 1 /\ n \div d \in Nat
  BY <1>3
<1>4. k % U \in 0 .. U - 1 /\ k \div U \in Nat /\ k \div (U * S) \in Nat
  BY <1>1, <1>3
<1>5. (k \div U) % S \in 0 .. S - 1
  BY <1>1, <1>3, <1>4
<1>. QED BY <1>1, <1>2, <1>4, <1>5 DEF Addressed

\* The next target is one of the targets.
LEMMA FirstIs ==
  ASSUME List!Sizes, NEW T \in SUBSET List!Ports, T # {}
  PROVE  List!First(T) \in T
<1>. DEFINE X == {q[1] : q \in T}
            Before(p) == \A q \in T \ {p} : p[1] < q[1] \/ (p[1] = q[1] /\ p[2] = "A")
<1>1. X \in SUBSET Nat /\ X # {}
  BY DEF List!Ports, List!Sizes
<1>2. PICK x \in X : \A y \in X : x <= y
  BY <1>1, Lowest
<1>3. \A q \in T : q[1] \in Nat /\ x <= q[1] /\ q = <<q[1], q[2]>> /\ q[2] \in {"A", "B"}
  <2>. TAKE q \in T
  <2>1. q \in ListMacs \X {"A", "B"} /\ q[1] \in X
    BY DEF List!Ports
  <2>. QED BY <1>1, <1>2, <2>1 DEF List!Sizes
<1>4. x \in Nat
  BY <1>1, <1>2
<1>5. \E p \in T : Before(p)
  <2>1. PICK p \in T : x = p[1]
    BY <1>2
  <2>2. CASE <<x, "A">> \in T
    <3>1. Before(<<x, "A">>)
      BY <1>3, <1>4
    <3>. QED BY <2>2, <3>1
  <2>3. CASE <<x, "A">> \notin T
    <3>1. p = <<x, "B">>
      BY <1>3, <2>1, <2>3
    <3>2. \A q \in T \ {p} : q[1] # x
      BY <1>3, <2>3, <3>1
    <3>3. Before(p)
      BY <1>3, <1>4, <2>1, <3>2
    <3>. QED BY <3>3
  <2>. QED BY <2>2, <2>3
<1>6. List!First(T) = CHOOSE p \in T : Before(p)
  BY DEF List!First
<1>. HIDE DEF Before
<1>. QED BY <1>5, <1>6

JobOK ==
  /\ lsJob \in [kind : {"none", "reboot", "tag", "universes"}, todo : SUBSET List!Ports, step : {"none", "get", "post"}]
  /\ lsJob # List!Idle => lsJob.todo # {} /\ lsJob.todo \subseteq lsMeant \X {"A", "B"}
\* While addresses are given: there are as many left as targets.
WalkOK ==
  lsJob.kind = "universes" =>
    /\ lsJob # List!Idle
    /\ lsWalk \in Addressed /\ IsFiniteSet(lsJob.todo) /\ Cardinality(lsJob.todo) <= AllOf
    /\ \A p \in List!Ports : lsAddress[p] # List!Old => Apart(lsAddress[p], lsWalk, Cardinality(lsJob.todo))

AddressOK == lsAddress \in [List!Ports -> Addressed \union {List!Old}]

BulkInv == lsCached \subseteq ListMacs /\ JobOK /\ WalkOK /\ AddressOK /\ List!BulkRight

LEMMA BulkInit == ASSUME List!Init PROVE BulkInv
<1>. USE DEF List!Init
<1>1. JobOK /\ WalkOK
  BY DEF JobOK, WalkOK, List!Idle
<1>2. AddressOK
  BY DEF AddressOK
<1>3. List!BulkRight
  BY DEF List!BulkRight
<1>. QED BY <1>1, <1>2, <1>3 DEF BulkInv

LEMMA BulkStarts ==
  ASSUME List!Sizes, BulkInv, List!BulkReboot \/ List!BulkTag \/ List!BulkUniverses
  PROVE  BulkInv'
<1>. USE DEF BulkInv
<1>. DEFINE S == List!selectedNodes
<1>1. S \subseteq ListMacs /\ S \subseteq lsSelected
  BY DEF List!selectedNodes
<1>. HIDE DEF S
<1>2. (lsCached \subseteq ListMacs)' /\ lsMeant' = lsSelected /\ lsActed' = {}
  BY DEF List!BulkReboot, List!BulkTag, List!BulkUniverses, List!Begins
<1>3. CASE List!BulkReboot \/ List!BulkTag
  <2>1. PICK kind \in {"reboot", "tag"} : List!Begins(kind, S \X {"A"})
    BY <1>3 DEF List!BulkReboot, List!BulkTag, S
  <2>2. lsJob' = [kind |-> kind, todo |-> S \X {"A"}, step |-> "get"] /\ S \X {"A"} # {} /\ UNCHANGED lsAddress
    BY <1>3, <2>1 DEF List!BulkReboot, List!BulkTag, List!Begins
  <2>3. JobOK' /\ WalkOK'
    BY <1>1, <1>2, <2>2 DEF JobOK, WalkOK, List!Ports
  <2>. QED BY <1>2, <2>2, <2>3 DEF AddressOK, List!BulkRight
<1>4. CASE List!BulkUniverses
  <2>. DEFINE T == (S \intersect Dmx) \X {"A", "B"}
  <2>1. /\ lsJob' = [kind |-> "universes", todo |-> T, step |-> "get"] /\ T # {}
        /\ lsWalk' = List!Entered(StartAt) /\ lsAddress' = [p \in List!Ports |-> List!Old]
    BY <1>4 DEF List!BulkUniverses, List!Begins, S
  <2>2. IsFiniteSet(T) /\ Cardinality(T) <= AllOf
    <3>1. IsFiniteSet(Dmx) /\ 2 * Cardinality(Dmx) <= AllOf
      BY ListFinite, ListCount, Counts DEF List!Sizes
    <3>2. /\ IsFiniteSet(S \intersect Dmx) /\ Cardinality(S \intersect Dmx) <= Cardinality(Dmx)
          /\ Cardinality(S \intersect Dmx) \in Nat /\ Cardinality(Dmx) \in Nat
      BY <3>1, FS_Subset, FS_CardinalityType
    <3>3. IsFiniteSet({"A", "B"}) /\ Cardinality({"A", "B"}) = 2
      <4>1. IsFiniteSet({"A"}) /\ Cardinality({"A"}) = 1
        BY FS_Singleton
      <4>2. {"A", "B"} = {"A"} \union {"B"} /\ "B" \notin {"A"}
        OBVIOUS
      <4>. QED BY <4>1, <4>2, FS_AddElement
    <3>4. IsFiniteSet(T) /\ Cardinality(T) = Cardinality(S \intersect Dmx) * 2
      BY <3>2, <3>3, FS_Product
    <3>. QED BY <3>1, <3>2, <3>4, Counts
  <2>. HIDE DEF T
  <2>3. T \in SUBSET List!Ports /\ T \subseteq lsSelected \X {"A", "B"}
    BY <1>1 DEF T, List!Ports
  <2>4. JobOK'
    BY <1>2, <2>1, <2>3 DEF JobOK
  <2>5. WalkOK'
    <3>1. lsWalk' \in Addressed
      BY <2>1, EnteredIs DEF List!Sizes
    <3>2. lsJob'.kind = "universes" /\ lsJob'.todo = T /\ lsJob' # List!Idle
      BY <2>1 DEF List!Idle
    <3>3. \A p \in List!Ports : lsAddress'[p] = List!Old
      BY <2>1
    <3>. QED BY <2>2, <3>1, <3>2, <3>3 DEF WalkOK
  <2>6. AddressOK' /\ List!BulkRight'
    BY <1>2, <2>1 DEF AddressOK, List!BulkRight
  <2>. QED BY <1>2, <2>4, <2>5, <2>6
<1>. QED BY <1>3, <1>4

\* What Done does to an operation: the first target goes, and the walk goes on.
LEMMA BulkGoesOn ==
  ASSUME List!Sizes, BulkInv, lsJob # List!Idle, List!Done
  PROVE  /\ JobOK' /\ List!First(lsJob.todo) \in lsJob.todo /\ UNCHANGED <<lsCached, lsMeant>>
         /\ lsJob.kind = "universes" /\ lsJob'.kind = "universes" =>
              /\ lsWalk' = List!Advance(lsWalk) /\ lsWalk' \in Addressed /\ lsJob' # List!Idle
              /\ Cardinality(lsJob.todo) \in Nat \ {0} /\ IsFiniteSet(lsJob'.todo)
              /\ Cardinality(lsJob'.todo) = Cardinality(lsJob.todo) - 1
         /\ lsJob'.kind = "universes" => lsJob.kind = "universes"
<1>. DEFINE f == List!First(lsJob.todo)
            rest == lsJob.todo \ {f}
<1>. USE DEF BulkInv
<1>1. f \in lsJob.todo
  BY FirstIs DEF JobOK
<1>2. /\ lsJob' = IF rest = {} THEN List!Idle ELSE [lsJob EXCEPT !.todo = rest, !.step = "get"]
      /\ UNCHANGED <<lsCached, lsMeant>> /\ (lsJob.kind = "universes" => lsWalk' = List!Advance(lsWalk))
  BY DEF List!Done
<1>. HIDE DEF f
<1>3. JobOK'
  BY <1>2 DEF JobOK, List!Idle
<1>4. lsJob'.kind = "universes" => lsJob.kind = "universes" /\ rest # {} /\ lsJob'.todo = rest /\ lsJob' # List!Idle
  BY <1>2 DEF JobOK, List!Idle
<1>5. ASSUME lsJob.kind = "universes" PROVE lsWalk' \in Addressed
  BY <1>2, <1>5, AdvanceIs DEF WalkOK
<1>6. ASSUME lsJob.kind = "universes"
      PROVE  Cardinality(lsJob.todo) \in Nat \ {0} /\ IsFiniteSet(rest) /\ Cardinality(rest) = Cardinality(lsJob.todo) - 1
  <2>1. IsFiniteSet(lsJob.todo)
    BY <1>6 DEF WalkOK
  <2>2. Cardinality(lsJob.todo) \in Nat /\ (Cardinality(lsJob.todo) = 0 <=> lsJob.todo = {})
    BY <2>1, FS_CardinalityType, FS_EmptySet
  <2>3. IsFiniteSet(rest) /\ Cardinality(rest) = Cardinality(lsJob.todo) - 1
    BY <1>1, <2>1, FS_RemoveElement
  <2>. QED BY <1>1, <2>2, <2>3
<1>. QED BY <1>1, <1>2, <1>3, <1>4, <1>5, <1>6 DEF f

LEMMA BulkActs ==
  ASSUME List!Sizes, BulkInv, List!TargetDone
  PROVE  BulkInv'
<1>. DEFINE f == List!First(lsJob.todo)
            T == lsJob.todo
<1>. USE DEF BulkInv
<1>1. lsJob # List!Idle /\ List!Done /\ lsActed' = lsActed \union {f[1]}
      /\ lsAddress' = IF lsJob.kind = "universes" THEN [lsAddress EXCEPT ![f] = lsWalk] ELSE lsAddress
  BY DEF List!TargetDone
<1>2. /\ JobOK' /\ f \in T /\ UNCHANGED <<lsCached, lsMeant>>
      /\ lsJob.kind = "universes" /\ lsJob'.kind = "universes" =>
           /\ lsWalk' = List!Advance(lsWalk) /\ lsWalk' \in Addressed /\ lsJob' # List!Idle
           /\ Cardinality(T) \in Nat \ {0} /\ IsFiniteSet(lsJob'.todo)
           /\ Cardinality(lsJob'.todo) = Cardinality(T) - 1
      /\ lsJob'.kind = "universes" => lsJob.kind = "universes"
  BY <1>1, BulkGoesOn
<1>. HIDE DEF f
<1>3. f \in lsMeant \X {"A", "B"} /\ f \in List!Ports
  BY <1>1, <1>2 DEF JobOK
<1>4. (lsActed \subseteq lsMeant)'
  BY <1>1, <1>2, <1>3 DEF List!BulkRight
<1>5. CASE lsJob.kind # "universes"
  BY <1>1, <1>2, <1>4, <1>5 DEF WalkOK, AddressOK, List!BulkRight
<1>6. CASE lsJob.kind = "universes"
  <2>1. lsWalk \in Addressed /\ IsFiniteSet(T) /\ Cardinality(T) <= AllOf /\ Cardinality(T) \in Nat \ {0}
    <3>1. lsWalk \in Addressed /\ IsFiniteSet(T) /\ Cardinality(T) <= AllOf
      BY <1>6 DEF WalkOK
    <3>2. Cardinality(T) \in Nat /\ Cardinality(T) # 0
      BY <1>2, <3>1, FS_CardinalityType, FS_EmptySet
    <3>. QED BY <3>1, <3>2
  <2>2. \A p \in List!Ports : lsAddress'[p] = IF p = f THEN lsWalk ELSE lsAddress[p]
    BY <1>1, <1>3, <1>6 DEF AddressOK
  <2>3. AddressOK'
    BY <1>1, <1>3, <1>6, <2>1 DEF AddressOK
  <2>4. \A p \in List!Ports : lsAddress[p] # List!Old => lsAddress[p] \in Addressed
    BY DEF AddressOK
  <2>5. \A p \in List!Ports : lsAddress[p] # List!Old => Apart(lsAddress[p], lsWalk, Cardinality(T)) /\ lsAddress[p] # lsWalk
    <3>. TAKE p \in List!Ports
    <3>. HAVE lsAddress[p] # List!Old
    <3>. DEFINE v == lsAddress[p]
    <3>1. v \in Addressed /\ Apart(v, lsWalk, Cardinality(T))
      BY <1>6, <2>4 DEF WalkOK
    <3>. HIDE DEF v
    <3>2. v # lsWalk
      BY <2>1, <3>1, ApartDiffers
    <3>. QED BY <3>1, <3>2 DEF v
  <2>6. List!BulkRight'
    <3>1. ASSUME NEW p \in List!Ports, NEW q \in List!Ports, p # q, lsAddress'[p] # List!Old
          PROVE  lsAddress'[p] # lsAddress'[q]
      <4>1. CASE p # f /\ q # f
        BY <2>2, <3>1, <4>1 DEF List!BulkRight
      <4>2. CASE p = f
        <5>1. lsAddress'[p] = lsWalk /\ lsAddress'[q] = lsAddress[q]
          BY <2>2, <3>1, <4>2
        <5>2. CASE lsAddress[q] = List!Old
          BY <3>1, <5>1, <5>2
        <5>3. CASE lsAddress[q] # List!Old
          BY <2>5, <5>1, <5>3
        <5>. QED BY <5>2, <5>3
      <4>3. CASE q = f /\ p # f
        <5>1. lsAddress'[q] = lsWalk /\ lsAddress'[p] = lsAddress[p]
          BY <2>2, <3>1, <4>3
        <5>. QED BY <2>5, <3>1, <5>1
      <4>. QED BY <4>1, <4>2, <4>3
    <3>. QED BY <1>4, <3>1 DEF List!BulkRight
  <2>7. WalkOK'
    <3>. SUFFICES ASSUME lsJob'.kind = "universes"
                  PROVE  /\ Cardinality(lsJob'.todo) <= AllOf
                         /\ \A p \in List!Ports : lsAddress'[p] # List!Old => Apart(lsAddress'[p], lsWalk', Cardinality(lsJob'.todo))
      BY <1>2, <1>6 DEF WalkOK
    <3>. DEFINE k == Cardinality(T)
    <3>1. k \in Nat \ {0} /\ k <= AllOf /\ AllOf \in Nat
      BY <2>1, Counts
    <3>2. Cardinality(lsJob'.todo) = k - 1 /\ lsWalk' = List!Advance(lsWalk)
      BY <1>2, <1>6
    <3>. HIDE DEF k
    <3>3. k - 1 <= AllOf
      BY <3>1
    <3>4. ASSUME NEW p \in List!Ports, lsAddress'[p] # List!Old PROVE Apart(lsAddress'[p], List!Advance(lsWalk), k - 1)
      <4>1. CASE p = f
        BY <2>1, <2>2, <3>1, <4>1, ApartBegins
      <4>2. CASE p # f
        <5>. DEFINE v == lsAddress[p]
        <5>1. lsAddress'[p] = v /\ v # List!Old
          BY <2>2, <3>4, <4>2
        <5>2. v \in Addressed /\ Apart(v, lsWalk, k)
          BY <2>4, <2>5, <5>1 DEF k
        <5>. HIDE DEF v
        <5>3. Apart(v, List!Advance(lsWalk), k - 1)
          BY <2>1, <3>1, <5>2, ApartMoves
        <5>. QED BY <5>1, <5>3
      <4>. QED BY <4>1, <4>2
    <3>. QED BY <3>2, <3>3, <3>4
  <2>. QED BY <1>2, <2>3, <2>6, <2>7
<1>. QED BY <1>5, <1>6

LEMMA BulkSkips ==
  ASSUME List!Sizes, BulkInv, List!TargetFails
  PROVE  BulkInv'
<1>. DEFINE T == lsJob.todo
<1>. USE DEF BulkInv
<1>1. lsJob # List!Idle /\ List!Done /\ UNCHANGED <<lsActed, lsAddress>>
  BY DEF List!TargetFails
<1>2. /\ JobOK' /\ UNCHANGED <<lsCached, lsMeant>>
      /\ lsJob.kind = "universes" /\ lsJob'.kind = "universes" =>
           /\ lsWalk' = List!Advance(lsWalk) /\ lsWalk' \in Addressed /\ lsJob' # List!Idle
           /\ Cardinality(T) \in Nat \ {0} /\ IsFiniteSet(lsJob'.todo)
           /\ Cardinality(lsJob'.todo) = Cardinality(T) - 1
      /\ lsJob'.kind = "universes" => lsJob.kind = "universes"
  BY <1>1, BulkGoesOn
<1>3. AddressOK' /\ List!BulkRight'
  BY <1>1, <1>2 DEF AddressOK, List!BulkRight
<1>4. WalkOK'
  <2>. SUFFICES ASSUME lsJob'.kind = "universes"
                PROVE  /\ Cardinality(lsJob'.todo) <= AllOf
                       /\ \A p \in List!Ports : lsAddress[p] # List!Old => Apart(lsAddress[p], lsWalk', Cardinality(lsJob'.todo))
    BY <1>1, <1>2 DEF WalkOK
  <2>. DEFINE k == Cardinality(T)
  <2>1. lsJob.kind = "universes" /\ k \in Nat \ {0} /\ Cardinality(lsJob'.todo) = k - 1 /\ lsWalk' = List!Advance(lsWalk)
    BY <1>2
  <2>2. lsWalk \in Addressed /\ k <= AllOf /\ AllOf \in Nat
    BY <2>1, Counts DEF WalkOK
  <2>3. \A p \in List!Ports : lsAddress[p] # List!Old => lsAddress[p] \in Addressed /\ Apart(lsAddress[p], lsWalk, k)
    BY <2>1 DEF WalkOK, AddressOK
  <2>. HIDE DEF k
  <2>4. k - 1 <= AllOf
    BY <2>1, <2>2
  <2>5. ASSUME NEW p \in List!Ports, lsAddress[p] # List!Old PROVE Apart(lsAddress[p], List!Advance(lsWalk), k - 1)
    <3>. DEFINE v == lsAddress[p]
    <3>1. v \in Addressed /\ Apart(v, lsWalk, k)
      BY <2>3, <2>5
    <3>. HIDE DEF v
    <3>2. Apart(v, List!Advance(lsWalk), k - 1)
      BY <2>1, <2>2, <3>1, ApartMoves
    <3>. QED BY <3>2 DEF v
  <2>. QED BY <2>1, <2>4, <2>5
<1>. QED BY <1>2, <1>3, <1>4

LEMMA BulkStays == ASSUME List!Sizes, BulkInv, [List!Next]_(List!vars) PROVE BulkInv'
<1>1. ASSUME UNCHANGED <<lsJob, lsWalk, lsAddress, lsActed, lsMeant>>, lsCached' \subseteq ListMacs PROVE BulkInv'
  BY <1>1 DEF BulkInv, JobOK, WalkOK, AddressOK, List!BulkRight
<1>2. lsCached \subseteq ListMacs
  BY DEF BulkInv
<1>3. CASE List!Tick \/ List!RegistryFails \/ List!AnswerDropped \/ List!ClearSearch \/ List!Leaves \/ List!Returns \/ List!ClearSelection
  BY <1>1, <1>2, <1>3 DEF List!Tick, List!RegistryFails, List!AnswerDropped, List!ClearSearch, List!Leaves, List!Returns,
     List!ClearSelection, List!bulk
<1>4. ASSUME NEW list \in SUBSET ListMacs, List!RegistryAnswers(list) PROVE BulkInv'
  BY <1>1, <1>4 DEF List!RegistryAnswers, List!bulk
<1>5. ASSUME NEW q \in ListMacs \union {List!Blank}, List!Types(q) PROVE BulkInv'
  BY <1>1, <1>2, <1>5 DEF List!Types, List!bulk
<1>6. ASSUME NEW m \in ListMacs, List!ToggleRow(m) PROVE BulkInv'
  BY <1>1, <1>2, <1>6 DEF List!ToggleRow, List!bulk
<1>7. CASE List!PortRead
  <2>1. lsJob' = [lsJob EXCEPT !.step = "post"] /\ lsJob.kind = "universes"
        /\ UNCHANGED <<lsCached, lsWalk, lsAddress, lsActed, lsMeant>>
    BY <1>7 DEF List!PortRead
  <2>2. lsJob'.kind = lsJob.kind /\ lsJob'.todo = lsJob.todo /\ lsJob' # List!Idle /\ JobOK'
    BY <2>1 DEF BulkInv, JobOK, WalkOK, List!Idle
  <2>. QED BY <2>1, <2>2 DEF BulkInv, WalkOK, AddressOK, List!BulkRight
<1>8. CASE UNCHANGED List!vars
  BY <1>1, <1>2, <1>8 DEF List!vars, List!bulk
<1>. QED BY <1>3, <1>4, <1>5, <1>6, <1>7, <1>8, BulkStarts, BulkActs, BulkSkips DEF List!Next

HIDE DEF lsField, lsTyped, lsQuery, lsCached, lsSelected, lsJob, lsWalk, lsAddress, lsActed, lsMeant
-----------------------------------------------------------------------------
(* Wizard: what is on its way to the unit, and what the page knows of it *)

wzIndex   == x1
wzBody    == x2
wzForm    == x3
wzPending == x4
wzTarget  == x6
wzSent    == x7
wzSaved   == x9
wzReboot  == x10
wzDone    == x11
wzRestart == x12
wzUpset   == x13

USE DEF wzIndex, wzBody, wzForm, wzPending, wzTarget, wzSent, wzSaved, wzReboot, wzDone, wzRestart, wzUpset

Requests == {Setup!Get, Setup!Finish} \union {Setup!Post(c) : c \in Setup!Configs}
Has(s, kind) == \E i \in DOMAIN s : s[i].kind = kind
Before(s, first, second) == \E i, j \in DOMAIN s : i < j /\ s[i].kind = first /\ s[j].kind = second

\* As long as nothing is stored: one read at a time, none in front of the last step, and
\* no form behind it.
Orderly(s) == ~Before(s, "get", "get") /\ ~Before(s, "get", "done") /\ ~Before(s, "done", "post")

LEMMA Kinds == ASSUME NEW r \in Requests PROVE r.kind \in {"get", "done", "post"}
BY DEF Requests, Setup!Get, Setup!Finish, Setup!Post

LEMMA HasAppended ==
  ASSUME NEW s \in Seq(Requests), NEW r \in Requests, NEW kind, Has(Append(s, r), kind)
  PROVE  Has(s, kind) \/ r.kind = kind
BY DEF Has

LEMMA BeforeAppended ==
  ASSUME NEW s \in Seq(Requests), NEW r \in Requests, NEW first, NEW second, Before(Append(s, r), first, second)
  PROVE  Before(s, first, second) \/ (Has(s, first) /\ r.kind = second)
<1>. DEFINE t == Append(s, r)
<1>1. PICK i \in DOMAIN t, j \in DOMAIN t : i < j /\ t[i].kind = first /\ t[j].kind = second
  BY DEF Before
<1>2. i \in 1 .. Len(s) + 1 /\ j \in 1 .. Len(s) + 1 /\ Len(s) \in Nat /\ DOMAIN s = 1 .. Len(s)
  OBVIOUS
<1>3. i \in DOMAIN s /\ t[i] = s[i]
  BY <1>1, <1>2
<1>4. CASE j \in DOMAIN s
  <2>1. t[j] = s[j]
    BY <1>2, <1>4
  <2>. HIDE DEF t
  <2>. QED BY <1>1, <1>3, <1>4, <2>1 DEF Before
<1>5. CASE j = Len(s) + 1
  <2>1. t[j] = r
    BY <1>2, <1>5
  <2>. HIDE DEF t
  <2>. QED BY <1>1, <1>3, <2>1 DEF Has
<1>. QED BY <1>2, <1>4, <1>5

LEMMA OneLess ==
  ASSUME NEW s \in Seq(Requests), s # <<>>
  PROVE  /\ Head(s) \in Requests /\ Tail(s) \in Seq(Requests)
         /\ \A kind : Has(Tail(s), kind) => Has(s, kind) /\ Before(s, Head(s).kind, kind)
         /\ \A first, second : Before(Tail(s), first, second) => Before(s, first, second)
         /\ Has(s, Head(s).kind)
<1>. DEFINE t == Tail(s)
<1>1. Head(s) \in Requests /\ t \in Seq(Requests) /\ 1 \in DOMAIN s /\ Head(s) = s[1]
  OBVIOUS
<1>2. \A i \in DOMAIN t : i + 1 \in DOMAIN s /\ t[i] = s[i + 1] /\ i \in Nat /\ 1 < i + 1
  OBVIOUS
<1>. HIDE DEF t
<1>3. \A kind : Has(t, kind) => Has(s, kind) /\ Before(s, s[1].kind, kind)
  BY <1>1, <1>2 DEF Has, Before
<1>4. ASSUME NEW first, NEW second, Before(t, first, second) PROVE Before(s, first, second)
  <2>1. PICK i \in DOMAIN t, j \in DOMAIN t : i < j /\ t[i].kind = first /\ t[j].kind = second
    BY <1>4 DEF Before
  <2>2. i + 1 \in DOMAIN s /\ j + 1 \in DOMAIN s /\ i + 1 < j + 1 /\ s[i + 1].kind = first /\ s[j + 1].kind = second
    BY <1>2, <2>1
  <2>. QED BY <2>2 DEF Before
<1>5. Has(s, s[1].kind)
  BY <1>1 DEF Has
<1>. QED BY <1>1, <1>3, <1>4, <1>5 DEF t

SentOK ==
  ~wzReboot /\ ~wzDone =>
    /\ Orderly(wzSent) /\ (Has(wzSent, "get") => wzBody = "loading")
    /\ (wzBody = "form" => ~Has(wzSent, "done"))

Known == IF wzSaved.dhcp THEN "none" ELSE wzSaved.ip
There == IF wzSaved.dhcp THEN "here" ELSE wzSaved.ip

UnitOK ==
  /\ wzReboot \in BOOLEAN /\ wzDone \in BOOLEAN /\ wzRestart \in BOOLEAN /\ wzUpset \in BOOLEAN
  /\ wzDone => ~wzReboot
  /\ ~wzDone => ~wzRestart
  /\ ~wzDone /\ ~wzReboot => wzSaved = Setup!FactoryConfig

PageKnows ==
  ~wzUpset =>
    /\ ~wzDone => wzTarget = "none"
    /\ ~wzDone /\ wzReboot => wzPending = Known
    /\ wzDone /\ ~wzRestart => wzTarget = "closed" /\ ~Has(wzSent, "post") /\ wzSaved = Setup!FactoryConfig
    /\ wzDone /\ wzRestart => wzTarget = There

WizardTyped ==
  /\ wzIndex \in Nat /\ wzSent \in Seq(Requests)
  /\ wzForm \in Setup!Configs /\ wzSaved \in Setup!Configs

WizardInv == WizardTyped /\ SentOK /\ UnitOK /\ PageKnows

LEMMA WizardInit == ASSUME Setup!FirstOK, Setup!Init PROVE WizardInv
<1>. USE DEF Setup!Init, Setup!Welcome
<1>1. Setup!FactoryConfig \in Setup!Configs
  BY DEF Setup!FactoryConfig, Setup!Configs
<1>2. WizardTyped
  BY <1>1 DEF WizardTyped
<1>3. SentOK
  BY DEF SentOK, Orderly, Before, Has
<1>4. UnitOK /\ PageKnows
  BY DEF UnitOK, PageKnows
<1>. QED BY <1>2, <1>3, <1>4 DEF WizardInv

LEMMA WizardGives == ASSUME Setup!FirstOK, WizardInv PROVE Setup!FollowsUnit
<1>1. wzSaved \in Setup!Configs
  BY DEF WizardInv, WizardTyped
<1>. QED BY <1>1 DEF WizardInv, UnitOK, PageKnows, There, Setup!FollowsUnit, Setup!FirstOK

\* A step of the page: nothing is sent but a read of the settings, and then it is waited for.
LEMMA GoesOn ==
  ASSUME NEW i \in Nat, NEW s \in Seq(Requests), Setup!GoTo(i, s)
  PROVE  /\ wzIndex' \in Nat
         /\ \/ wzSent' = s /\ wzBody' \in {wzBody, "welcome", "leds", "done"}
            \/ wzSent' = Append(s, Setup!Get) /\ wzBody' = "loading"
<1>1. wzIndex' = i
  BY DEF Setup!GoTo
<1>2. Len(Setup!Steps) = 4
  BY DEF Setup!Steps
<1>3. CASE i >= 4
  BY <1>1, <1>2, <1>3 DEF Setup!GoTo
<1>4. CASE i \in 0 .. 3
  <2>1. i < Len(Setup!Steps) /\ ~(i >= Len(Setup!Steps))
    BY <1>2, <1>4
  <2>2. Setup!Steps[i + 1] = "network" \/ Setup!Steps[i + 1] \in {"welcome", "leds", "done"}
    <3>1. i + 1 = 1 \/ i + 1 = 2 \/ i + 1 = 3 \/ i + 1 = 4
      BY <1>4
    <3>. QED BY <3>1 DEF Setup!Steps
  <2>. QED BY <1>1, <2>1, <2>2 DEF Setup!GoTo
<1>. QED BY <1>3, <1>4

LEMMA OrderlyAppended ==
  ASSUME NEW s \in Seq(Requests), Orderly(s)
  PROVE  /\ ~Has(s, "get") => Orderly(Append(s, Setup!Get))
         /\ ~Has(s, "get") => Orderly(Append(s, Setup!Finish))
         /\ \A c \in Setup!Configs : ~Has(s, "done") => Orderly(Append(s, Setup!Post(c)))
<1>1. Setup!Get \in Requests /\ Setup!Finish \in Requests /\ (\A c \in Setup!Configs : Setup!Post(c) \in Requests)
  BY DEF Requests
<1>2. Setup!Get.kind = "get" /\ Setup!Finish.kind = "done" /\ (\A c : Setup!Post(c).kind = "post")
  BY DEF Setup!Get, Setup!Finish, Setup!Post
<1>3. ~Before(s, "get", "get") /\ ~Before(s, "get", "done") /\ ~Before(s, "done", "post")
  BY DEF Orderly
<1>4. ASSUME ~Has(s, "get") PROVE Orderly(Append(s, Setup!Get))
  BY <1>1, <1>2, <1>3, <1>4, BeforeAppended DEF Orderly
<1>5. ASSUME ~Has(s, "get") PROVE Orderly(Append(s, Setup!Finish))
  BY <1>1, <1>2, <1>3, <1>5, BeforeAppended DEF Orderly
<1>6. ASSUME NEW c \in Setup!Configs, ~Has(s, "done") PROVE Orderly(Append(s, Setup!Post(c)))
  BY <1>1, <1>2, <1>3, <1>6, BeforeAppended DEF Orderly
<1>. QED BY <1>4, <1>5, <1>6

\* What the page does on its own, without an answer and without a form.
LEMMA PageMoves ==
  ASSUME WizardInv, NEW i \in Nat, Setup!GoTo(i, wzSent), wzBody # "loading",
         UNCHANGED <<wzForm, wzPending, wzTarget, wzSaved, wzReboot, wzDone, wzRestart, wzUpset>>, wzTarget # "closed"
  PROVE  WizardInv'
<1>. USE DEF WizardInv
<1>1. wzSent \in Seq(Requests) /\ Setup!Get \in Requests /\ Setup!Get.kind = "get"
  BY DEF WizardTyped, Requests, Setup!Get
<1>2. /\ wzIndex' \in Nat
      /\ \/ wzSent' = wzSent /\ wzBody' \in {wzBody, "welcome", "leds", "done"}
         \/ wzSent' = Append(wzSent, Setup!Get) /\ wzBody' = "loading"
  BY <1>1, GoesOn
<1>3. wzSent' \in Seq(Requests)
  BY <1>1, <1>2
<1>4. SentOK'
  <2>. SUFFICES ASSUME ~wzReboot, ~wzDone
                PROVE  /\ Orderly(wzSent') /\ (Has(wzSent', "get") => wzBody' = "loading")
                       /\ (wzBody' = "form" => ~Has(wzSent', "done"))
    BY DEF SentOK
  <2>1. Orderly(wzSent) /\ ~Has(wzSent, "get") /\ (wzBody = "form" => ~Has(wzSent, "done"))
    BY DEF SentOK
  <2>. QED BY <1>1, <1>2, <2>1, OrderlyAppended
<1>5. UnitOK' /\ PageKnows'
  BY DEF UnitOK, PageKnows, Known, There
<1>. QED BY <1>2, <1>3, <1>4, <1>5 DEF WizardTyped

\* A request leaves the line without the unit having changed.
LEMMA RequestGone ==
  ASSUME WizardInv, wzSent # <<>>, wzSent' = Tail(wzSent), wzForm' \in Setup!Configs,
         UNCHANGED <<wzIndex, wzPending, wzTarget, wzSaved, wzReboot, wzDone, wzRestart, wzUpset>>,
         wzBody' = IF Head(wzSent).kind = "get" THEN wzBody' ELSE wzBody, wzBody' \in {wzBody, "form", "error"}
  PROVE  WizardInv'
<1>. USE DEF WizardInv
<1>1. wzSent \in Seq(Requests)
  BY DEF WizardTyped
<1>. DEFINE h == Head(wzSent).kind
<1>2. /\ wzSent' \in Seq(Requests) /\ Has(wzSent, h)
      /\ \A kind : Has(wzSent', kind) => Has(wzSent, kind) /\ Before(wzSent, h, kind)
      /\ \A first, second : Before(wzSent', first, second) => Before(wzSent, first, second)
  BY <1>1, OneLess
<1>. HIDE DEF h
<1>3. SentOK'
  <2>. SUFFICES ASSUME ~wzReboot, ~wzDone
                PROVE  /\ Orderly(wzSent') /\ (Has(wzSent', "get") => wzBody' = "loading")
                       /\ (wzBody' = "form" => ~Has(wzSent', "done"))
    BY DEF SentOK
  <2>1. Orderly(wzSent) /\ (Has(wzSent, "get") => wzBody = "loading") /\ (wzBody = "form" => ~Has(wzSent, "done"))
    BY DEF SentOK
  <2>2. Orderly(wzSent')
    BY <1>2, <2>1 DEF Orderly
  <2>3. CASE h = "get"
    <3>1. ~Has(wzSent', "get") /\ ~Has(wzSent', "done")
      BY <1>2, <2>1, <2>3 DEF Orderly
    <3>. QED BY <2>2, <3>1
  <2>4. CASE h # "get"
    <3>1. wzBody' = wzBody
      BY <2>4 DEF h
    <3>. QED BY <1>2, <2>1, <2>2, <3>1
  <2>. QED BY <2>3, <2>4
<1>4. UnitOK' /\ PageKnows'
  BY <1>2 DEF UnitOK, PageKnows, Known, There
<1>. QED BY <1>2, <1>3, <1>4 DEF WizardTyped

\* The unit stores a form it is given.
LEMMA WizardStores ==
  ASSUME WizardInv, Setup!PostNetwork \/ Setup!PostNetworkAnswerLost
  PROVE  WizardInv'
<1>. USE DEF WizardInv
<1>1. wzSent \in Seq(Requests) /\ wzSent # <<>> /\ Head(wzSent).kind = "post" /\ ~wzRestart
  BY DEF WizardTyped, Setup!PostNetwork, Setup!PostNetworkAnswerLost, Setup!Answers
<1>2. Head(wzSent) \in Requests /\ Tail(wzSent) \in Seq(Requests) /\ Has(wzSent, "post")
      /\ (\A kind : Has(Tail(wzSent), kind) => Has(wzSent, kind))
  BY <1>1, OneLess
<1>3. Head(wzSent).config \in Setup!Configs
  BY <1>1, <1>2 DEF Requests, Setup!Get, Setup!Finish, Setup!Post
<1>4. /\ wzSaved' = Head(wzSent).config /\ wzReboot' = (wzReboot \/ ~wzDone) /\ UNCHANGED <<wzDone, wzRestart>>
      /\ wzForm' = wzForm /\ wzTarget' = wzTarget
  BY DEF Setup!PostNetwork, Setup!PostNetworkAnswerLost, Setup!Stores
<1>5. wzDone => wzUpset
  BY <1>1, <1>2 DEF PageKnows
<1>6. wzUpset' \in BOOLEAN /\ (wzUpset => wzUpset')
  BY DEF Setup!PostNetwork, Setup!PostNetworkAnswerLost, UnitOK
<1>7. SentOK' /\ UnitOK'
  BY <1>4, <1>6 DEF SentOK, UnitOK
<1>8. CASE Setup!PostNetwork
  <2>1. wzIndex \in Nat /\ wzIndex + 1 \in Nat /\ Setup!GoTo(wzIndex + 1, Tail(wzSent))
    BY <1>8 DEF WizardTyped, Setup!PostNetwork
  <2>2. wzIndex' \in Nat /\ (wzSent' = Tail(wzSent) \/ wzSent' = Append(Tail(wzSent), Setup!Get))
    BY <1>2, <2>1, GoesOn
  <2>3. WizardTyped'
    BY <1>2, <1>3, <1>4, <2>2 DEF WizardTyped, Requests
  <2>4. wzUpset' = wzUpset /\ (~wzDone => wzPending' = IF wzSaved'.dhcp THEN "none" ELSE wzSaved'.ip)
    BY <1>8 DEF Setup!PostNetwork
  <2>5. PageKnows'
    BY <1>4, <1>5, <2>4 DEF PageKnows, Known
  <2>. QED BY <1>7, <2>3, <2>5
<1>9. CASE Setup!PostNetworkAnswerLost
  <2>1. wzIndex' = wzIndex /\ wzSent' = Tail(wzSent) /\ wzUpset' = TRUE
    BY <1>9 DEF Setup!PostNetworkAnswerLost
  <2>2. WizardTyped' /\ PageKnows'
    BY <1>2, <1>3, <1>4, <2>1 DEF WizardTyped, PageKnows
  <2>. QED BY <1>7, <2>2
<1>. QED BY <1>8, <1>9

\* The last step: the unit restarts if it has put that off, and the page knows.
LEMMA WizardEnds ==
  ASSUME Setup!FirstOK, WizardInv, Setup!PostDone \/ Setup!PostDoneAnswerLost
  PROVE  WizardInv'
<1>. USE DEF WizardInv
<1>1. wzSent \in Seq(Requests) /\ wzSent # <<>> /\ Head(wzSent).kind = "done" /\ ~wzRestart
  BY DEF WizardTyped, Setup!PostDone, Setup!PostDoneAnswerLost, Setup!Answers
<1>2. /\ wzSent' = Tail(wzSent) /\ wzDone' = TRUE /\ wzRestart' = wzReboot /\ wzReboot' = FALSE /\ wzSaved' = wzSaved
      /\ UNCHANGED <<wzIndex, wzForm, wzPending>>
  BY DEF Setup!PostDone, Setup!PostDoneAnswerLost, Setup!OnboardingDone
<1>3. /\ wzSent' \in Seq(Requests)
      /\ \A kind : Has(wzSent', kind) => Has(wzSent, kind) /\ Before(wzSent, "done", kind)
  BY <1>1, <1>2, OneLess
<1>4. WizardTyped' /\ SentOK'
  BY <1>2, <1>3 DEF WizardTyped, SentOK
<1>5. CASE Setup!PostDone
  <2>1. wzUpset' = wzUpset
    BY <1>5 DEF Setup!PostDone
  <2>2. UnitOK'
    BY <1>2, <2>1 DEF UnitOK
  <2>3. CASE wzReboot
    <3>1. wzTarget' = IF wzPending # "none" THEN wzPending ELSE "here"
      BY <1>5, <2>3 DEF Setup!PostDone
    <3>2. ~wzDone
      BY <2>3 DEF UnitOK
    <3>3. ~wzUpset => wzPending = Known
      BY <2>3, <3>2 DEF PageKnows
    <3>4. wzSaved.ip # "none"
      BY DEF WizardTyped, Setup!Configs, Setup!FirstOK
    <3>5. ~wzUpset => wzTarget' = There'
      BY <1>2, <3>1, <3>3, <3>4 DEF Known, There
    <3>. QED BY <1>2, <1>4, <2>1, <2>2, <2>3, <3>5 DEF PageKnows
  <2>4. CASE ~wzReboot
    <3>1. wzTarget' = "closed"
      BY <1>5, <2>4 DEF Setup!PostDone
    <3>2. ~wzUpset => ~Has(wzSent', "post") /\ wzSaved = Setup!FactoryConfig
      <4>1. CASE wzDone
        BY <1>1, <1>3, <4>1 DEF PageKnows
      <4>2. CASE ~wzDone
        BY <1>3, <2>4, <4>2 DEF SentOK, UnitOK, Orderly
      <4>. QED BY <4>1, <4>2
    <3>. QED BY <1>2, <1>4, <2>1, <2>2, <2>4, <3>1, <3>2 DEF PageKnows
  <2>. QED BY <2>3, <2>4 DEF UnitOK
<1>6. CASE Setup!PostDoneAnswerLost
  <2>1. wzUpset' = TRUE
    BY <1>6 DEF Setup!PostDoneAnswerLost
  <2>. QED BY <1>2, <1>4, <2>1 DEF UnitOK, PageKnows
<1>. QED BY <1>5, <1>6

LEMMA WizardStays == ASSUME Setup!FirstOK, WizardInv, [Setup!Next]_(Setup!vars) PROVE WizardInv'
<1>0. wzIndex \in Nat /\ wzSent \in Seq(Requests) /\ wzForm \in Setup!Configs
  BY DEF WizardInv, WizardTyped
<1>1. CASE Setup!Advance
  BY <1>0, <1>1, PageMoves DEF Setup!Advance, Setup!Clickable, Setup!unit
<1>2. CASE Setup!Back
  <2>1. wzIndex - 1 \in Nat /\ Setup!GoTo(wzIndex - 1, wzSent)
    BY <1>0, <1>2 DEF Setup!Back
  <2>. QED BY <1>2, <2>1, PageMoves DEF Setup!Back, Setup!Clickable, Setup!unit
<1>3. ASSUME NEW c \in Setup!Configs, Setup!SaveForm(c) PROVE WizardInv'
  <2>1. CASE c = wzForm
    <3>1. Setup!GoTo(wzIndex + 1, wzSent)
      BY <1>3, <2>1 DEF Setup!SaveForm
    <3>. QED BY <1>0, <1>3, <3>1, PageMoves DEF Setup!SaveForm, Setup!Clickable, Setup!unit
  <2>2. CASE c # wzForm
    <3>1. /\ wzSent' = Append(wzSent, Setup!Post(c)) /\ wzBody = "form" /\ wzTarget # "closed"
          /\ UNCHANGED <<wzIndex, wzBody, wzForm, wzPending, wzTarget, wzSaved, wzReboot, wzDone, wzRestart, wzUpset>>
      BY <1>3, <2>2 DEF Setup!SaveForm, Setup!Clickable, Setup!unit
    <3>2. Setup!Post(c) \in Requests /\ Setup!Post(c).kind = "post"
      BY DEF Requests, Setup!Post
    <3>3. wzSent' \in Seq(Requests) /\ \A kind : Has(wzSent', kind) => Has(wzSent, kind) \/ kind = "post"
      BY <1>0, <3>1, <3>2, HasAppended
    <3>4. SentOK'
      <4>. SUFFICES ASSUME ~wzReboot, ~wzDone
                    PROVE  Orderly(wzSent') /\ ~Has(wzSent', "get") /\ ~Has(wzSent', "done")
        BY <3>1 DEF SentOK
      <4>1. Orderly(wzSent) /\ ~Has(wzSent, "get") /\ ~Has(wzSent, "done")
        BY <3>1 DEF WizardInv, SentOK
      <4>. QED BY <1>0, <3>1, <3>3, <4>1, OrderlyAppended
    <3>. QED BY <3>1, <3>3, <3>4 DEF WizardInv, WizardTyped, UnitOK, PageKnows, Known, There
  <2>. QED BY <2>1, <2>2
<1>4. CASE Setup!Finalize
  <2>1. /\ wzSent' = Append(wzSent, Setup!Finish) /\ wzBody \in {"welcome", "done"} /\ wzTarget # "closed"
        /\ UNCHANGED <<wzIndex, wzBody, wzForm, wzPending, wzTarget, wzSaved, wzReboot, wzDone, wzRestart, wzUpset>>
    BY <1>4 DEF Setup!Finalize, Setup!Clickable, Setup!unit
  <2>2. Setup!Finish \in Requests /\ Setup!Finish.kind = "done"
    BY DEF Requests, Setup!Finish
  <2>3. wzSent' \in Seq(Requests) /\ \A kind : Has(wzSent', kind) => Has(wzSent, kind) \/ kind = "done"
    BY <1>0, <2>1, <2>2, HasAppended
  <2>4. SentOK'
    <3>. SUFFICES ASSUME ~wzReboot, ~wzDone
                  PROVE  Orderly(wzSent') /\ ~Has(wzSent', "get")
      BY <2>1 DEF SentOK
    <3>1. Orderly(wzSent) /\ ~Has(wzSent, "get")
      BY <2>1 DEF WizardInv, SentOK
    <3>. QED BY <1>0, <2>1, <2>3, <3>1, OrderlyAppended
  <2>. QED BY <2>1, <2>3, <2>4 DEF WizardInv, WizardTyped, UnitOK, PageKnows, Known, There
<1>5. CASE Setup!ReloadPage
  <2>1. /\ wzSent = <<>> /\ wzSent' = <<>> /\ wzUpset' = TRUE /\ wzIndex' = 0
        /\ UNCHANGED <<wzForm, wzSaved, wzReboot, wzDone, wzRestart>>
    BY <1>5 DEF Setup!ReloadPage, Setup!unit
  <2>2. SentOK'
    BY <2>1 DEF SentOK, Orderly, Before, Has
  <2>. QED BY <1>0, <2>1, <2>2 DEF WizardInv, WizardTyped, UnitOK, PageKnows
<1>6. CASE Setup!GetNetwork
  <2>1. /\ wzSent # <<>> /\ Head(wzSent).kind = "get" /\ wzSent' = Tail(wzSent) /\ wzBody' \in {"form", "error"}
        /\ wzForm' \in {wzForm, wzSaved}
        /\ UNCHANGED <<wzIndex, wzPending, wzTarget, wzSaved, wzReboot, wzDone, wzRestart, wzUpset>>
    BY <1>6 DEF Setup!GetNetwork, Setup!Answers, Setup!unit
  <2>2. wzForm' \in Setup!Configs
    BY <2>1 DEF WizardInv, WizardTyped
  <2>. QED BY <2>1, <2>2, RequestGone
<1>7. CASE Setup!RequestLost
  <2>1. /\ wzSent # <<>> /\ wzSent' = Tail(wzSent)
        /\ wzBody' = IF Head(wzSent).kind = "get" THEN "error" ELSE wzBody
        /\ UNCHANGED <<wzIndex, wzForm, wzPending, wzTarget, wzSaved, wzReboot, wzDone, wzRestart, wzUpset>>
    BY <1>7 DEF Setup!RequestLost, Setup!unit
  <2>. QED BY <1>0, <2>1, RequestGone
<1>8. CASE UNCHANGED Setup!vars
  BY <1>8 DEF Setup!vars, Setup!unit, WizardInv, WizardTyped, SentOK, UnitOK, PageKnows, Known, There
<1>. QED BY <1>1, <1>2, <1>3, <1>4, <1>5, <1>6, <1>7, <1>8, WizardStores, WizardEnds DEF Setup!Next

HIDE DEF wzIndex, wzBody, wzForm, wzPending, wzTarget, wzSent, wzSaved, wzReboot, wzDone, wzRestart, wzUpset
-----------------------------------------------------------------------------
(* NodeDetail: whose page, forms and buttons a visit finds *)

dtVisits  == x1
dtWho     == x3
dtAt      == x4
dtSlot    == x5
dtContent == x6
dtFilled  == x7
dtWired   == x8
dtButtons == x9
dtCache   == x10
dtHolder  == x11
dtActs    == x12
dtCrossed == x13

USE DEF dtVisits, dtWho, dtAt, dtSlot, dtContent, dtFilled, dtWired, dtButtons, dtCache, dtHolder, dtActs, dtCrossed

Visits  == 1 .. DetailVisits
Stages  == Detail!Reading \union {"unused", "ready", "over"}
\* Visits whose page was in the document, and those under way.
Seen    == {v \in Visits : dtAt[v] \notin {"unused", "registry"}}
Loading == {v \in Visits : dtAt[v] \in Detail!Reading}

DetailTyped ==
  /\ DetailVisits \in Nat
  /\ dtVisits \in 0 .. DetailVisits /\ dtWho \in [Visits -> NodesOpened \union {Detail!None}]
  /\ dtAt \in [Visits -> Stages] /\ dtSlot \in [Visits -> 0 .. DetailVisits]
  /\ dtFilled \in [Visits -> 0 .. DetailVisits] /\ dtContent \in 0 .. DetailVisits
  /\ dtWired \in [Visits -> SUBSET Visits] /\ dtButtons \in [Visits -> SUBSET Visits]
  /\ dtCrossed \in BOOLEAN

\* Without haste, all visits under way are to the node opened last.
OneNode ==
  /\ \A v \in Visits : dtAt[v] # "unused" => v <= dtVisits
  /\ \A v \in Loading : dtWho[v] = dtWho[dtVisits]
  /\ dtContent # 0 => dtContent \in Seen
  /\ \A v \in Loading : dtAt[v] # "registry" /\ dtContent # 0 => dtWho[dtContent] = dtWho[dtVisits]
SlotsOK ==
  /\ \A v \in Visits : dtSlot[v] # 0 =>
       v \in Seen /\ dtSlot[v] \in Seen /\ dtWho[dtSlot[v]] = dtWho[v] /\ dtWho[v] \in Editable
  /\ \A v \in Visits : dtAt[v] \in {"network", "ports"} => dtSlot[v] # 0
MarkupOK ==
  /\ \A m \in Visits : dtFilled[m] # 0 => m \in Seen /\ dtWho[m] \in Editable
  /\ \A m \in Visits : \A x \in dtWired[m] \union dtButtons[m] : m \in Seen /\ x \in Seen /\ dtWho[x] = dtWho[m]
CacheOK ==
  dtContent # 0 /\ dtFilled[dtContent] # 0 => dtCache = dtWho[dtContent]
\* Nor does another node answer at an address.
HoldersOK ==
  /\ dtHolder \in [Visits -> NodesOpened \union {Detail!None}]
  /\ ~dtCrossed => \A v \in Visits : dtHolder[v] \in {dtWho[v], Detail!None}

DetailOK == DetailTyped /\ (~dtCrossed => OneNode /\ SlotsOK /\ MarkupOK /\ CacheOK /\ Detail!ActsOnItsNode)
DetailInv == DetailOK /\ HoldersOK

LEMMA DetailInit == ASSUME Detail!Sizes, Detail!Init PROVE DetailInv
<1>. USE DEF Detail!Init, Detail!Sizes
<1>1. DetailTyped
  <2>1. DetailVisits \in Nat /\ Detail!Visits = Visits
    BY DEF Visits, Detail!Visits
  <2>2. dtWho \in [Visits -> NodesOpened \union {Detail!None}] /\ dtAt \in [Visits -> Stages] /\ dtSlot \in [Visits -> 0 .. DetailVisits]
    BY <2>1 DEF Stages
  <2>3. dtFilled \in [Visits -> 0 .. DetailVisits] /\ dtWired \in [Visits -> SUBSET Visits] /\ dtButtons \in [Visits -> SUBSET Visits]
    BY <2>1
  <2>4. dtVisits \in 0 .. DetailVisits /\ dtContent \in 0 .. DetailVisits
    BY <2>1
  <2>5. dtCrossed \in BOOLEAN
    OBVIOUS
  <2>. QED BY <2>1, <2>2, <2>3, <2>4, <2>5 DEF DetailTyped
<1>2. OneNode /\ SlotsOK /\ MarkupOK /\ CacheOK
  BY DEF OneNode, SlotsOK, MarkupOK, CacheOK, Visits, Seen, Loading, Detail!Visits, Detail!Reading
<1>3. Detail!ActsOnItsNode
  BY DEF Detail!ActsOnItsNode
<1>4. HoldersOK
  BY DEF HoldersOK, Detail!Visits, Visits
<1>. QED BY <1>1, <1>2, <1>3, <1>4 DEF DetailInv, DetailOK

LEMMA DetailGives == ASSUME DetailInv PROVE Detail!ActsWhenPatient
BY DEF DetailInv, DetailOK, DetailTyped, Detail!ActsWhenPatient

\* A visit gets on, or ends, and nothing else happens but that the page may go.
LEMMA VisitGetsOn ==
  ASSUME DetailOK, NEW v \in Loading, NEW s \in {"over", "identify", "resync", "ports", "ready"},
         dtAt' = [dtAt EXCEPT ![v] = s], dtAt[v] = "registry" => s = "over", s = "ports" => dtAt[v] = "network",
         dtContent' \in {dtContent, 0},
         UNCHANGED <<dtVisits, dtWho, dtSlot, dtFilled, dtWired, dtButtons, dtCache, dtActs, dtCrossed>>
  PROVE  DetailOK'
<1>. USE DEF DetailOK
<1>1. DetailTyped'
  BY DEF DetailTyped, Stages, Detail!Reading, Loading
<1>. SUFFICES ASSUME ~dtCrossed PROVE OneNode' /\ SlotsOK' /\ MarkupOK' /\ CacheOK' /\ Detail!ActsOnItsNode'
  BY <1>1
<1>2. v \in Visits /\ dtAt[v] # "unused" /\ (\A w \in Visits : dtAt'[w] = IF w = v THEN s ELSE dtAt[w])
  BY DEF DetailTyped, Loading, Detail!Reading
<1>3. Seen \subseteq Seen' /\ Loading' \subseteq Loading
  BY <1>2 DEF Seen, Loading, Detail!Reading
<1>4. \A w \in Loading' : dtAt'[w] # "registry" => dtAt[w] # "registry"
  BY <1>2 DEF Loading, Detail!Reading
<1>5. OneNode'
  BY <1>2, <1>3, <1>4 DEF OneNode
<1>6. SlotsOK'
  BY <1>2, <1>3 DEF SlotsOK
<1>7. MarkupOK' /\ CacheOK'
  BY <1>3 DEF MarkupOK, CacheOK
<1>8. Detail!ActsOnItsNode'
  BY DEF Detail!ActsOnItsNode, Detail!Faithful
<1>. QED BY <1>5, <1>6, <1>7, <1>8

LEMMA RegistryIn == ASSUME DetailOK, NEW v \in Visits, Detail!RegistryAnswers(v) PROVE DetailOK'
<1>. USE DEF DetailOK
<1>1. PICK s \in {"identify", "over"} : dtAt' = [dtAt EXCEPT ![v] = s]
  BY DEF Detail!RegistryAnswers, Detail!Goes, Detail!Stops
<1>2. dtAt[v] = "registry" /\ dtContent' = v
      /\ UNCHANGED <<dtVisits, dtWho, dtSlot, dtFilled, dtWired, dtButtons, dtCache, dtActs, dtCrossed>>
  BY DEF Detail!RegistryAnswers
<1>3. DetailTyped'
  BY <1>1, <1>2 DEF DetailTyped, Stages, Detail!Reading, Visits
<1>. SUFFICES ASSUME ~dtCrossed PROVE OneNode' /\ SlotsOK' /\ MarkupOK' /\ CacheOK' /\ Detail!ActsOnItsNode'
  BY <1>2, <1>3
<1>4. \A w \in Visits : dtAt'[w] = IF w = v THEN s ELSE dtAt[w]
  BY <1>1 DEF DetailTyped
<1>5. /\ Seen \subseteq Seen' /\ v \in Seen' /\ v \notin Seen /\ v \in Loading /\ Loading' \subseteq Loading /\ v # 0
  BY <1>1, <1>2, <1>4 DEF Seen, Loading, Detail!Reading, Visits
<1>6. OneNode'
  BY <1>2, <1>4, <1>5 DEF OneNode
<1>7. SlotsOK'
  BY <1>1, <1>2, <1>4, <1>5 DEF SlotsOK
<1>8. MarkupOK'
  BY <1>2, <1>5 DEF MarkupOK
<1>9. dtFilled[v] = 0
  BY <1>5 DEF MarkupOK
<1>10. CacheOK'
  BY <1>2, <1>9 DEF CacheOK
<1>11. Detail!ActsOnItsNode'
  BY <1>2 DEF Detail!ActsOnItsNode, Detail!Faithful
<1>. QED BY <1>6, <1>7, <1>8, <1>10, <1>11

\* A visit begins, with no visit under way unless there is haste.
LEMMA VisitBegins ==
  ASSUME Detail!Sizes, DetailOK, NEW n \in NodesOpened \union {Detail!None}, NEW h, Detail!Begins(n, h),
         dtCrossed' \in BOOLEAN, ~dtCrossed' => ~dtCrossed /\ Loading = {}
  PROVE  DetailOK'
<1>. USE DEF DetailOK
<1>. DEFINE k == dtVisits + 1
<1>1. /\ k \in Visits /\ dtVisits' = k /\ dtWho' = [dtWho EXCEPT ![k] = n] /\ dtAt' = [dtAt EXCEPT ![k] = "registry"]
      /\ UNCHANGED <<dtSlot, dtContent, dtFilled, dtWired, dtButtons, dtCache, dtActs>>
  BY DEF Detail!Begins, Detail!dom, DetailTyped, Visits, Detail!Sizes
<1>2. DetailTyped'
  BY <1>1 DEF DetailTyped, Stages, Detail!Reading, Visits
<1>. SUFFICES ASSUME ~dtCrossed' PROVE OneNode' /\ SlotsOK' /\ MarkupOK' /\ CacheOK' /\ Detail!ActsOnItsNode'
  BY <1>2
<1>0. ~dtCrossed /\ Loading = {}
  OBVIOUS
<1>3. dtVisits \in Nat /\ k > dtVisits
  BY DEF DetailTyped
<1>. HIDE DEF k
<1>4. \A w \in Visits : dtAt'[w] = (IF w = k THEN "registry" ELSE dtAt[w]) /\ dtWho'[w] = IF w = k THEN n ELSE dtWho[w]
  BY <1>1 DEF DetailTyped
<1>5. \A w \in Visits : w <= dtVisits => w # k /\ w <= k
  BY <1>1, <1>3 DEF Visits
<1>6. k \notin Seen /\ dtAt[k] = "unused"
  BY <1>0, <1>1, <1>5, <1>3 DEF OneNode, Seen
<1>7. Seen' = Seen /\ Loading' = {k}
  BY <1>0, <1>1, <1>4, <1>6 DEF Seen, Loading, Detail!Reading
<1>8. \A w \in Seen : w \in Visits /\ dtWho'[w] = dtWho[w]
  BY <1>4, <1>6 DEF Seen
<1>9. OneNode'
  <2>1. \A w \in Visits : dtAt'[w] # "unused" => w <= k
    BY <1>0, <1>1, <1>3, <1>4, <1>5 DEF OneNode, Visits
  <2>. QED BY <1>0, <1>1, <1>4, <1>7, <1>8, <2>1 DEF OneNode
<1>10. SlotsOK'
  BY <1>0, <1>1, <1>4, <1>7, <1>8 DEF SlotsOK
<1>11. MarkupOK'
  BY <1>0, <1>1, <1>7, <1>8 DEF MarkupOK
<1>12. CacheOK'
  BY <1>0, <1>1, <1>7, <1>8 DEF CacheOK, OneNode
<1>13. Detail!ActsOnItsNode'
  BY <1>0, <1>1 DEF Detail!ActsOnItsNode, Detail!Faithful
<1>. QED BY <1>9, <1>10, <1>11, <1>12, <1>13

\* wireEditForms begins for a visit whose page is in the document, or was; with it the hash
\* may follow a node that has moved.
LEMMA FormsBegin ==
  ASSUME Detail!Sizes, DetailOK, NEW v \in Visits,
         Detail!IdentifyAnswers(v) \/ Detail!Resync(v) \/ Detail!FollowsMove(v)
  PROVE  DetailOK'
<1>. USE DEF DetailOK
<1>. DEFINE k == dtVisits + 1
            m == IF dtContent # 0 /\ dtWho[dtContent] \in Editable THEN dtContent ELSE 0
            s == IF m = 0 THEN "over" ELSE "network"
            moves == Detail!FollowsMove(v)
            before == IF moves THEN [dtAt EXCEPT ![k] = "registry"] ELSE dtAt
            stages == [before EXCEPT ![v] = s]
<1>1. v \in Loading /\ dtAt[v] # "registry" /\ dtAt[v] \in {"identify", "resync"}
  BY DEF Detail!IdentifyAnswers, Detail!Resync, Detail!FollowsMove, Loading, Detail!Reading
<1>2. moves => v = dtVisits /\ k \in Visits
  BY DEF Detail!FollowsMove, Visits, DetailTyped, Detail!Sizes
<1>3. dtVisits' = (IF moves THEN k ELSE dtVisits) /\ dtWho' = IF moves THEN [dtWho EXCEPT ![k] = dtWho[v]] ELSE dtWho
  BY DEF Detail!IdentifyAnswers, Detail!Resync, Detail!FollowsMove
<1>4. dtAt' = stages /\ dtSlot' = [dtSlot EXCEPT ![v] = m]
  BY <1>1 DEF Detail!IdentifyAnswers, Detail!Resync, Detail!FollowsMove, Detail!BeginForms, Detail!HasForms
<1>5. /\ dtFilled' = [x \in Visits |-> IF x = m THEN 0 ELSE dtFilled[x]]
      /\ dtWired' = [x \in Visits |-> IF x = m THEN {} ELSE dtWired[x]]
      /\ UNCHANGED <<dtContent, dtButtons, dtActs, dtCrossed>>
  BY DEF Detail!IdentifyAnswers, Detail!Resync, Detail!FollowsMove, Detail!BeginForms, Detail!HasForms, Detail!Visits, Visits
<1>. HIDE DEF moves
<1>6. dtVisits \in Nat /\ k \in Nat /\ k # dtVisits /\ k > dtVisits /\ 0 \notin Visits
  BY DEF DetailTyped, Visits
<1>7. m \in 0 .. DetailVisits /\ (m # 0 => m = dtContent /\ dtWho[m] \in Editable)
  BY DEF DetailTyped
<1>. HIDE DEF k, m
<1>8. DetailTyped'
  <2>1. dtVisits' \in 0 .. DetailVisits
    BY <1>2, <1>3 DEF DetailTyped, Visits
  <2>2. dtWho' \in [Visits -> NodesOpened \union {Detail!None}]
    BY <1>3 DEF DetailTyped
  <2>3. dtAt' \in [Visits -> Stages]
    BY <1>4 DEF DetailTyped, Stages, Detail!Reading
  <2>4. dtSlot' \in [Visits -> 0 .. DetailVisits] /\ dtFilled' \in [Visits -> 0 .. DetailVisits]
        /\ dtWired' \in [Visits -> SUBSET Visits]
    BY <1>4, <1>5, <1>7 DEF DetailTyped, Visits
  <2>. QED BY <1>4, <1>5, <2>1, <2>2, <2>3, <2>4 DEF DetailTyped
<1>. SUFFICES ASSUME ~dtCrossed PROVE OneNode' /\ SlotsOK' /\ MarkupOK' /\ CacheOK' /\ Detail!ActsOnItsNode'
  BY <1>5, <1>8
<1>9. moves => k \notin Seen /\ k # v /\ dtAt[k] = "unused"
  BY <1>1, <1>2, <1>6 DEF OneNode, Seen
<1>10. \A w \in Visits : dtAt'[w] = IF w = v THEN s ELSE IF moves /\ w = k THEN "registry" ELSE dtAt[w]
  BY <1>2, <1>4, <1>9 DEF DetailTyped
<1>11. \A w \in Visits : dtWho'[w] = IF moves /\ w = k THEN dtWho[v] ELSE dtWho[w]
  BY <1>3 DEF DetailTyped
<1>12. Seen' = Seen /\ Loading' \subseteq Loading \union (IF moves THEN {k} ELSE {}) /\ v \in Seen
  BY <1>1, <1>9, <1>10 DEF Seen, Loading, Detail!Reading
<1>13. \A w \in Seen : w \in Visits /\ dtWho'[w] = dtWho[w]
  BY <1>9, <1>11 DEF Seen
<1>14. dtWho[v] = dtWho[dtVisits] /\ dtWho'[dtVisits'] = dtWho[v] /\ v \in Visits /\ v <= dtVisits
  <2>1. dtWho[v] = dtWho[dtVisits] /\ v <= dtVisits
    BY <1>1 DEF OneNode, Loading, Detail!Reading
  <2>2. dtVisits \in Visits
    BY <2>1 DEF Visits, DetailTyped
  <2>. QED BY <1>2, <1>3, <1>11, <2>1, <2>2
<1>15. OneNode'
  <2>1. \A w \in Visits : dtAt'[w] # "unused" => w <= dtVisits'
    <3>1. \A w \in Visits : dtAt'[w] # "unused" => w <= dtVisits \/ (moves /\ w = k)
      BY <1>10, <1>14 DEF OneNode
    <3>2. dtVisits <= dtVisits' /\ (moves => dtVisits' = k) /\ dtVisits' \in Nat
      BY <1>3, <1>6
    <3>. QED BY <1>6, <3>1, <3>2 DEF Visits
  <2>2. \A w \in Loading' : dtWho'[w] = dtWho'[dtVisits']
    BY <1>11, <1>12, <1>14 DEF OneNode, Loading
  <2>3. dtContent' # 0 => dtContent' \in Seen'
    BY <1>5, <1>12 DEF OneNode
  <2>4. \A w \in Loading' : dtAt'[w] # "registry" /\ dtContent' # 0 => dtWho'[dtContent'] = dtWho'[dtVisits']
    BY <1>1, <1>5, <1>13, <1>14 DEF OneNode
  <2>. QED BY <2>1, <2>2, <2>3, <2>4 DEF OneNode
<1>16. m # 0 => m \in Seen /\ dtWho[m] = dtWho[v] /\ dtWho[m] \in Editable
  BY <1>1, <1>7, <1>14 DEF OneNode
<1>17. SlotsOK'
  <2>1. \A w \in Visits : dtSlot'[w] = IF w = v THEN m ELSE dtSlot[w]
    BY <1>4 DEF DetailTyped
  <2>2. \A w \in Visits : dtAt'[w] \in {"network", "ports"} => dtSlot'[w] # 0
    <3>. TAKE w \in Visits
    <3>. HAVE dtAt'[w] \in {"network", "ports"}
    <3>1. CASE w = v
      BY <1>10, <2>1, <3>1
    <3>2. CASE w # v
      BY <1>10, <2>1, <3>2 DEF SlotsOK
    <3>. QED BY <3>1, <3>2
  <2>3. \A w \in Visits : dtSlot'[w] # 0 =>
          w \in Seen /\ dtSlot'[w] \in Seen /\ dtWho[dtSlot'[w]] = dtWho[w] /\ dtWho[w] \in Editable
    BY <1>12, <1>16, <2>1 DEF SlotsOK
  <2>. QED BY <1>12, <1>13, <2>2, <2>3 DEF SlotsOK
<1>18. MarkupOK'
  <2>1. \A x \in Visits : dtFilled'[x] # 0 => dtFilled[x] # 0
    BY <1>5
  <2>2. \A x \in Visits : dtWired'[x] \subseteq dtWired[x] /\ dtButtons'[x] = dtButtons[x]
    BY <1>5
  <2>. QED BY <1>12, <1>13, <2>1, <2>2 DEF MarkupOK
<1>19. CacheOK'
  <2>1. ASSUME dtContent # 0 PROVE dtFilled'[dtContent] = 0
    <3>1. dtContent \in Visits
      BY <2>1 DEF OneNode, Seen
    <3>2. CASE m = dtContent
      BY <1>5, <3>1, <3>2
    <3>3. CASE m # dtContent
      <4>1. dtWho[dtContent] \notin Editable
        BY <2>1, <3>3 DEF m
      <4>2. dtFilled[dtContent] = 0
        BY <3>1, <4>1 DEF MarkupOK
      <4>. QED BY <1>5, <3>1, <4>2
    <3>. QED BY <3>2, <3>3
  <2>. QED BY <1>5, <2>1 DEF CacheOK
<1>20. Detail!ActsOnItsNode'
  BY <1>5 DEF Detail!ActsOnItsNode, Detail!Faithful
<1>. QED BY <1>15, <1>17, <1>18, <1>19, <1>20

\* The settings have come, or not: the slot is filled, and handlers are wired.
LEMMA PortsIn ==
  ASSUME DetailOK, HoldersOK, NEW v \in Visits, Detail!PortsAnswer(v) \/ Detail!PortsFail(v)
  PROVE  DetailOK'
<1>. USE DEF DetailOK
<1>. DEFINE m == dtSlot[v]
            c == dtContent
            good == Detail!PortsAnswer(v)
            f == IF good THEN v ELSE 0
<1>1. dtAt[v] = "ports" /\ v \in Loading /\ dtAt' = [dtAt EXCEPT ![v] = "ready"]
      /\ UNCHANGED <<dtVisits, dtWho, dtSlot, dtContent, dtActs, dtCrossed>>
  BY DEF Detail!PortsAnswer, Detail!PortsFail, Loading, Detail!Reading, Detail!Goes
<1>2. dtFilled' = [dtFilled EXCEPT ![m] = f] /\ dtCache' = (IF good THEN dtHolder[v] ELSE dtCache)
      /\ (good => dtHolder[v] # Detail!None)
  BY DEF Detail!PortsAnswer, Detail!PortsFail, Detail!Stash
<1>3. \A x \in Visits : dtButtons'[x] \subseteq dtButtons[x] \union (IF x = c THEN {v} ELSE {})
  BY DEF Detail!PortsAnswer, Detail!PortsFail, Detail!WireButtons, DetailTyped
<1>4. \A x \in Visits : dtWired'[x] \subseteq dtWired[x] \union (IF x = c THEN {v} ELSE {})
  BY DEF Detail!PortsAnswer, Detail!PortsFail, DetailTyped
<1>5. dtWired' \in [Visits -> SUBSET Visits] /\ dtButtons' \in [Visits -> SUBSET Visits]
  BY DEF Detail!PortsAnswer, Detail!PortsFail, Detail!WireButtons, DetailTyped
<1>. HIDE DEF good
<1>6. DetailTyped'
  <2>1. dtAt' \in [Visits -> Stages]
    BY <1>1 DEF DetailTyped, Stages, Detail!Reading
  <2>2. f \in 0 .. DetailVisits
    BY <1>2 DEF DetailTyped, Visits
  <2>3. dtFilled' \in [Visits -> 0 .. DetailVisits]
    BY <1>2, <2>2 DEF DetailTyped
  <2>. QED BY <1>1, <1>5, <2>1, <2>2, <2>3 DEF DetailTyped
<1>. SUFFICES ASSUME ~dtCrossed PROVE OneNode' /\ SlotsOK' /\ MarkupOK' /\ CacheOK' /\ Detail!ActsOnItsNode'
  BY <1>1, <1>6
<1>7. \A w \in Visits : dtAt'[w] = IF w = v THEN "ready" ELSE dtAt[w]
  BY <1>1 DEF DetailTyped
<1>8. Seen' = Seen /\ Loading' \subseteq Loading /\ v \in Seen
  BY <1>1, <1>7 DEF Seen, Loading, Detail!Reading
<1>9. m # 0 /\ m \in Seen /\ dtWho[m] = dtWho[v] /\ dtWho[m] \in Editable
  BY <1>1 DEF SlotsOK
<1>10. c # 0 => c \in Seen /\ dtWho[c] = dtWho[v]
  BY <1>1 DEF OneNode
<1>11. OneNode'
  BY <1>1, <1>7, <1>8 DEF OneNode
<1>12. SlotsOK'
  BY <1>1, <1>7, <1>8 DEF SlotsOK
<1>13. \A x \in Visits : dtFilled'[x] = IF x = m THEN f ELSE dtFilled[x]
  BY <1>2 DEF DetailTyped
<1>14. \A x \in Visits : c = x => x # 0
  BY DEF Visits
<1>. HIDE DEF m, c, f
<1>15. MarkupOK'
  <2>1. \A x \in Visits : dtFilled'[x] # 0 => x \in Seen /\ dtWho[x] \in Editable
    BY <1>9, <1>13 DEF MarkupOK
  <2>2. ASSUME NEW x \in Visits, NEW y \in dtWired'[x] \union dtButtons'[x]
        PROVE  x \in Seen /\ y \in Seen /\ dtWho[y] = dtWho[x]
    <3>1. CASE y \in dtWired[x] \union dtButtons[x]
      BY <3>1 DEF MarkupOK
    <3>2. CASE y = v /\ x = c
      BY <1>8, <1>10, <1>14, <3>2
    <3>3. y \in dtWired[x] \union dtButtons[x] \/ (y = v /\ x = c)
      BY <1>3, <1>4, <2>2
    <3>. QED BY <3>1, <3>2, <3>3
  <2>. QED BY <1>1, <1>8, <2>1, <2>2 DEF MarkupOK
<1>16. CacheOK'
  <2>. SUFFICES ASSUME c # 0, dtFilled'[c] # 0 PROVE dtCache' = dtWho[c]
    BY <1>1, <1>8 DEF CacheOK, c
  <2>1. c \in Visits /\ 0 \notin Visits
    BY <1>10 DEF Seen, Visits
  <2>2. CASE good
    <3>1. dtHolder[v] = dtWho[v]
      BY <1>2, <2>2 DEF HoldersOK
    <3>. QED BY <1>2, <1>10, <2>2, <3>1
  <2>3. CASE ~good
    <3>1. dtFilled[c] # 0
      BY <1>13, <2>1, <2>3 DEF f
    <3>. QED BY <1>2, <2>3, <3>1 DEF CacheOK, c
  <2>. QED BY <2>2, <2>3
<1>17. Detail!ActsOnItsNode'
  BY <1>1 DEF Detail!ActsOnItsNode, Detail!Faithful
<1>. QED BY <1>11, <1>12, <1>15, <1>16, <1>17

\* A save or a button: all its handlers are of visits to the node of the page.
LEMMA UserActs == ASSUME DetailOK, HoldersOK, Detail!SubmitPort \/ Detail!PressButton PROVE DetailOK'
<1>. USE DEF DetailOK
<1>1. UNCHANGED <<dtVisits, dtWho, dtAt, dtSlot, dtContent, dtFilled, dtWired, dtButtons, dtCache, dtCrossed>>
  BY DEF Detail!SubmitPort, Detail!PressButton, Detail!dom
<1>2. DetailTyped'
  BY <1>1 DEF DetailTyped
<1>. SUFFICES ASSUME ~dtCrossed PROVE OneNode' /\ SlotsOK' /\ MarkupOK' /\ CacheOK' /\ Detail!ActsOnItsNode'
  BY <1>1, <1>2
<1>3. Seen' = Seen /\ Loading' = Loading
  BY <1>1 DEF Seen, Loading
<1>4. OneNode' /\ SlotsOK' /\ MarkupOK' /\ CacheOK'
  BY <1>1, <1>3 DEF OneNode, SlotsOK, MarkupOK, CacheOK
<1>5. dtContent # 0 => dtContent \in Visits
  BY DEF OneNode, Seen
<1>8. \A v \in Visits : dtHolder[v] # Detail!None => dtHolder[v] = dtWho[v]
  BY DEF HoldersOK
<1>6. CASE Detail!SubmitPort
  <2>1. dtContent # 0 /\ dtFilled[dtContent] # 0
    BY <1>6 DEF Detail!SubmitPort
  <2>. DEFINE cached == [v \in dtWired[dtContent] |-> dtCache]
  <2>2. dtActs' = dtActs \union Detail!Acts(dtWired[dtContent], cached)
    BY <1>6 DEF Detail!SubmitPort
  <2>3. \A v \in dtWired[dtContent] : v \in Visits /\ dtWho[v] = dtWho[dtContent] /\ cached[v] = dtWho[dtContent]
    BY <1>5, <2>1 DEF MarkupOK, CacheOK, Seen
  <2>. HIDE DEF cached
  <2>4. \A a \in Detail!Acts(dtWired[dtContent], cached) : Detail!Faithful(a)
    BY <1>8, <2>3 DEF Detail!Acts, Detail!Faithful
  <2>5. Detail!ActsOnItsNode'
    BY <2>2, <2>4 DEF Detail!ActsOnItsNode, Detail!Faithful
  <2>. QED BY <1>4, <2>5
<1>7. CASE Detail!PressButton
  <2>1. dtContent # 0 /\ dtActs' = dtActs \union Detail!Acts(dtButtons[dtContent], dtHolder)
    BY <1>7 DEF Detail!PressButton
  <2>2. \A v \in dtButtons[dtContent] : v \in Visits /\ dtWho[v] = dtWho[dtContent]
    BY <1>5, <2>1 DEF MarkupOK, Seen
  <2>3. \A a \in Detail!Acts(dtButtons[dtContent], dtHolder) : Detail!Faithful(a)
    BY <1>8, <2>2 DEF Detail!Acts, Detail!Faithful
  <2>4. Detail!ActsOnItsNode'
    BY <2>1, <2>3 DEF Detail!ActsOnItsNode, Detail!Faithful
  <2>. QED BY <1>4, <2>4
<1>. QED BY <1>6, <1>7

\* Who answers changes when a visit begins, and when nodes move.
LEMMA HoldersStay == ASSUME Detail!Sizes, DetailInv, [Detail!Next]_(Detail!vars) PROVE HoldersOK'
<1>. USE DEF DetailInv, DetailOK
<1>. DEFINE k == dtVisits + 1
<1>1. Detail!Visits = Visits
  BY DEF Detail!Visits, Visits
<1>2. ASSUME UNCHANGED <<dtWho, dtHolder, dtCrossed>> PROVE HoldersOK'
  BY <1>2 DEF HoldersOK
<1>3. ASSUME NEW n \in NodesOpened \union {Detail!None}, NEW h \in NodesOpened \union {Detail!None},
             dtWho' = [dtWho EXCEPT ![k] = n], dtHolder' = [dtHolder EXCEPT ![k] = h],
             ~dtCrossed' => ~dtCrossed /\ h \in {n, Detail!None}
      PROVE  HoldersOK'
  BY <1>3 DEF HoldersOK, DetailTyped
<1>4. ASSUME NEW n \in NodesOpened, Detail!Visit(n) PROVE HoldersOK'
  BY <1>3, <1>4 DEF Detail!Visit, Detail!Begins, DetailTyped
<1>5. ASSUME NEW m \in Visits, Detail!TagSaved(m) PROVE HoldersOK'
  <2>1. dtWho[m] \in NodesOpened \union {Detail!None} /\ dtHolder[m] \in NodesOpened \union {Detail!None}
        /\ (~dtCrossed => dtHolder[m] \in {dtWho[m], Detail!None})
    BY DEF DetailTyped, HoldersOK
  <2>2. dtWho' = [dtWho EXCEPT ![k] = dtWho[m]] /\ dtHolder' = [dtHolder EXCEPT ![k] = dtHolder[m]]
        /\ (~dtCrossed' => ~dtCrossed)
    BY <1>5 DEF Detail!TagSaved, Detail!Begins
  <2>. QED BY <1>3, <2>1, <2>2
<1>6. ASSUME NEW v \in Visits, Detail!FollowsMove(v) PROVE HoldersOK'
  <2>1. dtWho[v] \in NodesOpened \union {Detail!None}
    BY DEF DetailTyped
  <2>2. dtWho' = [dtWho EXCEPT ![k] = dtWho[v]] /\ dtHolder' = [dtHolder EXCEPT ![k] = dtWho[v]]
        /\ dtCrossed' = dtCrossed
    BY <1>6 DEF Detail!FollowsMove
  <2>. QED BY <1>3, <2>1, <2>2
<1>7. ASSUME NEW n \in NodesOpened, NEW h \in NodesOpened \union {Detail!None}, Detail!Moves(n, h) PROVE HoldersOK'
  <2>1. /\ dtHolder' = [v \in Visits |-> IF dtHolder[v] = n THEN h ELSE IF dtHolder[v] = h THEN Detail!None ELSE dtHolder[v]]
        /\ dtCrossed' = (dtCrossed \/ (h # Detail!None /\ \E v \in Visits : dtHolder[v] = n))
        /\ dtWho' = dtWho
    BY <1>1, <1>7 DEF Detail!Moves
  <2>. QED BY <2>1 DEF HoldersOK
<1>8. ASSUME NEW v \in Visits, Detail!Loading(v) PROVE HoldersOK'
  <2>1. Detail!FollowsMove(v) \/ UNCHANGED <<dtWho, dtHolder, dtCrossed>>
    BY <1>8 DEF Detail!Loading, Detail!LeftBehind, Detail!RegistryAnswers, Detail!RegistryFails, Detail!IdentifyAnswers,
                Detail!IdentifyFails, Detail!Resync, Detail!NetworkAnswers, Detail!PortsAnswer, Detail!PortsFail
  <2>. QED BY <1>2, <1>6, <2>1
<1>9. CASE Detail!Leave \/ Detail!SubmitPort \/ Detail!PressButton \/ UNCHANGED Detail!vars
  BY <1>2, <1>9 DEF Detail!Leave, Detail!SubmitPort, Detail!PressButton, Detail!vars
<1>. QED BY <1>1, <1>4, <1>5, <1>7, <1>8, <1>9 DEF Detail!Next

LEMMA DetailStays == ASSUME Detail!Sizes, DetailInv, [Detail!Next]_(Detail!vars) PROVE DetailInv'
<1>. USE DEF Detail!dom, DetailInv
<1>1. ASSUME UNCHANGED <<dtVisits, dtWho, dtAt, dtSlot, dtFilled, dtWired, dtButtons, dtCache, dtActs, dtCrossed>>,
             dtContent' \in {dtContent, 0}
      PROVE  DetailOK'
  <2>1. Seen' = Seen /\ Loading' = Loading
    BY <1>1 DEF Seen, Loading
  <2>2. DetailTyped => DetailTyped'
    BY <1>1 DEF DetailTyped
  <2>3. (OneNode => OneNode') /\ (SlotsOK => SlotsOK')
    BY <1>1, <2>1 DEF OneNode, SlotsOK
  <2>4. (MarkupOK => MarkupOK') /\ (CacheOK => CacheOK') /\ (Detail!ActsOnItsNode => Detail!ActsOnItsNode')
    BY <1>1, <2>1 DEF MarkupOK, CacheOK, Detail!ActsOnItsNode, Detail!Faithful
  <2>. QED BY <1>1, <2>2, <2>3, <2>4 DEF DetailOK
<1>2. ASSUME Detail!Leave PROVE DetailOK'
  BY <1>1, <1>2 DEF Detail!Leave
<1>3. ASSUME NEW n \in NodesOpened, NEW h \in NodesOpened \union {Detail!None}, Detail!Moves(n, h) PROVE DetailOK'
  <2>1. /\ UNCHANGED <<dtVisits, dtWho, dtAt, dtSlot, dtContent, dtFilled, dtWired, dtButtons, dtCache, dtActs>>
        /\ dtCrossed' = (dtCrossed \/ (h # Detail!None /\ \E v \in Detail!Visits : dtHolder[v] = n))
    BY <1>3 DEF Detail!Moves
  <2>2. Seen' = Seen /\ Loading' = Loading
    BY <2>1 DEF Seen, Loading
  <2>3. DetailTyped'
    BY <2>1 DEF DetailOK, DetailTyped
  <2>4. (OneNode => OneNode') /\ (SlotsOK => SlotsOK')
    BY <2>1, <2>2 DEF OneNode, SlotsOK
  <2>5. (MarkupOK => MarkupOK') /\ (CacheOK => CacheOK') /\ (Detail!ActsOnItsNode => Detail!ActsOnItsNode')
    BY <2>1, <2>2 DEF MarkupOK, CacheOK, Detail!ActsOnItsNode, Detail!Faithful
  <2>. QED BY <2>1, <2>3, <2>4, <2>5 DEF DetailOK
<1>4. ASSUME UNCHANGED Detail!vars PROVE DetailOK'
  BY <1>1, <1>4 DEF Detail!vars
<1>5. ASSUME NEW v \in Visits, Detail!Loading(v) PROVE DetailOK'
  <2>1. CASE Detail!LeftBehind(v)
    BY <2>1, VisitGetsOn DEF Detail!LeftBehind, Detail!Stops, Loading
  <2>2. CASE Detail!RegistryFails(v)
    BY <2>2, VisitGetsOn DEF Detail!RegistryFails, Detail!Stops, Loading, Detail!Reading
  <2>3. CASE Detail!IdentifyFails(v)
    BY <2>3, VisitGetsOn DEF Detail!IdentifyFails, Detail!Goes, Loading, Detail!Reading
  <2>4. CASE Detail!NetworkAnswers(v)
    BY <2>4, VisitGetsOn DEF Detail!NetworkAnswers, Detail!Goes, Loading, Detail!Reading
  <2>. QED BY <1>5, <2>1, <2>2, <2>3, <2>4, RegistryIn, FormsBegin, PortsIn DEF Detail!Loading
<1>6. Detail!Visits = Visits
  BY DEF Detail!Visits, Visits
<1>7. ASSUME NEW n \in NodesOpened, Detail!Visit(n) PROVE DetailOK'
  <2>1. Detail!Begins(n, n) /\ dtCrossed' = (dtCrossed \/ Loading # {})
    BY <1>6, <1>7 DEF Detail!Visit, Detail!Loads, Loading
  <2>. QED BY <2>1, VisitBegins
<1>8. ASSUME NEW m \in Visits, Detail!TagSaved(m) PROVE DetailOK'
  <2>1. Detail!Begins(dtWho[m], dtHolder[m]) /\ dtWho[m] \in NodesOpened \union {Detail!None}
        /\ dtCrossed' \in BOOLEAN /\ (~dtCrossed' => ~dtCrossed /\ Loading = {})
    BY <1>6, <1>8 DEF Detail!TagSaved, Detail!Loads, Loading, DetailOK, DetailTyped
  <2>. QED BY <2>1, VisitBegins
<1>9. DetailOK'
  BY <1>2, <1>3, <1>4, <1>5, <1>6, <1>7, <1>8, UserActs DEF Detail!Next
<1>. QED BY <1>9, HoldersStay

HIDE DEF dtVisits, dtWho, dtAt, dtSlot, dtContent, dtFilled, dtWired, dtButtons, dtCache, dtHolder, dtActs, dtCrossed
-----------------------------------------------------------------------------
(* TimecodePage: a save and the form it is read from *)

tcForm    == x5
tcSaves   == x6
tcCrossed == x10

USE DEF tcForm, tcSaves, tcCrossed

Slots == 1 .. RoutesSaved
Arts  == Timecode!Art \union {Timecode!None}
UnderWay(s) == tcSaves[s].step \in {"timecode", "routing"}

TimecodeTyped ==
  /\ tcSaves \in [Slots -> [of : MidiNodes \union {Timecode!None}, step : {"unused", "timecode", "routing", "over"},
                            art : Arts, from : MidiNodes \union {Timecode!None}]]
  /\ tcForm = Timecode!NoForm \/ tcForm \in [of : MidiNodes, art : Arts, route : Timecode!Routes]
  /\ tcCrossed \in BOOLEAN

\* Only what was accepted is followed by a routing, and a form that was left alone is
\* the one of every save under way.
SavesOK ==
  /\ \A s \in Slots : tcSaves[s].step = "routing" \/ tcSaves[s].from # Timecode!None => Timecode!Accepts(tcSaves[s].art)
  /\ ~tcCrossed => \A s \in Slots :
       /\ UnderWay(s) => tcForm # Timecode!NoForm /\ tcForm.of = tcSaves[s].of
       /\ tcSaves[s].from \in {Timecode!None, tcSaves[s].of}

NodesOK == x7 \in [MidiNodes -> [art : Arts, route : Timecode!Routes]]

TimecodeInv == TimecodeTyped /\ NodesOK /\ SavesOK

\* A node that takes one setting of a save keeps its kind.
LEMMA NodeTakes ==
  ASSUME NEW x \in [MidiNodes -> [art : Arts, route : Timecode!Routes]], NEW n,
         NEW a \in Arts, NEW r \in Timecode!Routes
  PROVE  /\ [x EXCEPT ![n].art = a] \in [MidiNodes -> [art : Arts, route : Timecode!Routes]]
         /\ [x EXCEPT ![n].route = r] \in [MidiNodes -> [art : Arts, route : Timecode!Routes]]
<1>. DEFINE Node == [art : Arts, route : Timecode!Routes]
<1>1. \A m \in MidiNodes : [x[m] EXCEPT !.art = a] \in Node /\ [x[m] EXCEPT !.route = r] \in Node
  OBVIOUS
<1>. HIDE DEF Node
<1>2. \A y \in Node : [x EXCEPT ![n] = y] \in [MidiNodes -> Node]
  BY DEF Node
<1>3. CASE n \in MidiNodes
  BY <1>1, <1>2, <1>3 DEF Node
<1>4. CASE n \notin MidiNodes
  BY <1>4
<1>. QED BY <1>3, <1>4

LEMMA TimecodeInit == ASSUME Timecode!Init PROVE TimecodeInv
<1>. USE DEF Timecode!Init
<1>1. TimecodeTyped
  BY DEF TimecodeTyped, Slots, Timecode!Unused, Arts
<1>2. NodesOK
  BY DEF NodesOK, Arts, Timecode!Art, Timecode!Routes
<1>3. \A s \in Slots : tcSaves[s] = Timecode!Unused
  BY DEF Slots
<1>4. \A s \in Slots : tcSaves[s].step = "unused" /\ tcSaves[s].from = Timecode!None
  <2>1. Timecode!Unused.step = "unused" /\ Timecode!Unused.from = Timecode!None
    BY DEF Timecode!Unused
  <2>. QED BY <1>3, <2>1, Zenon
<1>5. SavesOK
  BY <1>4 DEF SavesOK, UnderWay
<1>. QED BY <1>1, <1>2, <1>5 DEF TimecodeInv

LEMMA TimecodeGives == ASSUME TimecodeInv PROVE Timecode!RoutingRight
<1>1. DOMAIN tcSaves = Slots
  BY DEF TimecodeInv, TimecodeTyped
<1>. QED BY <1>1 DEF TimecodeInv, TimecodeTyped, SavesOK, Timecode!RoutingRight, Timecode!NoBadTarget, Timecode!OwnRouting

\* The document's form is another.
LEMMA FormReplaced ==
  ASSUME TimecodeInv, NEW f \in [of : MidiNodes, art : Arts, route : Timecode!Routes] \union {Timecode!NoForm},
         Timecode!Replaced(f), UNCHANGED <<tcSaves, x7>>
  PROVE  TimecodeInv'
<1>. USE DEF TimecodeInv
<1>1. tcForm' = f /\ tcCrossed' = (tcCrossed \/ (Timecode!Saving /\ tcForm # Timecode!NoForm))
  BY DEF Timecode!Replaced
<1>2. Timecode!Saving <=> \E s \in Slots : UnderWay(s)
  BY DEF TimecodeTyped, Timecode!Saving, UnderWay
<1>3. TimecodeTyped' /\ NodesOK'
  BY <1>1 DEF TimecodeTyped, NodesOK
<1>4. ASSUME ~tcCrossed' PROVE \A s \in Slots : ~UnderWay(s)
  BY <1>1, <1>2, <1>4 DEF SavesOK
<1>5. SavesOK'
  <2>1. \A s \in Slots : UnderWay(s)' <=> UnderWay(s)
    BY DEF UnderWay
  <2>. QED BY <1>1, <1>4, <2>1 DEF SavesOK
<1>. QED BY <1>3, <1>5

\* One save gets on, or begins.
LEMMA SaveGetsOn ==
  ASSUME TimecodeInv, NEW s \in Slots, UNCHANGED <<tcForm, tcCrossed>>, NodesOK',
         NEW r \in [of : MidiNodes \union {Timecode!None}, step : {"unused", "timecode", "routing", "over"},
                    art : Arts, from : MidiNodes \union {Timecode!None}],
         tcSaves' = [tcSaves EXCEPT ![s] = r],
         r.step = "routing" \/ r.from # Timecode!None => Timecode!Accepts(r.art),
         ~tcCrossed => /\ r.step \in {"timecode", "routing"} => tcForm # Timecode!NoForm /\ tcForm.of = r.of
                       /\ r.from \in {Timecode!None, r.of}
  PROVE  TimecodeInv'
<1>. USE DEF TimecodeInv
<1>1. \A t \in Slots : tcSaves'[t] = IF t = s THEN r ELSE tcSaves[t]
  BY DEF TimecodeTyped
<1>2. TimecodeTyped'
  BY DEF TimecodeTyped
<1>3. SavesOK'
  BY <1>1 DEF SavesOK, UnderWay
<1>. QED BY <1>2, <1>3

LEMMA TimecodeStays == ASSUME Timecode!Sizes, TimecodeInv, [Timecode!Next]_(Timecode!vars) PROVE TimecodeInv'
<1>. DEFINE Record == [of : MidiNodes \union {Timecode!None}, step : {"unused", "timecode", "routing", "over"},
                       art : Arts, from : MidiNodes \union {Timecode!None}]
            Forms == [of : MidiNodes, art : Arts, route : Timecode!Routes]
<1>1. ASSUME UNCHANGED <<tcForm, tcSaves, x7, tcCrossed>> PROVE TimecodeInv'
  BY <1>1 DEF TimecodeInv, TimecodeTyped, NodesOK, SavesOK, UnderWay
<1>2. ASSUME NEW to \in MidiNodes \union {"timecode", "away"}, Timecode!Goes(to) PROVE TimecodeInv'
  BY <1>2, FormReplaced DEF Timecode!Goes
<1>3. ASSUME NEW n \in MidiNodes, Timecode!OpenEditor(n) \/ Timecode!CloseEditor(n) PROVE TimecodeInv'
  BY <1>3, FormReplaced DEF Timecode!OpenEditor, Timecode!CloseEditor
<1>4. ASSUME NEW n \in MidiNodes, Timecode!Poll(n) PROVE TimecodeInv'
  BY <1>1, <1>4 DEF Timecode!Poll
<1>5. ASSUME NEW n \in MidiNodes, NEW shown \in {"live", "failed"}, Timecode!Polled(n, shown) PROVE TimecodeInv'
  BY <1>1, <1>5 DEF Timecode!Polled
<1>6. ASSUME NEW n \in MidiNodes, NEW k \in Timecode!Kinds, Timecode!SettingsRead(n, k) PROVE TimecodeInv'
  <2>1. UNCHANGED <<tcSaves, x7>> /\ (Timecode!Replaced(Timecode!Filled(n)) \/ UNCHANGED <<tcForm, tcCrossed>>)
    BY <1>6 DEF Timecode!SettingsRead
  <2>2. Timecode!Filled(n) \in Forms
    BY DEF TimecodeInv, NodesOK, Timecode!Filled
  <2>. QED BY <1>1, <2>1, <2>2, FormReplaced
<1>7. ASSUME NEW n \in MidiNodes, NEW k \in Timecode!Kinds, Timecode!ReadFails(n, k) PROVE TimecodeInv'
  BY <1>1, <1>7, FormReplaced DEF Timecode!ReadFails
<1>8. ASSUME NEW a \in Timecode!Art, NEW r \in Timecode!Routes, Timecode!Edit(a, r) PROVE TimecodeInv'
  <2>1. tcForm # Timecode!NoForm /\ tcForm' = [tcForm EXCEPT !.art = a, !.route = r] /\ UNCHANGED <<tcSaves, x7, tcCrossed>>
    BY <1>8 DEF Timecode!Edit
  <2>2. tcForm \in Forms
    BY <2>1 DEF TimecodeInv, TimecodeTyped
  <2>3. tcForm' \in Forms /\ tcForm'.of = tcForm.of
    BY <2>1, <2>2 DEF Arts
  <2>4. tcForm' # Timecode!NoForm
    BY <2>3 DEF Timecode!Sizes, Timecode!NoForm
  <2>5. \A s \in Slots : UnderWay(s)' <=> UnderWay(s)
    BY <2>1 DEF UnderWay
  <2>. QED BY <2>1, <2>3, <2>4, <2>5 DEF TimecodeInv, TimecodeTyped, NodesOK, SavesOK
<1>9. ASSUME NEW s \in Slots, Timecode!Save(s) \/ Timecode!TimecodeSaved(s) \/ Timecode!Refused(s) \/ Timecode!RoutingSaved(s)
                              \/ Timecode!RoutingFails(s)
      PROVE  TimecodeInv'
  <2>. DEFINE o == tcSaves[s]
  <2>1. o \in Record /\ (o.step = "routing" \/ o.from # Timecode!None => Timecode!Accepts(o.art))
    BY DEF TimecodeInv, TimecodeTyped, SavesOK
  <2>2. ~tcCrossed => /\ o.step \in {"timecode", "routing"} => tcForm # Timecode!NoForm /\ tcForm.of = o.of
                      /\ o.from \in {Timecode!None, o.of}
    BY DEF TimecodeInv, SavesOK, UnderWay
  <2>3. tcForm # Timecode!NoForm => tcForm \in Forms
    BY DEF TimecodeInv, TimecodeTyped
  <2>4. tcSaves \in [Slots -> Record]
    BY DEF TimecodeInv, TimecodeTyped
  <2>5. x7 \in [MidiNodes -> [art : Arts, route : Timecode!Routes]]
    BY DEF TimecodeInv, NodesOK
  <2>6. CASE Timecode!Save(s)
    <3>. DEFINE r == [of |-> tcForm.of, step |-> "timecode", art |-> tcForm.art, from |-> Timecode!None]
    <3>1. tcForm # Timecode!NoForm /\ tcSaves' = [tcSaves EXCEPT ![s] = r] /\ UNCHANGED <<tcForm, x7, tcCrossed>>
      BY <2>6 DEF Timecode!Save
    <3>2. r \in Record
      BY <2>3, <3>1
    <3>. QED BY <2>3, <3>1, <3>2, SaveGetsOn DEF NodesOK, TimecodeInv
  <2>7. CASE Timecode!TimecodeSaved(s)
    <3>. DEFINE r == [o EXCEPT !.step = "routing"]
    <3>1. o.step = "timecode" /\ Timecode!Accepts(o.art) /\ UNCHANGED <<tcForm, tcCrossed>>
          /\ tcSaves' = [tcSaves EXCEPT ![s].step = "routing"] /\ x7' = [x7 EXCEPT ![o.of].art = o.art]
      BY <2>7 DEF Timecode!TimecodeSaved
    <3>2. r \in Record /\ r.step = "routing" /\ r.of = o.of /\ r.from = o.from /\ r.art = o.art
      BY <2>1
    <3>3. tcSaves' = [tcSaves EXCEPT ![s] = r]
      BY <3>1, <2>4
    <3>4. NodesOK'
      <4>1. o.art \in Arts /\ "on" \in Timecode!Routes
        BY <2>1 DEF Timecode!Routes
      <4>2. [x7 EXCEPT ![o.of].art = o.art] \in [MidiNodes -> [art : Arts, route : Timecode!Routes]]
        BY <2>5, <4>1, NodeTakes
      <4>. QED BY <3>1, <4>2 DEF NodesOK
    <3>5. Timecode!Accepts(r.art)
      BY <3>1, <3>2
    <3>6. ~tcCrossed => /\ tcForm # Timecode!NoForm /\ tcForm.of = r.of
                        /\ r.from \in {Timecode!None, r.of}
      BY <2>2, <3>1, <3>2
    <3>. HIDE DEF r
    <3>. QED BY <3>1, <3>2, <3>3, <3>4, <3>5, <3>6, SaveGetsOn
  <2>8. CASE Timecode!Refused(s) \/ Timecode!RoutingFails(s)
    <3>. DEFINE r == [o EXCEPT !.step = "over"]
    <3>1. UNCHANGED <<tcForm, x7, tcCrossed>> /\ tcSaves' = [tcSaves EXCEPT ![s].step = "over"]
      BY <2>8 DEF Timecode!Refused, Timecode!RoutingFails
    <3>2. r \in Record /\ r.step = "over" /\ r.of = o.of /\ r.from = o.from /\ r.art = o.art
      BY <2>1
    <3>3. tcSaves' = [tcSaves EXCEPT ![s] = r]
      BY <3>1, <2>4
    <3>4. NodesOK'
      BY <2>5, <3>1 DEF NodesOK
    <3>5. r.step = "routing" \/ r.from # Timecode!None => Timecode!Accepts(r.art)
      BY <2>1, <3>2
    <3>6. ~tcCrossed => r.from \in {Timecode!None, r.of}
      BY <2>2, <3>2
    <3>. HIDE DEF r
    <3>. QED BY <3>1, <3>2, <3>3, <3>4, <3>5, <3>6, SaveGetsOn
  <2>9. CASE Timecode!RoutingSaved(s)
    <3>. DEFINE r == [o EXCEPT !.step = "over", !.from = tcForm.of]
    <3>1. o.step = "routing" /\ tcForm # Timecode!NoForm /\ UNCHANGED <<tcForm, tcCrossed>>
          /\ tcSaves' = [tcSaves EXCEPT ![s].step = "over", ![s].from = tcForm.of] /\ x7' = [x7 EXCEPT ![o.of].route = tcForm.route]
      BY <2>9 DEF Timecode!RoutingSaved
    <3>2. r \in Record /\ r.step = "over" /\ r.of = o.of /\ r.from = tcForm.of /\ r.art = o.art
      BY <2>1, <2>3, <3>1
    <3>3. tcSaves' = [tcSaves EXCEPT ![s] = r]
      BY <3>1, <2>4
    <3>4. NodesOK'
      <4>1. tcForm.route \in Timecode!Routes /\ tcForm.art \in Arts
        BY <2>3, <3>1
      <4>2. [x7 EXCEPT ![o.of].route = tcForm.route] \in [MidiNodes -> [art : Arts, route : Timecode!Routes]]
        BY <2>5, <4>1, NodeTakes
      <4>. QED BY <3>1, <4>2 DEF NodesOK
    <3>5. Timecode!Accepts(r.art)
      BY <2>1, <3>1, <3>2
    <3>6. ~tcCrossed => r.from \in {Timecode!None, r.of}
      BY <2>2, <3>1, <3>2
    <3>. HIDE DEF r
    <3>. QED BY <3>1, <3>2, <3>3, <3>4, <3>5, <3>6, SaveGetsOn
  <2>. QED BY <1>9, <2>6, <2>7, <2>8, <2>9
<1>10. CASE UNCHANGED Timecode!vars
  BY <1>1, <1>10 DEF Timecode!vars
<1>11. DOMAIN tcSaves = Slots
  BY DEF TimecodeInv, TimecodeTyped
<1>. QED BY <1>2, <1>3, <1>4, <1>5, <1>6, <1>7, <1>8, <1>9, <1>10, <1>11 DEF Timecode!Next

HIDE DEF tcForm, tcSaves, tcCrossed
-----------------------------------------------------------------------------
(* RdmDiscover: the port of the list *)

SearchInv ==
  /\ x12 \in BOOLEAN
  /\ ~x12 => (x10 # Search!None => x10 = x4) /\ x11.fixture = x11.named

LEMMA SearchInit == ASSUME Search!Init PROVE SearchInv
BY DEF Search!Init, Search!Command, SearchInv

LEMMA SearchGives == ASSUME SearchInv PROVE Search!CommandsReach
BY DEF SearchInv, Search!CommandsReach

LEMMA SearchStays == ASSUME SearchInv, [Search!Next]_(Search!vars) PROVE SearchInv'
<1>. USE DEF SearchInv
<1>1. CASE Search!RenderRdmTab \/ Search!LeaveTab
  BY <1>1 DEF Search!RenderRdmTab, Search!LeaveTab
<1>2. CASE Search!RdmDiscover \/ Search!DiscoverStarted \/ Search!DiscoverFails
  BY <1>2 DEF Search!RdmDiscover, Search!DiscoverStarted, Search!DiscoverFails
<1>3. CASE Search!Poll \/ Search!StatusAnswers \/ Search!StatusFails
  BY <1>3 DEF Search!Poll, Search!StatusAnswers, Search!StatusFails
<1>4. CASE Search!FixtureCommand
  BY <1>4 DEF Search!FixtureCommand, Search!Command
<1>5. ASSUME NEW p \in SearchPorts, Search!ChoosePort(p) \/ Search!NodeDone(p) PROVE SearchInv'
  BY <1>5 DEF Search!ChoosePort, Search!NodeDone
<1>6. CASE UNCHANGED Search!vars
  BY <1>6 DEF Search!vars
<1>. QED BY <1>1, <1>2, <1>3, <1>4, <1>5, <1>6 DEF Search!Next

-----------------------------------------------------------------------------
(* DisplayTab: whose settings come, are shown and are kept *)

MirrorInv ==
  /\ x12 \in BOOLEAN
  /\ ~x12 =>
       /\ x1 # Mirror!None => (\A n \in x8 : n = x1) /\ (\A v \in x3 : v.node = x1)
       /\ x9 # Mirror!None => x9 = x1 /\ x10 = x1
       /\ \A s \in x11 : s.to = s.page /\ s.rest = s.page

LEMMA MirrorInit == ASSUME Mirror!Init PROVE MirrorInv
BY DEF Mirror!Init, MirrorInv

LEMMA MirrorGives == ASSUME MirrorInv PROVE Mirror!SavesOwnDisplay
BY DEF MirrorInv, Mirror!SavesOwnDisplay

LEMMA MirrorStays == ASSUME MirrorInv, [Mirror!Next]_(Mirror!vars) PROVE MirrorInv'
<1>. USE DEF MirrorInv
<1>1. ASSUME NEW n \in Shown, NEW t \in Mirror!Tabs, Mirror!Open(n, t) PROVE MirrorInv'
  <2>1. /\ x1' = n /\ x3' = x3 \union {[node |-> n, tab |-> t]} /\ x9' = Mirror!None
        /\ x12' = (x12 \/ x3 # {} \/ x8 # {}) /\ UNCHANGED <<x8, x11>>
    BY <1>1 DEF Mirror!Open
  <2>2. x12' \in BOOLEAN
    BY <2>1
  <2>3. ~x12' => ~x12 /\ x3 = {} /\ x8 = {}
    BY <2>1
  <2>4. ~x12' => \A v \in x3' : v.node = n
    BY <2>1, <2>3
  <2>. QED BY <2>1, <2>2, <2>3, <2>4
<1>2. ASSUME NEW v \in x3, Mirror!Loaded(v) PROVE MirrorInv'
  BY <1>2 DEF Mirror!Loaded, Mirror!DisplayBegins
<1>3. CASE Mirror!Leave
  BY <1>3 DEF Mirror!Leave
<1>4. ASSUME NEW t \in Mirror!Tabs, Mirror!switchDetailTab(t) PROVE MirrorInv'
  BY <1>4 DEF Mirror!switchDetailTab, Mirror!DisplayBegins
<1>5. CASE Mirror!OledTick \/ Mirror!Picture \/ Mirror!NoPicture
  BY <1>5 DEF Mirror!OledTick, Mirror!Picture, Mirror!NoPicture
<1>6. ASSUME NEW n \in Shown, Mirror!Settings(n) \/ Mirror!NoSettings(n) PROVE MirrorInv'
  BY <1>6 DEF Mirror!Settings, Mirror!NoSettings
<1>7. CASE Mirror!saveDisplay
  BY <1>7 DEF Mirror!saveDisplay
<1>8. CASE UNCHANGED Mirror!vars
  BY <1>8 DEF Mirror!vars
<1>. QED BY <1>1, <1>2, <1>3, <1>4, <1>5, <1>6, <1>7, <1>8 DEF Mirror!Next

-----------------------------------------------------------------------------
(* FleetFlash: what is said of a node, and what it took *)

FlashInv ==
  /\ x9 \in [Flashing!Nodes -> {"none", "uploading", "ok", "error"}]
  /\ x10 \in [Flashing!Nodes -> Flashing!Products \union {"none"}]
  /\ Flashing!TickTrue

LEMMA FlashInit == ASSUME Flashing!Init PROVE FlashInv
BY DEF Flashing!Init, FlashInv, Flashing!TickTrue

LEMMA FlashStays == ASSUME FlashInv, [Flashing!Next]_(Flashing!vars) PROVE FlashInv'
<1>. USE DEF FlashInv
<1>1. ASSUME UNCHANGED <<x9, x10>> PROVE FlashInv'
  BY <1>1 DEF Flashing!TickTrue
<1>2. \A n : Flashing!ProductOf(n) \in Flashing!Products
  BY DEF Flashing!ProductOf, Flashing!Products
<1>3. ASSUME NEW p \in Flashing!Products, Flashing!ChooseFile(p) PROVE FlashInv'
  BY <1>1, <1>3 DEF Flashing!ChooseFile, Flashing!Changed
<1>4. ASSUME NEW p \in Flashing!Products, Flashing!ChooseProduct(p) PROVE FlashInv'
  BY <1>4 DEF Flashing!ChooseProduct, Flashing!Changed, Flashing!TickTrue
<1>5. ASSUME NEW n \in Flashing!Nodes, Flashing!Toggle(n) PROVE FlashInv'
  BY <1>1, <1>5 DEF Flashing!Toggle, Flashing!Changed
<1>6. CASE Flashing!Flash
  BY <1>1, <1>6 DEF Flashing!Flash
\* What is said of one node is not "ok" unless it has its own firmware; what it has then stays.
<1>7. ASSUME NEW n, NEW what \in {"uploading", "ok", "error"}, Flashing!Say(n, what),
             x10' = x10 \/ x10' = [x10 EXCEPT ![n] = Flashing!ProductOf(n)],
             what = "ok" => x10' = [x10 EXCEPT ![n] = Flashing!ProductOf(n)]
      PROVE  FlashInv'
  <2>1. x9' \in [Flashing!Nodes -> {"none", "uploading", "ok", "error"}] /\ (\A m \in Flashing!Nodes : x9'[m] = "ok" =>
          x9[m] = "ok" \/ (m = n /\ what = "ok"))
    BY <1>7 DEF Flashing!Say
  <2>2. x10' \in [Flashing!Nodes -> Flashing!Products \union {"none"}]
    BY <1>2, <1>7
  <2>3. \A m \in Flashing!Nodes : x10'[m] = x10[m] \/ x10'[m] = Flashing!ProductOf(m)
    BY <1>7
  <2>4. what = "ok" /\ n \in Flashing!Nodes => x10'[n] = Flashing!ProductOf(n)
    BY <1>7
  <2>. QED BY <2>1, <2>2, <2>3, <2>4 DEF Flashing!TickTrue
<1>8. ASSUME NEW r \in Flashing!Runs, Flashing!Push(r) PROVE FlashInv'
  BY <1>7, <1>8 DEF Flashing!Push
<1>9. ASSUME NEW r \in Flashing!Runs, Flashing!Pushed(r) PROVE FlashInv'
  BY <1>7, <1>9 DEF Flashing!Pushed, Flashing!Took, Flashing!Resolved
<1>10. ASSUME NEW r \in Flashing!Runs, Flashing!PushFails(r) PROVE FlashInv'
  BY <1>7, <1>10 DEF Flashing!PushFails, Flashing!Took
<1>11. CASE UNCHANGED Flashing!vars
  BY <1>1, <1>11 DEF Flashing!vars, Flashing!work
<1>. QED BY <1>3, <1>4, <1>5, <1>6, <1>8, <1>9, <1>10, <1>11 DEF Flashing!Next

-----------------------------------------------------------------------------
(* RdmTable *)

LEMMA TableKeepsEdit == ASSUME [Table!Next]_(Table!vars) PROVE Table!EditKept
<1>. USE DEF Table!EditKept, Table!ModeLost, Table!SecondLoad
<1>1. CASE Table!TableArrives \/ Table!NoTable
  BY <1>1 DEF Table!TableArrives, Table!NoTable
<1>0. CASE Table!Poll \/ Table!PollFindsOff
  BY <1>0 DEF Table!Poll, Table!PollFindsOff, Table!Paint, Table!Reload
<1>2. CASE Table!DetailTimer \/ Table!DetailAnswers \/ Table!DetailFails
  BY <1>2 DEF Table!DetailTimer, Table!DetailAnswers, Table!DetailFails, Table!PaintIfAny, Table!Paint
<1>3. CASE Table!NodeReads \/ Table!TableChanges \/ Table!ModeChanges \/ UNCHANGED Table!vars
  BY <1>3 DEF Table!NodeReads, Table!TableChanges, Table!ModeChanges, Table!vars, Table!page
<1>4. CASE Table!OpenTab \/ Table!LeaveTab \/ Table!Edit \/ Table!SetField \/ Table!Discover
  BY <1>4 DEF Table!OpenTab, Table!Reload, Table!LeaveTab, Table!Edit, Table!SetField, Table!Discover
<1>5. ASSUME NEW u \in Uids, Table!Toggle(u) PROVE Table!EditKept
  BY <1>5, Parameters DEF Table!Toggle, Table!UidsOK
<1>. QED BY <1>0, <1>1, <1>2, <1>3, <1>4, <1>5 DEF Table!Next, Table!User

-----------------------------------------------------------------------------
(* NodeCalls: the calls to an address, in the order they were made *)

clTail    == x1
clPrev    == x2
clStage   == x3
clIssued  == x5
clSettled == x6
clTick    == x7

USE DEF clTail, clPrev, clStage, clIssued, clSettled, clTick

AllCalls  == Calls!Calls
CallNone  == Calls!None
Over(st, c)  == st[c] \in {"answered", "failed"}
Out(st, c)   == st[c] \in {"sent", "reading"}

LEMMA CallIs ==
  /\ \A c \in AllCalls : c[1] \in Ticks \union {0} /\ c[2] \in Called /\ c = <<c[1], c[2]>> /\ c # CallNone
  /\ \A t \in Ticks \union {0}, n \in Called : <<t, n>> \in AllCalls
<1>1. ASSUME NEW c \in AllCalls PROVE c[1] \in Ticks \union {0} /\ c[2] \in Called /\ c = <<c[1], c[2]>> /\ c # CallNone
  <2>1. PICK t \in Ticks \union {0}, n \in Called : c = <<t, n>>
    BY DEF AllCalls, Calls!Calls
  <2>2. c # <<>>
    BY <2>1
  <2>. QED BY <2>1, <2>2 DEF CallNone, Calls!None
<1>. QED BY <1>1 DEF AllCalls, Calls!Calls

\* The calls of an address: those that are over come first, at most the next one is out, and
\* the others wait for the one in front of them.
Right(n, iss, set, tl, pv, st) ==
  /\ Len(set) <= Len(iss) /\ \A i \in 1 .. Len(set) : set[i] = iss[i]
  /\ \A i \in 1 .. Len(iss) : iss[i][2] = n /\ st[iss[i]] # "unused"
  /\ \A i \in 1 .. Len(iss) : Over(st, iss[i]) <=> i <= Len(set)
  /\ \A i \in 1 .. Len(iss) : Out(st, iss[i]) => i = Len(set) + 1
  /\ \A i, j \in 1 .. Len(iss) : iss[i] = iss[j] => i = j
  /\ \A c \in AllCalls : c[2] = n /\ st[c] # "unused" => \E i \in 1 .. Len(iss) : c = iss[i]
  /\ \A i \in 1 .. Len(iss) : pv[iss[i]] = CallNone => i <= Len(set) + 1
  /\ \A i \in 1 .. Len(iss) : pv[iss[i]] # CallNone => i > 1 /\ pv[iss[i]] = iss[i - 1]
  /\ tl = CallNone => Len(set) = Len(iss)
  /\ tl # CallNone => Len(iss) > 0 /\ tl = iss[Len(iss)]

LEMMA RightAlike ==
  ASSUME NEW n, NEW iss \in Seq(AllCalls), NEW set, NEW tl, NEW pv, NEW st, NEW pw, NEW su,
         Right(n, iss, set, tl, pv, st), \A c \in AllCalls : c[2] = n => pw[c] = pv[c] /\ su[c] = st[c]
  PROVE  Right(n, iss, set, tl, pw, su)
<1>1. \A i \in 1 .. Len(iss) : iss[i] \in AllCalls
  OBVIOUS
<1>. QED BY <1>1 DEF Right, Over, Out

LEMMA RightChained ==
  ASSUME NEW n, NEW iss \in Seq(AllCalls), NEW set \in Seq(AllCalls), NEW tl, NEW pv, NEW st, NEW pw, NEW su,
         Right(n, iss, set, tl, pv, st),
         NEW c \in AllCalls, c[2] = n, st[c] = "unused", pw[c] = tl, su[c] = "chained",
         \A d \in AllCalls : d[2] = n /\ d # c => pw[d] = pv[d] /\ su[d] = st[d]
  PROVE  Right(n, Append(iss, c), set, c, pw, su)
<1>. DEFINE new == Append(iss, c)
            L == Len(iss)
<1>1. L \in Nat /\ Len(set) \in Nat /\ Len(new) = L + 1 /\ new[L + 1] = c /\ (\A i \in 1 .. L : new[i] = iss[i] /\ iss[i] \in AllCalls)
  OBVIOUS
<1>2. \A i \in 1 .. L : iss[i] # c
  BY DEF Right
<1>3. \A i \in 1 .. L : pw[iss[i]] = pv[iss[i]] /\ su[iss[i]] = st[iss[i]]
  BY <1>1, <1>2 DEF Right
<1>4. c # CallNone
  BY CallIs
<1>. HIDE DEF new, L
<1>5. Len(set) <= L /\ (tl = CallNone => Len(set) = L) /\ (tl # CallNone => L > 0 /\ tl = iss[L])
  BY DEF Right, L
<1>6. \A i \in 1 .. L + 1 : i \in 1 .. L \/ i = L + 1
  BY <1>1
<1>7. /\ Len(set) <= Len(new) /\ \A i \in 1 .. Len(set) : set[i] = new[i]
      /\ \A i \in 1 .. Len(new) : new[i][2] = n /\ su[new[i]] # "unused"
  <2>1. \A i \in 1 .. Len(set) : i \in 1 .. L /\ set[i] = iss[i]
    BY <1>1, <1>5 DEF Right, L
  <2>2. Len(set) <= Len(new) /\ \A i \in 1 .. Len(set) : set[i] = new[i]
    BY <1>1, <1>5, <2>1
  <2>3. \A i \in 1 .. L : new[i][2] = n /\ su[new[i]] # "unused"
    BY <1>1, <1>3 DEF Right, L
  <2>4. new[L + 1][2] = n /\ su[new[L + 1]] # "unused"
    BY <1>1
  <2>. QED BY <1>1, <1>6, <2>2, <2>3, <2>4
<1>8. \A i \in 1 .. Len(new) : Over(su, new[i]) <=> i <= Len(set)
  BY <1>1, <1>3, <1>5, <1>6 DEF Right, L, Over
<1>9. \A i \in 1 .. Len(new) : Out(su, new[i]) => i = Len(set) + 1
  BY <1>1, <1>3, <1>6 DEF Right, L, Out
<1>10. \A i, j \in 1 .. Len(new) : new[i] = new[j] => i = j
  BY <1>1, <1>2, <1>6 DEF Right, L
<1>11. \A d \in AllCalls : d[2] = n /\ su[d] # "unused" => \E i \in 1 .. Len(new) : d = new[i]
  <2>. TAKE d \in AllCalls
  <2>. HAVE d[2] = n /\ su[d] # "unused"
  <2>1. CASE d = c
    BY <1>1, <2>1
  <2>2. CASE d # c
    <3>1. PICK i \in 1 .. L : d = iss[i]
      BY <2>2 DEF Right, L
    <3>. QED BY <1>1, <3>1
  <2>. QED BY <2>1, <2>2
<1>12. \A i \in 1 .. Len(new) : pw[new[i]] = CallNone => i <= Len(set) + 1
  <2>. TAKE i \in 1 .. Len(new)
  <2>. HAVE pw[new[i]] = CallNone
  <2>1. CASE i \in 1 .. L
    BY <1>1, <1>3, <2>1 DEF Right, L
  <2>2. CASE i = L + 1
    BY <1>1, <1>5, <2>2
  <2>. QED BY <1>1, <1>6, <2>1, <2>2
<1>13. \A i \in 1 .. Len(new) : pw[new[i]] # CallNone => i > 1 /\ pw[new[i]] = new[i - 1]
  <2>. TAKE i \in 1 .. Len(new)
  <2>. HAVE pw[new[i]] # CallNone
  <2>1. CASE i \in 1 .. L
    <3>1. i > 1 /\ pw[new[i]] = iss[i - 1]
      BY <1>1, <1>3, <2>1 DEF Right, L
    <3>2. i - 1 \in 1 .. L
      BY <1>1, <2>1, <3>1
    <3>. QED BY <1>1, <3>1, <3>2
  <2>2. CASE i = L + 1
    <3>1. pw[new[i]] = tl /\ L > 0 /\ tl = iss[L]
      BY <1>1, <1>5, <2>2
    <3>2. i - 1 = L /\ L \in 1 .. L
      BY <1>1, <2>2, <3>1
    <3>. QED BY <1>1, <2>2, <3>1, <3>2
  <2>. QED BY <1>1, <1>6, <2>1, <2>2
<1>14. Len(new) > 0 /\ c = new[Len(new)]
  BY <1>1
<1>15. Right(n, new, set, c, pw, su)
  BY <1>4, <1>7, <1>8, <1>9, <1>10, <1>11, <1>12, <1>13, <1>14 DEF Right
<1>. QED BY <1>15 DEF new

\* A call is sent when the one in front of it is over, and then read.
LEMMA RightMoves ==
  ASSUME NEW n, NEW iss \in Seq(AllCalls), NEW set \in Seq(AllCalls), NEW tl, NEW pv, NEW st, NEW su,
         Right(n, iss, set, tl, pv, st),
         NEW c \in AllCalls, c[2] = n,
         \/ st[c] = "chained" /\ (pv[c] # CallNone => Over(st, pv[c])) /\ su[c] = "sent"
         \/ st[c] = "sent" /\ su[c] = "reading",
         \A d \in AllCalls : d # c => su[d] = st[d]
  PROVE  Right(n, iss, set, tl, pv, su)
<1>. DEFINE L == Len(iss)
            k == Len(set)
<1>1. L \in Nat /\ k \in Nat /\ (\A i \in 1 .. L : iss[i] \in AllCalls)
  OBVIOUS
<1>2. PICK p \in 1 .. L : c = iss[p]
  BY DEF Right
<1>3. p = k + 1
  <2>1. ~(p <= k)
    BY <1>2 DEF Right, Over
  <2>2. CASE st[c] = "sent"
    BY <1>2, <2>2 DEF Right, Out
  <2>3. CASE pv[c] = CallNone
    BY <1>1, <1>2, <2>1, <2>3 DEF Right
  <2>4. CASE pv[c] # CallNone /\ Over(st, pv[c])
    <3>1. p > 1 /\ pv[c] = iss[p - 1]
      BY <1>2, <2>4 DEF Right
    <3>2. p - 1 \in 1 .. L
      BY <1>1, <3>1
    <3>3. p - 1 <= k
      BY <2>4, <3>1, <3>2 DEF Right
    <3>. QED BY <1>1, <2>1, <3>3
  <2>. QED BY <2>2, <2>3, <2>4
<1>4. \A i \in 1 .. L : IF i = p THEN su[iss[i]] \in {"sent", "reading"} ELSE su[iss[i]] = st[iss[i]]
  BY <1>1, <1>2 DEF Right
<1>. HIDE DEF L, k
<1>5. \A i \in 1 .. L : su[iss[i]] # "unused" /\ (Over(su, iss[i]) <=> Over(st, iss[i])) /\ (Out(su, iss[i]) => i = k + 1)
  BY <1>2, <1>3, <1>4 DEF Right, Over, Out, L, k
<1>6. \A d \in AllCalls : su[d] # "unused" => st[d] # "unused"
  OBVIOUS
<1>. QED BY <1>5, <1>6 DEF Right, L, k

LEMMA RightSettles ==
  ASSUME NEW n, NEW iss \in Seq(AllCalls), NEW set \in Seq(AllCalls), NEW tl, NEW pv, NEW st, NEW su,
         Right(n, iss, set, tl, pv, st),
         NEW c \in AllCalls, c[2] = n, Out(st, c), Over(su, c), \A d \in AllCalls : d # c => su[d] = st[d]
  PROVE  Right(n, iss, Append(set, c), tl, pv, su)
<1>. DEFINE L == Len(iss)
            k == Len(set)
            new == Append(set, c)
<1>1. L \in Nat /\ k \in Nat /\ (\A i \in 1 .. L : iss[i] \in AllCalls)
      /\ Len(new) = k + 1 /\ new[k + 1] = c /\ (\A i \in 1 .. k : new[i] = set[i])
  OBVIOUS
<1>2. PICK p \in 1 .. L : c = iss[p]
  BY DEF Right, Out
<1>3. p = k + 1
  BY <1>2 DEF Right
<1>4. \A i \in 1 .. L : i # p => iss[i] # c
  BY <1>2 DEF Right
<1>5. \A i \in 1 .. L : IF i = p THEN Over(su, iss[i]) ELSE su[iss[i]] = st[iss[i]]
  BY <1>1, <1>2, <1>4
<1>6. tl = CallNone => k = L
  BY DEF Right
<1>. HIDE DEF L, k, new
<1>7. Len(new) <= L /\ \A i \in 1 .. Len(new) : new[i] = iss[i]
  <2>1. \A i \in 1 .. k + 1 : i \in 1 .. k \/ i = k + 1
    BY <1>1
  <2>2. \A i \in 1 .. k : set[i] = iss[i]
    BY DEF Right, k
  <2>. QED BY <1>1, <1>2, <1>3, <2>1, <2>2
<1>8. \A i \in 1 .. L : su[iss[i]] # "unused" /\ (Over(su, iss[i]) <=> i <= Len(new)) /\ (Out(su, iss[i]) => i = Len(new) + 1)
  <2>. TAKE i \in 1 .. L
  <2>1. CASE i = p
    BY <1>1, <1>3, <1>5, <2>1 DEF Over, Out
  <2>2. CASE i # p
    <3>1. su[iss[i]] = st[iss[i]]
      BY <1>5, <2>2
    <3>2. st[iss[i]] # "unused" /\ (Over(st, iss[i]) <=> i <= k) /\ ~Out(st, iss[i])
      BY <1>3, <2>2 DEF Right, L, k
    <3>. QED BY <1>1, <1>3, <2>2, <3>1, <3>2 DEF Over, Out
  <2>. QED BY <2>1, <2>2
<1>9. \A d \in AllCalls : d[2] = n /\ su[d] # "unused" => \E i \in 1 .. L : d = iss[i]
  BY <1>2 DEF Right, L
<1>10. \A i \in 1 .. L : pv[iss[i]] = CallNone => i <= Len(new) + 1
  BY <1>1 DEF Right, L, k
<1>11. \A i \in 1 .. L : pv[iss[i]] # CallNone => i > 1 /\ pv[iss[i]] = iss[i - 1]
  BY DEF Right, L
<1>12. tl # CallNone
  BY <1>1, <1>2, <1>3, <1>6
<1>13. Right(n, iss, new, tl, pv, su)
  BY <1>7, <1>8, <1>9, <1>10, <1>11, <1>12 DEF Right, L
<1>. QED BY <1>13 DEF new

\* The last call of an address is over, so all of them are.
LEMMA RightCleans ==
  ASSUME NEW n, NEW iss \in Seq(AllCalls), NEW set \in Seq(AllCalls), NEW pv, NEW st, NEW c \in AllCalls,
         Right(n, iss, set, c, pv, st), Over(st, c)
  PROVE  Right(n, iss, set, CallNone, pv, st)
<1>1. c # CallNone /\ Len(iss) \in Nat /\ Len(set) \in Nat
  BY CallIs
<1>2. Len(iss) > 0 /\ c = iss[Len(iss)] /\ Len(set) <= Len(iss)
  BY <1>1 DEF Right
<1>3. Len(iss) \in 1 .. Len(iss)
  BY <1>1, <1>2
<1>4. Len(set) = Len(iss)
  BY <1>1, <1>2, <1>3 DEF Right
<1>. QED BY <1>4 DEF Right

LEMMA CallsCount == ASSUME NEW S PROVE Calls!Cardinality(S) = Cardinality(S)
BY DEF Calls!Cardinality, Cardinality

CallsTyped ==
  /\ clPrev \in [AllCalls -> AllCalls \union {CallNone}] /\ clTail \in [Called -> AllCalls \union {CallNone}]
  /\ clStage \in [AllCalls -> {"unused", "chained", "sent", "reading", "answered", "failed"}]
  /\ clIssued \in [Called -> Seq(AllCalls)] /\ clSettled \in [Called -> Seq(AllCalls)]
  /\ clTick \in [Ticks -> {"unused", "registry", "polling", "shown", "dropped"}]
TicksFresh == \A t \in Ticks : clTick[t] \in {"unused", "registry"} => \A n \in Called : clStage[<<t, n>>] = "unused"
NodeRight(n) == Right(n, clIssued[n], clSettled[n], clTail[n], clPrev, clStage)

CallsInv == CallsTyped /\ TicksFresh /\ \A n \in Called : NodeRight(n)

LEMMA CallsInit == ASSUME Calls!Init PROVE CallsInv
<1>. USE DEF Calls!Init
<1>1. CallsTyped
  BY DEF CallsTyped, AllCalls, CallNone
<1>2. TicksFresh
  BY CallIs DEF TicksFresh, AllCalls
<1>3. ASSUME NEW n \in Called PROVE NodeRight(n)
  <2>1. clIssued[n] = <<>> /\ clSettled[n] = <<>> /\ clTail[n] = CallNone /\ (\A c \in AllCalls : clStage[c] = "unused")
    BY DEF CallNone, AllCalls
  <2>2. Len(<<>>) = 0
    OBVIOUS
  <2>. QED BY <2>1, <2>2 DEF NodeRight, Right
<1>. QED BY <1>1, <1>2, <1>3 DEF CallsInv

LEMMA CallsGives == ASSUME CallsInv PROVE Calls!OneAtATime
<1>. SUFFICES ASSUME NEW n \in Called
              PROVE  /\ Calls!Cardinality({c \in AllCalls : c[2] = n /\ clStage[c] \in {"sent", "reading"}}) <= 1
                     /\ clSettled[n] = SubSeq(clIssued[n], 1, Len(clSettled[n]))
  BY DEF Calls!OneAtATime, Calls!AddressOf, AllCalls
<1>. DEFINE O == {c \in AllCalls : c[2] = n /\ clStage[c] \in {"sent", "reading"}}
            iss == clIssued[n]
            set == clSettled[n]
<1>1. iss \in Seq(AllCalls) /\ set \in Seq(AllCalls) /\ Right(n, iss, set, clTail[n], clPrev, clStage)
  BY DEF CallsInv, CallsTyped, NodeRight
<1>2. \A c, d \in O : c = d
  <2>. TAKE c, d \in O
  <2>1. Out(clStage, c) /\ Out(clStage, d) /\ clStage[c] # "unused" /\ clStage[d] # "unused"
    BY DEF Out
  <2>. HIDE DEF iss, set
  <2>2. PICK i \in 1 .. Len(iss), j \in 1 .. Len(iss) : c = iss[i] /\ d = iss[j]
    BY <1>1, <2>1 DEF Right
  <2>3. i = Len(set) + 1 /\ j = Len(set) + 1
    BY <1>1, <2>1, <2>2 DEF Right
  <2>. QED BY <2>2, <2>3
<1>3. Cardinality(O) <= 1
  <2>. HIDE DEF O
  <2>1. CASE O = {}
    BY <2>1, FS_EmptySet
  <2>2. CASE O # {}
    <3>1. PICK c \in O : O = {c}
      BY <1>2, <2>2
    <3>2. Cardinality({c}) = 1
      BY FS_Singleton
    <3>. QED BY <3>1, <3>2
  <2>. QED BY <2>1, <2>2
<1>4. set = SubSeq(iss, 1, Len(set))
  <2>. HIDE DEF iss, set
  <2>. DEFINE k == Len(set)
              sub == SubSeq(iss, 1, k)
  <2>1. k \in Nat /\ Len(iss) \in Nat /\ k <= Len(iss) /\ \A i \in 1 .. k : set[i] = iss[i]
    BY <1>1 DEF Right
  <2>2. sub = [i \in 1 .. k |-> iss[i]]
    <3>. HIDE DEF k
    <3>1. sub = [i \in 1 .. (1 + k) - 1 |-> iss[(i - 1) + 1]]
      BY <1>1, <2>1
    <3>. QED BY <2>1, <3>1
  <2>3. set = [i \in 1 .. k |-> set[i]]
    BY <1>1
  <2>. QED BY <2>1, <2>2, <2>3
<1>. QED BY <1>1, <1>3, <1>4, CallsCount

\* New calls, at most one to each address, go behind the last one of theirs.
LEMMA CallsChained ==
  ASSUME CallsInv, NEW cs \in SUBSET AllCalls, Calls!Chained(cs), UNCHANGED clSettled,
         \A c \in cs : clStage[c] = "unused", \A c, d \in cs : c[2] = d[2] => c = d
  PROVE  /\ clPrev' \in [AllCalls -> AllCalls \union {CallNone}] /\ clTail' \in [Called -> AllCalls \union {CallNone}]
         /\ clIssued' \in [Called -> Seq(AllCalls)]
         /\ clStage' = [c \in AllCalls |-> IF c \in cs THEN "chained" ELSE clStage[c]]
         /\ \A n \in Called : NodeRight(n)'
<1>. USE DEF CallsInv
<1>. DEFINE At(n) == {c \in cs : c[2] = n}
            New(n) == CHOOSE c \in cs : c[2] = n
<1>1. /\ clPrev' = [c \in AllCalls |-> IF c \in cs THEN clTail[c[2]] ELSE clPrev[c]]
      /\ clTail' = [n \in Called |-> IF At(n) = {} THEN clTail[n] ELSE New(n)]
      /\ clIssued' = [n \in Called |-> IF At(n) = {} THEN clIssued[n] ELSE Append(clIssued[n], New(n))]
      /\ clStage' = [c \in AllCalls |-> IF c \in cs THEN "chained" ELSE clStage[c]]
  BY DEF Calls!Chained, Calls!AddressOf, AllCalls
<1>2. \A n \in Called : At(n) # {} => New(n) \in cs /\ New(n)[2] = n /\ New(n) \in AllCalls
  OBVIOUS
<1>3. \A c \in cs : c[2] \in Called
  BY CallIs
<1>4. clPrev' \in [AllCalls -> AllCalls \union {CallNone}] /\ clTail' \in [Called -> AllCalls \union {CallNone}]
  <2>. HIDE DEF At, New
  <2>. QED BY <1>1, <1>2, <1>3 DEF CallsTyped
<1>5. clIssued' \in [Called -> Seq(AllCalls)]
  <2>. HIDE DEF At, New
  <2>1. ASSUME NEW n \in Called, At(n) # {} PROVE Append(clIssued[n], New(n)) \in Seq(AllCalls)
    <3>1. clIssued[n] \in Seq(AllCalls) /\ New(n) \in AllCalls
      BY <1>2, <2>1 DEF CallsTyped
    <3>. QED BY <3>1
  <2>. QED BY <1>1, <2>1 DEF CallsTyped
<1>6. ASSUME NEW n \in Called PROVE NodeRight(n)'
  <2>. DEFINE iss == clIssued[n]
              set == clSettled[n]
              tl == clTail[n]
  <2>1. iss \in Seq(AllCalls) /\ set \in Seq(AllCalls) /\ Right(n, iss, set, tl, clPrev, clStage)
    BY DEF CallsTyped, NodeRight
  <2>2. CASE At(n) = {}
    <3>1. clIssued'[n] = iss /\ clTail'[n] = tl /\ clSettled'[n] = set
      BY <1>1, <2>2
    <3>2. \A c \in AllCalls : c[2] = n => clPrev'[c] = clPrev[c] /\ clStage'[c] = clStage[c]
      BY <1>1, <2>2
    <3>. HIDE DEF iss, set, tl
    <3>3. Right(n, iss, set, tl, clPrev', clStage')
      BY <2>1, <3>2, RightAlike
    <3>. QED BY <3>1, <3>3 DEF NodeRight
  <2>3. CASE At(n) # {}
    <3>. DEFINE c == New(n)
    <3>1. c \in cs /\ c[2] = n /\ c \in AllCalls /\ clStage[c] = "unused"
      BY <1>2, <2>3
    <3>2. clIssued'[n] = Append(iss, c) /\ clTail'[n] = c /\ clSettled'[n] = set
      BY <1>1, <2>3
    <3>. HIDE DEF c
    <3>3. clPrev'[c] = tl /\ clStage'[c] = "chained"
      BY <1>1, <3>1
    <3>4. \A d \in AllCalls : d[2] = n /\ d # c => clPrev'[d] = clPrev[d] /\ clStage'[d] = clStage[d]
      BY <1>1, <3>1
    <3>. HIDE DEF iss, set, tl
    <3>5. Right(n, Append(iss, c), set, c, clPrev', clStage')
      BY <2>1, <3>1, <3>3, <3>4, RightChained
    <3>. QED BY <3>2, <3>5 DEF NodeRight
  <2>. QED BY <2>2, <2>3
<1>. QED BY <1>1, <1>4, <1>5, <1>6

\* A call gets on, without and with an end.
LEMMA CallGetsOn ==
  ASSUME CallsInv, NEW c \in AllCalls, NEW s \in {"sent", "reading"}, clStage' = [clStage EXCEPT ![c] = s],
         \/ clStage[c] = "chained" /\ (clPrev[c] # CallNone => Over(clStage, clPrev[c])) /\ s = "sent"
         \/ clStage[c] = "sent" /\ s = "reading",
         UNCHANGED <<clTail, clPrev, clIssued, clSettled, clTick>>
  PROVE  CallsInv'
<1>. USE DEF CallsInv
<1>1. CallsTyped'
  BY DEF CallsTyped
<1>2. \A d \in AllCalls : clStage'[d] = IF d = c THEN s ELSE clStage[d]
  BY DEF CallsTyped
<1>3. TicksFresh'
  BY <1>2, CallIs DEF TicksFresh
<1>4. ASSUME NEW n \in Called PROVE NodeRight(n)'
  <2>1. clIssued[n] \in Seq(AllCalls) /\ clSettled[n] \in Seq(AllCalls) /\ Right(n, clIssued[n], clSettled[n], clTail[n], clPrev, clStage)
    BY DEF CallsTyped, NodeRight
  <2>2. CASE c[2] = n
    <3>. DEFINE st == clStage
                su == clStage'
    <3>2. /\ \/ st[c] = "chained" /\ (clPrev[c] # CallNone => Over(st, clPrev[c])) /\ su[c] = "sent"
             \/ st[c] = "sent" /\ su[c] = "reading"
          /\ \A d \in AllCalls : d # c => su[d] = st[d]
      BY <1>2
    <3>. HIDE DEF su
    <3>1. Right(n, clIssued[n], clSettled[n], clTail[n], clPrev, su)
      BY <2>1, <2>2, <3>2, RightMoves
    <3>. QED BY <3>1 DEF NodeRight, su
  <2>3. CASE c[2] # n
    <3>. DEFINE su == clStage'
    <3>2. \A d \in AllCalls : d[2] = n => clPrev[d] = clPrev[d] /\ su[d] = clStage[d]
      BY <1>2, <2>3
    <3>. HIDE DEF su
    <3>1. Right(n, clIssued[n], clSettled[n], clTail[n], clPrev, su)
      BY <2>1, <3>2, RightAlike
    <3>. QED BY <3>1 DEF NodeRight, su
  <2>. QED BY <2>2, <2>3
<1>. QED BY <1>1, <1>3, <1>4

LEMMA CallEnds ==
  ASSUME CallsInv, NEW c \in AllCalls, NEW how \in {"answered", "failed"}, Out(clStage, c), Calls!Settle(c, how)
  PROVE  CallsInv'
<1>. USE DEF CallsInv
<1>1. clStage' = [clStage EXCEPT ![c] = how] /\ clSettled' = [clSettled EXCEPT ![c[2]] = Append(clSettled[c[2]], c)]
      /\ UNCHANGED <<clTail, clPrev, clIssued, clTick>> /\ c[2] \in Called
  BY CallIs DEF Calls!Settle, Calls!AddressOf
<1>2. \A d \in AllCalls : clStage'[d] = IF d = c THEN how ELSE clStage[d]
  BY <1>1 DEF CallsTyped
<1>3. \A n \in Called : clSettled'[n] = IF n = c[2] THEN Append(clSettled[n], c) ELSE clSettled[n]
  BY <1>1 DEF CallsTyped
<1>4. CallsTyped'
  <2>1. clSettled[c[2]] \in Seq(AllCalls)
    BY <1>1 DEF CallsTyped
  <2>2. Append(clSettled[c[2]], c) \in Seq(AllCalls)
    BY <2>1
  <2>. QED BY <1>1, <2>2 DEF CallsTyped
<1>5. TicksFresh'
  BY <1>1, <1>2, CallIs DEF TicksFresh, Out
<1>6. ASSUME NEW n \in Called PROVE NodeRight(n)'
  <2>1. clIssued[n] \in Seq(AllCalls) /\ clSettled[n] \in Seq(AllCalls) /\ Right(n, clIssued[n], clSettled[n], clTail[n], clPrev, clStage)
    BY DEF CallsTyped, NodeRight
  <2>2. CASE c[2] = n
    <3>1. Right(n, clIssued[n], Append(clSettled[n], c), clTail[n], clPrev, clStage')
      BY <1>2, <2>1, <2>2, RightSettles DEF Over
    <3>. QED BY <1>1, <1>3, <2>2, <3>1 DEF NodeRight
  <2>3. CASE c[2] # n
    <3>1. Right(n, clIssued[n], clSettled[n], clTail[n], clPrev, clStage')
      BY <1>2, <2>1, <2>3, RightAlike
    <3>. QED BY <1>1, <1>3, <2>3, <3>1 DEF NodeRight
  <2>. QED BY <2>2, <2>3
<1>. QED BY <1>4, <1>5, <1>6

LEMMA CallsStays == ASSUME Calls!TicksOK, CallsInv, [Calls!Next]_(Calls!vars) PROVE CallsInv'
<1>. USE DEF CallsInv
<1>1. ASSUME NEW n \in Called, Calls!PageCalls(n) PROVE CallsInv'
  <2>. DEFINE cs == {<<0, n>>}
  <2>1. cs \in SUBSET AllCalls /\ Calls!Chained(cs) /\ UNCHANGED <<clSettled, clTick>>
        /\ (\A c \in cs : clStage[c] = "unused") /\ (\A c, d \in cs : c[2] = d[2] => c = d)
    BY <1>1, CallIs DEF Calls!PageCalls
  <2>. HIDE DEF cs
  <2>2. /\ clPrev' \in [AllCalls -> AllCalls \union {CallNone}] /\ clTail' \in [Called -> AllCalls \union {CallNone}]
        /\ clIssued' \in [Called -> Seq(AllCalls)]
        /\ clStage' = [c \in AllCalls |-> IF c \in cs THEN "chained" ELSE clStage[c]]
        /\ \A m \in Called : NodeRight(m)'
    BY <2>1, CallsChained
  <2>3. CallsTyped'
    BY <2>1, <2>2 DEF CallsTyped
  <2>4. \A t \in Ticks, m \in Called : <<t, m>> \notin cs /\ <<t, m>> \in AllCalls
    BY CallIs DEF cs, Calls!TicksOK
  <2>5. TicksFresh'
    BY <2>1, <2>2, <2>4 DEF TicksFresh
  <2>. QED BY <2>2, <2>3, <2>5
<1>2. ASSUME NEW t \in Ticks, Calls!RegistryAnswers(t) PROVE CallsInv'
  <2>1. PICK targets \in SUBSET Called : Calls!Chained({<<t, n>> : n \in targets})
    BY <1>2 DEF Calls!RegistryAnswers
  <2>. DEFINE cs == {<<t, n>> : n \in targets}
  <2>2. clTick[t] = "registry" /\ clTick' = [clTick EXCEPT ![t] = "polling"] /\ UNCHANGED clSettled
    BY <1>2 DEF Calls!RegistryAnswers
  <2>3. cs \in SUBSET AllCalls /\ (\A c \in cs : clStage[c] = "unused") /\ (\A c, d \in cs : c[2] = d[2] => c = d)
    BY <2>2, CallIs DEF TicksFresh
  <2>4. \A u \in Ticks, m \in Called : u # t => <<u, m>> \notin cs /\ <<u, m>> \in AllCalls
    BY CallIs
  <2>5. Calls!Chained(cs)
    BY <2>1
  <2>. HIDE DEF cs
  <2>6. /\ clPrev' \in [AllCalls -> AllCalls \union {CallNone}] /\ clTail' \in [Called -> AllCalls \union {CallNone}]
        /\ clIssued' \in [Called -> Seq(AllCalls)]
        /\ clStage' = [c \in AllCalls |-> IF c \in cs THEN "chained" ELSE clStage[c]]
        /\ \A m \in Called : NodeRight(m)'
    BY <2>2, <2>3, <2>5, CallsChained
  <2>7. CallsTyped'
    BY <2>2, <2>6 DEF CallsTyped
  <2>8. TicksFresh'
    <3>1. \A u \in Ticks : clTick'[u] = IF u = t THEN "polling" ELSE clTick[u]
      BY <2>2 DEF CallsTyped
    <3>. QED BY <2>4, <2>6, <3>1 DEF TicksFresh
  <2>. QED BY <2>6, <2>7, <2>8
<1>3. ASSUME NEW c \in AllCalls, Calls!Exec(c) PROVE CallsInv'
  BY <1>3, CallGetsOn DEF Calls!Exec, Calls!MayRun, Calls!Ended, CallNone, Over
<1>4. ASSUME NEW c \in AllCalls, Calls!Headers(c) PROVE CallsInv'
  <2>1. CASE Calls!Settle(c, "failed")
    BY <1>4, <2>1, CallEnds DEF Calls!Headers, Out
  <2>2. CASE ~Calls!Settle(c, "failed")
    BY <1>4, <2>2, CallGetsOn DEF Calls!Headers
  <2>. QED BY <2>1, <2>2
<1>5. ASSUME NEW c \in AllCalls, Calls!Body(c) PROVE CallsInv'
  BY <1>5, CallEnds DEF Calls!Body, Out
<1>6. ASSUME NEW c \in AllCalls, Calls!Abort(c) PROVE CallsInv'
  BY <1>6, CallEnds DEF Calls!Abort, Calls!TimerRuns, Out
<1>7. ASSUME NEW c \in AllCalls, Calls!CleanUp(c) PROVE CallsInv'
  <2>1. Over(clStage, c) /\ clTail[c[2]] = c /\ clTail' = [clTail EXCEPT ![c[2]] = CallNone]
        /\ UNCHANGED <<clPrev, clStage, clIssued, clSettled, clTick>>
    BY <1>7 DEF Calls!CleanUp, Calls!Ended, Calls!AddressOf, Over, CallNone
  <2>2. CallsTyped' /\ TicksFresh'
    BY <2>1 DEF CallsTyped, TicksFresh
  <2>3. ASSUME NEW n \in Called PROVE NodeRight(n)'
    <3>1. clIssued[n] \in Seq(AllCalls) /\ clSettled[n] \in Seq(AllCalls) /\ Right(n, clIssued[n], clSettled[n], clTail[n], clPrev, clStage)
      BY DEF CallsTyped, NodeRight
    <3>2. CASE c[2] = n
      <4>1. Right(n, clIssued[n], clSettled[n], CallNone, clPrev, clStage)
        BY <2>1, <3>1, <3>2, RightCleans
      <4>2. clTail'[n] = CallNone
        BY <2>1, <3>2 DEF CallsTyped
      <4>. QED BY <2>1, <4>1, <4>2 DEF NodeRight
    <3>3. CASE c[2] # n
      <4>1. clTail'[n] = clTail[n]
        BY <2>1, <3>3 DEF CallsTyped
      <4>. QED BY <2>1, <3>1, <4>1 DEF NodeRight
    <3>. QED BY <3>2, <3>3
  <2>. QED BY <2>2, <2>3
<1>8. ASSUME UNCHANGED <<clTail, clPrev, clStage, clIssued, clSettled>>, clTick' \in [Ticks -> {"unused", "registry", "polling", "shown", "dropped"}],
             \A t \in Ticks : clTick'[t] \in {"unused", "registry"} => clTick[t] \in {"unused", "registry"}
      PROVE  CallsInv'
  BY <1>8 DEF CallsTyped, TicksFresh, NodeRight
<1>9. ASSUME NEW t \in Ticks, Calls!TickStarts(t) \/ Calls!RegistryFails(t) \/ Calls!HooksRun(t) PROVE CallsInv'
  <2>1. PICK s \in {"registry", "shown", "dropped"} : clTick' = [clTick EXCEPT ![t] = s] /\ (s = "registry" => clTick[t] = "unused")
    BY <1>9 DEF Calls!TickStarts, Calls!RegistryFails, Calls!HooksRun
  <2>2. UNCHANGED <<clTail, clPrev, clStage, clIssued, clSettled>>
    BY <1>9 DEF Calls!TickStarts, Calls!RegistryFails, Calls!HooksRun
  <2>. QED BY <1>8, <2>1, <2>2 DEF CallsTyped
<1>10. CASE Calls!Elapse \/ UNCHANGED Calls!vars
  BY <1>8, <1>10 DEF Calls!Elapse, Calls!vars, CallsTyped
<1>. QED BY <1>1, <1>2, <1>3, <1>4, <1>5, <1>6, <1>7, <1>9, <1>10 DEF Calls!Next, Calls!Runs, AllCalls

HIDE DEF clTail, clPrev, clStage, clIssued, clSettled, clTick
-----------------------------------------------------------------------------
(* The parts in MCPage: while one of them is chosen, Next or LiveNext is *)
(* that part's next-state relation.                                      *)

LEMMA PageBegins ==
  ASSUME Init
  PROVE  /\ component = "tags" => Tags!Init
         /\ component = "router" => Router!Init
         /\ component = "wizard" => Setup!Init
         /\ component = "detail" => Detail!Init
         /\ component = "list" => List!Init
         /\ component = "timecode" => Timecode!Init
         /\ component = "desk" => Desk!Init
         /\ component = "tables" => Fleet!Init
         /\ component = "backup" => Store!Init
         /\ component = "upload" => Upload!Init
BY DEF Init

\* A step that changes nothing changes nothing of a part.
LEMMA PageRests ==
  ASSUME UNCHANGED vars
  PROVE  /\ UNCHANGED Tags!vars /\ UNCHANGED Router!vars /\ UNCHANGED Setup!vars /\ UNCHANGED Detail!vars
         /\ UNCHANGED List!vars /\ UNCHANGED Timecode!vars /\ UNCHANGED Desk!vars /\ UNCHANGED Fleet!vars
         /\ UNCHANGED Store!vars /\ UNCHANGED Upload!vars
<1>1. UNCHANGED <<x1, x2, x3, x4, x5, x6, x7, x8, x9, x10, x11, x12, x13, x14, x15, x16>>
  BY DEF vars
<1>2. UNCHANGED Tags!vars /\ UNCHANGED Router!vars /\ UNCHANGED Setup!vars
  BY <1>1 DEF Tags!vars, Router!vars, Setup!vars, Setup!unit
<1>3. UNCHANGED Detail!vars /\ UNCHANGED List!vars /\ UNCHANGED Timecode!vars
  BY <1>1 DEF Detail!vars, List!vars, List!page, List!bulk, Timecode!vars
<1>4. UNCHANGED Desk!vars /\ UNCHANGED Fleet!vars /\ UNCHANGED Upload!vars
  BY <1>1 DEF Desk!vars, Fleet!vars, Upload!vars, Upload!unit
<1>5. UNCHANGED Store!vars
  BY <1>1 DEF Store!vars, Store!world, Store!result
<1>. QED BY <1>2, <1>3, <1>4, <1>5

LEMMA PageMovesOn ==
  ASSUME [Next]_vars
  PROVE  /\ component' = component
         /\ component = "tags" => [Tags!Next]_(Tags!vars)
         /\ component = "router" => [Router!Next]_(Router!vars)
         /\ component = "wizard" => [Setup!Next]_(Setup!vars)
         /\ component = "detail" => [Detail!Next]_(Detail!vars)
         /\ component = "list" => [List!Next]_(List!vars)
         /\ component = "timecode" => [Timecode!Next]_(Timecode!vars)
         /\ component = "desk" => [Desk!Next]_(Desk!vars)
         /\ component = "tables" => [Fleet!Next]_(Fleet!vars)
         /\ component = "backup" => [Store!Next]_(Store!vars)
         /\ component = "upload" => [Upload!Next]_(Upload!vars)
<1>1. CASE Next
  BY <1>1 DEF Next, TagsStep, RouterStep, SetupStep, DetailStep, ListStep, TimecodeStep, DeskStep,
              FleetStep, StoreStep, UploadStep
<1>2. CASE UNCHANGED vars
  <2>1. component' = component
    BY <1>2 DEF vars
  <2>. QED BY <1>2, <2>1, PageRests
<1>. QED BY <1>1, <1>2

LEMMA PollBegins ==
  ASSUME LiveInit
  PROVE  /\ component = "calls" => Calls!Init
         /\ component = "search" => Search!Init
         /\ component = "display" => Mirror!Init
         /\ component = "flash" => Flashing!Init
BY DEF LiveInit

LEMMA PollMovesOn ==
  ASSUME [LiveNext]_vars
  PROVE  /\ component' = component
         /\ component = "calls" => [Calls!Next]_(Calls!vars)
         /\ component = "rdm" => [Table!Next]_(Table!vars)
         /\ component = "search" => [Search!Next]_(Search!vars)
         /\ component = "display" => [Mirror!Next]_(Mirror!vars)
         /\ component = "flash" => [Flashing!Next]_(Flashing!vars)
<1>1. CASE LiveNext
  BY <1>1 DEF LiveNext, CallsStep, TableStep, SearchStep, SwitchStep, MirrorStep, ScanStep, FlashingStep
<1>2. CASE UNCHANGED vars
  <2>1. UNCHANGED <<component, x1, x2, x3, x4, x5, x6, x7, x8, x9, x10, x11, x12, x13, x14, x15, x16>>
    BY <1>2 DEF vars
  <2>2. UNCHANGED Calls!vars /\ UNCHANGED Table!vars /\ UNCHANGED Search!vars
    BY <2>1 DEF Calls!vars, Table!vars, Table!page, Table!node, Search!vars
  <2>3. UNCHANGED Mirror!vars /\ UNCHANGED Flashing!vars
    BY <2>1 DEF Mirror!vars, Flashing!vars, Flashing!form, Flashing!work
  <2>. QED BY <2>1, <2>2, <2>3
<1>. QED BY <1>1, <1>2

-----------------------------------------------------------------------------
(* The theorems *)

ShownInv == /\ component = "router" => RouterInv
            /\ component = "list" => TypingInv
            /\ component = "desk" => DeskInv
            /\ component = "tables" => FleetInv

\* The timer that leaving a page stops is that page's and runs (stopPollTimer), the search
\* field shows a text that was typed (renderNodes), with no frame lost or overtaken the
\* output is the desk's once all are served (the DMX test page), and the tables list the
\* conflicts among the answers, and no others: ShowsTruth, for any nodes, answers and channels.
THEOREM PageShowsTruth == Spec => []ShowsTruth
<1>. USE Parameters
<1>1. ASSUME Init PROVE ShownInv
  BY <1>1, PageBegins, RouterInit, TypingInit, DeskInit, FleetInit DEF ShownInv
<1>2. ASSUME ShownInv, [Next]_vars PROVE ShownInv'
  <2>1. component' = component
    BY <1>2, PageMovesOn
  <2>2. ASSUME component = "router" PROVE RouterInv'
    BY <1>2, <2>2, PageMovesOn, RouterStays DEF ShownInv
  <2>3. ASSUME component = "list" PROVE TypingInv'
    BY <1>2, <2>3, PageMovesOn, TypingStays DEF ShownInv
  <2>4. ASSUME component = "desk" PROVE DeskInv'
    BY <1>2, <2>4, PageMovesOn, DeskStays DEF ShownInv
  <2>5. ASSUME component = "tables" PROVE FleetInv'
    BY <1>2, <2>5, PageMovesOn, FleetStays DEF ShownInv
  <2>. QED BY <2>1, <2>2, <2>3, <2>4, <2>5 DEF ShownInv
<1>3. ShownInv => ShowsTruth
  <2>1. RouterInv => Router!TimerIsOwn
    BY DEF RouterInv
  <2>2. TypingInv => List!TypingKept
    BY DEF TypingInv
  <2>. QED BY <2>1, <2>2, DeskGives, FleetGives DEF ShownInv, ShowsTruth
<1>. QED BY <1>1, <1>2, <1>3, PTL DEF Spec

SavedInv == /\ component = "wizard" => WizardInv
            /\ component = "detail" => DetailInv
            /\ component = "timecode" => TimecodeInv
            /\ component = "list" => BulkInv

\* The wizard goes where the unit will be, saves and buttons reach the node whose page they
\* are on if that was let load (renderNodeDetail), a routing follows only settings the node
\* accepted (bindMasterMidiSave), and a bulk operation acts on selected nodes only and sets
\* no two ports to one address: SavesReachTheirNode, for any nodes, visits, forms, renders.
THEOREM SavesArrive == Spec => []SavesReachTheirNode
<1>. USE Parameters
<1>1. ASSUME Init PROVE SavedInv
  BY <1>1, PageBegins, WizardInit, DetailInit, TimecodeInit, BulkInit DEF SavedInv
<1>2. ASSUME SavedInv, [Next]_vars PROVE SavedInv'
  <2>1. component' = component
    BY <1>2, PageMovesOn
  <2>2. ASSUME component = "wizard" PROVE WizardInv'
    BY <1>2, <2>2, PageMovesOn, WizardStays DEF SavedInv
  <2>3. ASSUME component = "detail" PROVE DetailInv'
    BY <1>2, <2>3, PageMovesOn, DetailStays DEF SavedInv
  <2>4. ASSUME component = "timecode" PROVE TimecodeInv'
    BY <1>2, <2>4, PageMovesOn, TimecodeStays DEF SavedInv
  <2>5. ASSUME component = "list" PROVE BulkInv'
    BY <1>2, <2>5, PageMovesOn, BulkStays DEF SavedInv
  <2>. QED BY <2>1, <2>2, <2>3, <2>4, <2>5 DEF SavedInv
<1>3. SavedInv => SavesReachTheirNode
  <2>1. BulkInv => List!BulkRight
    BY DEF BulkInv
  <2>. QED BY <2>1, WizardGives, DetailGives, TimecodeGives DEF SavedInv, SavesReachTheirNode
<1>. QED BY <1>1, <1>2, <1>3, PTL DEF Spec

KeptInv == /\ component = "tags" => TagInv
           /\ component = "backup" => BackInv
           /\ component = "upload" => UploadInv

\* A label a browser had under the earlier version is there, or on the unit, unless its request
\* failed (loadServerTags), a restore writes a node's own settings and counts each node once
\* and truly, and an upload is called done only of an image that is or will be installed:
\* FleetKept, for any browsers, labels, nodes, edits and moves.
THEOREM FleetStaysKept == Spec => []FleetKept
<1>. USE Parameters
<1>1. ASSUME Init PROVE KeptInv
  BY <1>1, PageBegins, TagInit, BackInit, UploadInit DEF KeptInv
<1>2. ASSUME KeptInv, [Next]_vars PROVE KeptInv'
  <2>1. component' = component
    BY <1>2, PageMovesOn
  <2>2. ASSUME component = "tags" PROVE TagInv'
    BY <1>2, <2>2, PageMovesOn, TagStays DEF KeptInv
  <2>3. ASSUME component = "backup" PROVE BackInv'
    BY <1>2, <2>3, PageMovesOn, BackStays DEF KeptInv
  <2>4. ASSUME component = "upload" PROVE UploadInv'
    BY <1>2, <2>4, PageMovesOn, UploadStays DEF KeptInv
  <2>. QED BY <2>1, <2>2, <2>3, <2>4 DEF KeptInv
<1>3. KeptInv => FleetKept
  <2>1. TagInv => Tags!LegacyKept
    BY DEF TagInv
  <2>2. UploadInv => Upload!ToldIsInstalled
    BY DEF UploadInv
  <2>. QED BY <2>1, <2>2, BackGives DEF KeptInv, FleetKept
<1>. QED BY <1>1, <1>2, <1>3, PTL DEF Spec

\* A page paints over another only when the user has opened it, or in one of the late paints
\* the code has: OwnPagePainted, whatever loads, timers and answers come in whatever order.
THEOREM PagesPaintOwn == Spec => OwnPagePainted
<1>. USE Parameters
<1>. DEFINE Own == component = "router" => Router!PaintsOwnPage
<1>1. ASSUME Next PROVE Own
  <2>1. component = "router" => Router!Next
    BY <1>1 DEF Next, TagsStep, RouterStep, SetupStep, DetailStep, ListStep, TimecodeStep, DeskStep,
                FleetStep, StoreStep, UploadStep
  <2>. QED BY <2>1, RouterPaints
<1>2. [Next]_vars => [Own]_vars
  <2>. HIDE DEF Own
  <2>. QED BY <1>1
<1>. QED BY <1>2, PTL DEF Spec, OwnPagePainted

PollInv == /\ component = "calls" => CallsInv
           /\ component = "search" => SearchInv
           /\ component = "display" => MirrorInv
           /\ component = "flash" => FlashInv

\* A node has one request of the page at a time, and they are settled in the order they were
\* made (nodeApi); a fixture's command goes to the port it was found on and a display's save to
\* the node whose page is open, for a user who does not change them meanwhile; and a tick means
\* the node runs its own firmware: ReachTheirNode, for any nodes, ticks, ports and answers.
THEOREM CommandsArrive == LiveSpec => []ReachTheirNode
<1>. USE Parameters
<1>1. ASSUME LiveInit PROVE PollInv
  BY <1>1, PollBegins, CallsInit, SearchInit, MirrorInit, FlashInit DEF PollInv
<1>2. ASSUME PollInv, [LiveNext]_vars PROVE PollInv'
  <2>1. component' = component
    BY <1>2, PollMovesOn
  <2>2. ASSUME component = "calls" PROVE CallsInv'
    BY <1>2, <2>2, PollMovesOn, CallsStays DEF PollInv
  <2>3. ASSUME component = "search" PROVE SearchInv'
    BY <1>2, <2>3, PollMovesOn, SearchStays DEF PollInv
  <2>4. ASSUME component = "display" PROVE MirrorInv'
    BY <1>2, <2>4, PollMovesOn, MirrorStays DEF PollInv
  <2>5. ASSUME component = "flash" PROVE FlashInv'
    BY <1>2, <2>5, PollMovesOn, FlashStays DEF PollInv
  <2>. QED BY <2>1, <2>2, <2>3, <2>4, <2>5 DEF PollInv
<1>3. PollInv => ReachTheirNode
  <2>1. FlashInv => Flashing!TickTrue
    BY DEF FlashInv
  <2>. QED BY <2>1, CallsGives, SearchGives, MirrorGives DEF PollInv, ReachTheirNode
<1>. QED BY <1>1, <1>2, <1>3, PTL DEF LiveSpec

\* Neither a poll of the fixtures nor the answer about one of them rebuilds the RDM table
\* under an input that has the focus (rdmDualPaint): EditKept, for any fixtures, versions of the
\* table and number of loads under way.  Its exceptions are the user's opening and closing a row, a
\* Port A that has left RDM mode, and the second answer to a tab that was opened twice.
THEOREM EditsAreKept == LiveSpec => EditKept
<1>. DEFINE Edits == component = "rdm" => Table!EditKept
<1>1. [LiveNext]_vars => [Edits]_vars
  BY PollMovesOn, TableKeepsEdit
<1>. QED BY <1>1, PTL DEF LiveSpec, EditKept
=============================================================================
