------------------------------ MODULE Eeprom ------------------------------
(***************************************************************************)
(* The 4 KB of EEPROM that five parts of masterETH share, each at addresses*)
(* of its own choice: the settings (src/store.cpp), the leases             *)
(* (src/dhcpServer.cpp), the node cache (src/nodeRegistry.cpp), the tags   *)
(* (src/nodeTags.cpp) and the onboarding byte.  The addresses are the real *)
(* ones, the number of records is cut down.  For every field the model     *)
(* keeps whether it still holds what its owner wrote there.                *)
(***************************************************************************)
EXTENDS Integers, FiniteSets

CONSTANTS Rec,      \* the records of a table that are used, of its 32
          MaxBoots  \* bound on the number of reboots

Records == Rec \subseteq 0 .. 31 /\ 0 \in Rec /\ MaxBoots \in Nat

Table == {"leases", "nodes", "tags"}

\* Mutant: the records of the lease table begin a byte late.
LayoutByteLate == [leases |-> [head |-> 512,  headSize |-> 5, first |-> 521,  size |-> 11],
                   nodes  |-> [head |-> 872,  headSize |-> 1, first |-> 873,  size |-> 94],
                   tags   |-> [head |-> 1024, headSize |-> 5, first |-> 1032, size |-> 32]]

\* Where a table's header and first record are, and the size of both.
Layout == [leases |-> [head |-> 512,  headSize |-> 5, first |-> 520,  size |-> 11],
           nodes  |-> [head |-> 872,  headSize |-> 1, first |-> 873,  size |-> 94],
           tags   |-> [head |-> 1024, headSize |-> 5, first |-> 1032, size |-> 32]]

\* Mutant: the address before it was moved.
OnboardAtLeases == 512

OnboardFlagAddr == 4095
SettingsEnd     == 511   \* what is set aside; the struct is shorter

Field == [owner : Table, part : {"head"}, rec : {0}]
           \cup [owner : Table, part : {"used", "body"}, rec : Rec]
           \cup {[owner |-> "settings", part |-> "all", rec |-> 0],
                 [owner |-> "onboarding", part |-> "all", rec |-> 0]}

From(f) == IF f.owner = "settings" THEN 0
           ELSE IF f.owner = "onboarding" THEN OnboardFlagAddr
           ELSE LET l == Layout[f.owner] IN
                IF f.part = "head" THEN l.head
                ELSE l.first + f.rec * l.size + (IF f.part = "body" THEN 1 ELSE 0)

To(f) == IF f.owner = "settings" THEN SettingsEnd
         ELSE IF f.part = "head" THEN From(f) + Layout[f.owner].headSize - 1
         ELSE IF f.part = "body" THEN From(f) + Layout[f.owner].size - 2
         ELSE From(f)

Overlap(f, g) == From(f) <= To(g) /\ From(g) <= To(f)

VARIABLES
  inUse,   \* table -> records in use in RAM
  good,    \* ... those of them whose content is what was once put there
  kept,    \* table -> records in use when it was last saved
  intact,  \* fields that hold what their owner last wrote
  done,    \* onboardingDone
  boots

vars == <<inUse, good, kept, intact, done, boots>>
-----------------------------------------------------------------------------
(* Saving *)

\* A save writes the header, every used flag, and the records in use.
Written(t, used) ==
  { f \in Field : f.owner = t /\ (f.part \in {"head", "used"} \/ f.rec \in used) }

Hit(w) == { f \in Field : \E g \in w : g.owner # f.owner /\ Overlap(f, g) }

\* A flag of one byte may happen to be what is there already.
SurelyHit(w) == Hit({ g \in w : g.part # "used" })

Write(w) == \E torn \in { SurelyHit(w), Hit(w) } : intact' = (intact \ torn) \cup w

\* A table changes in RAM and is saved.
Update(t, used) == /\ inUse' = [inUse EXCEPT ![t] = used]
                   /\ kept' = [kept EXCEPT ![t] = used]
                   /\ Write(Written(t, used))

\* Mutant: a record is taken one place too far.
AddNext(t, r) ==
  /\ r \notin inUse[t]
  /\ Update(t, inUse[t] \cup {r + 1})
  /\ good' = [good EXCEPT ![t] = @ \cup {r + 1}]
  /\ UNCHANGED <<done, boots>>

Add(t, r) ==        \* a lease bound, a node identified, a tag set
  /\ r \notin inUse[t] /\ \A q \in Rec : q < r => q \in inUse[t]
  /\ Update(t, inUse[t] \cup {r})
  /\ good' = [good EXCEPT ![t] = @ \cup {r}]
  /\ UNCHANGED <<done, boots>>

Remove(t, r) ==     \* a lease given back, a tag cleared; nodes stay
  /\ t # "nodes" /\ r \in inUse[t]
  /\ Update(t, inUse[t] \ {r})
  /\ good' = [good EXCEPT ![t] = @ \ {r}]
  /\ UNCHANGED <<done, boots>>

SaveSettings ==     \* eepromSave
  /\ Write({ f \in Field : f.owner = "settings" })
  /\ UNCHANGED <<inUse, good, kept, done, boots>>

OnboardingMarkDone ==
  /\ Write({ f \in Field : f.owner = "onboarding" })
  /\ done' = TRUE
  /\ UNCHANGED <<inUse, good, kept, boots>>
-----------------------------------------------------------------------------
(* Loading *)

F(t, p, r) == [owner |-> t, part |-> p, rec |-> r]

Readable(t) == F(t, "head", 0) \in intact
Flagged(t)  == { r \in kept[t] : F(t, "used", r) \in intact }

\* A flag that another part wrote over may still read as 1.
Reboot ==
  /\ boots < MaxBoots /\ boots' = boots + 1
  /\ \E stray \in SUBSET { p \in Table \X Rec : F(p[1], "used", p[2]) \notin intact } :
        inUse' = [t \in Table |-> IF ~Readable(t) THEN {}
                                  ELSE Flagged(t) \cup { r \in Rec : <<t, r>> \in stray }]
  /\ good' = [t \in Table |-> IF ~Readable(t) THEN {}
                              ELSE { r \in Flagged(t) : F(t, "body", r) \in intact }]
  /\ done' = (done /\ F("onboarding", "all", 0) \in intact)
  /\ UNCHANGED <<kept, intact>>

Init ==
  /\ inUse = [t \in Table |-> {}] /\ good = inUse /\ kept = inUse
  /\ intact = { f \in Field : f.owner = "settings" }
  /\ done = FALSE /\ boots = 0

Next == \/ \E t \in Table, r \in Rec : Add(t, r) \/ Remove(t, r)
        \/ SaveSettings \/ OnboardingMarkDone \/ Reboot

Spec == Init /\ [][Next]_vars
-----------------------------------------------------------------------------
(* Properties *)

TypeOK == /\ {inUse, good, kept} \subseteq [Table -> SUBSET Rec]
          /\ intact \subseteq Field
          /\ done \in BOOLEAN /\ boots \in 0 .. MaxBoots

\* Nothing that another part saves damages the leases or the wizard's flag: a
\* reboot finds every lease, and the wizard finished if it was.
LeasesKept == boots' # boots => /\ inUse'["leases"] = inUse["leases"]
                                /\ good'["leases"] = good["leases"]
WizardKept == done => done'
LeasesComeBack  == [][LeasesKept]_vars
WizardStaysDone == [][WizardKept]_vars

\* The same of the tags: they are "server-side persisted" and "follow the
\* deployment".
TagsComeBack == [][ boots' # boots => good'["tags"] = good["tags"] ]_vars
===========================================================================
