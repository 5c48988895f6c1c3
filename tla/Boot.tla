------------------------------- MODULE Boot -------------------------------
(***************************************************************************)
(* The life of one unit from power-on to power-off: setup() and loop() of  *)
(* src/main.cpp with the settings record and its two counters of           *)
(* src/store.cpp, update mode, the link flag, the network settings and the *)
(* first-boot wizard of src/api.cpp.  Of the settings only a version       *)
(* number is kept: 0 for the defaults, and a new one each time the         *)
(* operator saves.                                                         *)
(***************************************************************************)
EXTENDS Integers, TLAPS

CONSTANTS
  ResetTop,   \* resetCounter at which eepromLoad gives up on the settings
  WdtTop,     \* wdtCounter at which it does
  WdtUpdate,  \* wdtCounter up to which setup() starts the application
  MaxSaves,   \* bound on the number of times the operator saves settings
  MaxEvents,  \* bound on watchdog resets, power cycles and requested restarts
  MaxLinks    \* bound on changes of the link

ASSUME TopAssumption   == {ResetTop, WdtTop} \subseteq Nat \ {0} /\ WdtUpdate \in Nat
ASSUME BoundAssumption == {MaxSaves, MaxEvents, MaxLinks} \subseteq Nat

VARIABLES
  flash,    \* the settings record in EEPROM
  valid,    \* its version field is this firmware's
  ram,      \* deviceSettings
  running,  \* the settings this boot's network came up with
  pc,       \* where setup() and loop() are
  reason,   \* resetInfo.reason of this boot, or of the next while pc = "boot"
  old,      \* millis() > 6000
  reboot,   \* doReboot
  link,     \* the cable
  flag,     \* ethernetLinkStatus
  marked,   \* the onboarding byte in EEPROM
  done,     \* onboardingDone
  pending,  \* onboardingPendingReboot
  told,     \* history: who saved last was told that a restart is needed
  asked,    \* history: firmware/prepare was called since update mode was last entered
  wasUpdate,\* history: the boot before was in update mode
  young,    \* history: boots in a row, this one included, that did not last
  dogs,     \* history: watchdog resets since a boot that began otherwise lasted
  events, links

settings == <<flash, valid, ram, running>>
wizard   == <<marked, done, pending, told>>
history  == <<asked, wasUpdate, young, dogs>>
vars == <<flash, valid, ram, running, pc, reason, old, reboot, link, flag, marked, done,
          pending, told, asked, wasUpdate, young, dogs, events, links>>

Default == [config |-> 0, update |-> FALSE, resets |-> 0, wdts |-> 0]
Up      == pc \in {"run", "update"}

Store(s)  == ram' = s /\ flash' = s              \* eepromSave
-----------------------------------------------------------------------------
(* setup() *)

\* Mutant: the defaults are not written over a foreign record.
RestoreForgotten == UNCHANGED <<flash, valid>>

\* A record of another version is overwritten, and the unit restarts.
Restore == flash' = Default /\ valid' = TRUE

\* Mutants: the reset counter decides too early, the other not at all.
GivesUpByResets(s) == s.resets >= ResetTop
GivesUpEarly(s) == s.resets + 1 >= ResetTop \/ s.wdts >= WdtTop

GivesUp(s) == s.resets >= ResetTop \/ s.wdts >= WdtTop

Counted(s) == IF reason = "watchdog" THEN [s EXCEPT !.wdts = @ + 1]
                                     ELSE [s EXCEPT !.resets = @ + 1]

LoadForeign ==                                   \* eepromLoad: version mismatch
  /\ pc = "boot" /\ ~valid
  /\ Restore
  /\ ram' = Default
  /\ reason' = "software"
  /\ UNCHANGED <<running, pc, old, reboot, link, flag, wizard, history, events, links>>

Load ==                                          \* eepromLoad ... eepromSave
  /\ pc = "boot" /\ valid
  /\ Store(Counted(IF GivesUp(flash) THEN Default ELSE flash))
  /\ done' = marked
  /\ young' = IF young < ResetTop + 1 THEN young + 1 ELSE young
  /\ dogs'  = IF reason = "watchdog" /\ dogs < WdtTop + 1 THEN dogs + 1 ELSE dogs
  /\ pc' = "link"
  /\ UNCHANGED <<valid, running, reason, old, reboot, link, flag, marked, pending, told,
                 asked, wasUpdate, events, links>>

LinkUp ==                                        \* ethernetStart
  /\ pc = "link" /\ link
  /\ flag' = TRUE
  /\ running' = ram.config
  /\ pc' = "start"
  /\ UNCHANGED <<flash, valid, ram, reason, old, reboot, link, wizard, history, events, links>>

Starts(s) == ~s.update /\ s.wdts <= WdtUpdate

\* Mutant: the flag is cleared in RAM and not saved.
UpdateUnsaved == ram' = [ram EXCEPT !.update = FALSE] /\ UNCHANGED flash

UpdateOnce == Store([ram EXCEPT !.update = FALSE])

Start ==
  /\ pc = "start"
  /\ \/ Starts(ram)  /\ pc' = "run" /\ UNCHANGED <<flash, ram, asked>>
     \/ ~Starts(ram) /\ pc' = "update" /\ UpdateOnce /\ asked' = FALSE
  /\ UNCHANGED <<valid, running, reason, old, reboot, link, flag, wizard,
                 wasUpdate, young, dogs, events, links>>
-----------------------------------------------------------------------------
(* loop(), and the requests it serves: POST /api/network, /api/reboot,     *)
(* /api/firmware/prepare and /api/onboarding-done, POST /upload            *)

Lasted ==                                        \* six seconds after power-on
  /\ Up /\ old /\ ram.resets # 0
  /\ Store([ram EXCEPT !.resets = 0, !.wdts = 0])
  /\ young' = 0 /\ dogs' = 0
  /\ UNCHANGED <<valid, running, pc, reason, old, reboot, link, flag, wizard,
                 asked, wasUpdate, events, links>>

\* networkConfigApply; one that is refused changes nothing.
Applied(s) == [s EXCEPT !.config = @ + 1]

SaveNetwork(defer) ==
  /\ Up /\ ram.config < MaxSaves
  /\ Store(Applied(ram))
  /\ IF defer /\ ~done THEN pending' = TRUE /\ told' = FALSE
                       ELSE told' = TRUE /\ UNCHANGED pending
  /\ UNCHANGED <<valid, running, pc, reason, old, reboot, link, flag, marked, done,
                 history, events, links>>

\* Mutant: the pending restart is cleared before it is looked at.
FinishForgetful == pending' = FALSE /\ UNCHANGED <<reboot, told>>

\* The pending restart is taken over into doReboot, and the answer says so.
Finish == /\ pending' = FALSE
          /\ reboot' = (reboot \/ pending)
          /\ told' = (told \/ pending)

OnboardingDone ==
  /\ Up /\ ~(done /\ ~pending)                   \* else a no-op
  /\ marked' = TRUE /\ done' = TRUE
  /\ Finish
  /\ UNCHANGED <<settings, pc, reason, old, link, flag, history, events, links>>

Counts == events < MaxEvents /\ events' = events + 1

Prepare ==
  /\ Up /\ Counts
  /\ Store([ram EXCEPT !.update = TRUE])
  /\ reboot' = TRUE /\ asked' = TRUE
  /\ UNCHANGED <<valid, running, pc, reason, old, link, flag, wizard,
                 wasUpdate, young, dogs, links>>

RequestReboot ==                                 \* POST /api/reboot, /upload
  /\ Up /\ Counts
  /\ reboot' = TRUE
  /\ UNCHANGED <<settings, pc, reason, old, link, flag, wizard, history, links>>

\* What a restart for reason r does to RAM; setup() begins anew.
Again(r) ==
  /\ reason' = r
  /\ pc' = "boot"
  /\ ram' = Default /\ running' = 0
  /\ old' = FALSE /\ reboot' = FALSE /\ flag' = FALSE
  /\ done' = FALSE /\ pending' = FALSE /\ told' = FALSE
  /\ wasUpdate' = (pc = "update")
  /\ UNCHANGED <<flash, valid, link, marked, asked, young, dogs, links>>

Restart    == Up /\ reboot /\ Again("software") /\ UNCHANGED events
PowerCycle == pc # "boot" /\ Again("power") /\ Counts        \* or the reset button
Watchdog   == pc # "boot" /\ Again("watchdog") /\ Counts     \* or an exception

Ages == ~old /\ pc # "boot" /\ old' = TRUE
        /\ UNCHANGED <<settings, pc, reason, reboot, link, flag, wizard, history, events, links>>

Cable == links < MaxLinks /\ links' = links + 1 /\ link' = ~link
         /\ UNCHANGED <<settings, pc, reason, old, reboot, flag, wizard, history, events>>

Init ==
  /\ flash = Default /\ valid \in BOOLEAN /\ ram = Default /\ running = 0
  /\ pc = "boot" /\ reason = "power" /\ old = FALSE /\ reboot = FALSE
  /\ link \in BOOLEAN /\ flag = FALSE
  /\ marked = FALSE /\ done = FALSE /\ pending = FALSE /\ told = FALSE
  /\ asked = FALSE /\ wasUpdate = FALSE
  /\ young = 0 /\ dogs = 0 /\ events = 0 /\ links = 0

Setup == LoadForeign \/ Load \/ LinkUp \/ Start
Next  == \/ Setup \/ Lasted \/ OnboardingDone \/ Prepare \/ RequestReboot
         \/ \E defer \in BOOLEAN : SaveNetwork(defer)
         \/ Restart \/ PowerCycle \/ Watchdog \/ Ages \/ Cable

Spec     == Init /\ [][Next]_vars
FairSpec == Spec /\ WF_vars(Setup) /\ WF_vars(Lasted) /\ WF_vars(Ages) /\ WF_vars(Restart)
-----------------------------------------------------------------------------
(* Properties *)

Record == [config : 0 .. MaxSaves, update : BOOLEAN, resets : 0 .. ResetTop, wdts : 0 .. WdtTop]

TypeOK ==
  /\ {flash, ram} \subseteq Record
  /\ {valid, old, reboot, link, flag, marked, done, pending, told, asked, wasUpdate}
       \subseteq BOOLEAN
  /\ running \in 0 .. MaxSaves
  /\ pc \in {"boot", "link", "start", "run", "update"}
  /\ reason \in {"power", "software", "watchdog"}
  /\ young \in 0 .. ResetTop + 1 /\ dogs \in 0 .. WdtTop + 1
  /\ events \in 0 .. MaxEvents /\ links \in 0 .. MaxLinks

\* The operator's settings are given up only after a run of boots none of
\* which lasted, or of as many watchdog resets; nothing else ever undoes a save.
SettingsKept ==
  [][ flash'.config # flash.config =>
        \/ flash'.config = flash.config + 1
        \/ young >= ResetTop \/ dogs >= WdtTop ]_vars

\* A new setting is never forgotten.  One whose restart the wizard deferred keeps
\* it pending until the restart is under way, whatever was saved before and
\* however often the wizard ends; of any other the unit only says that a restart
\* is needed (sendOK(true)), and whoever saved it must ask for one.
SavedIsApplied ==
  Up /\ running # ram.config => pending \/ reboot \/ told

\* Does not hold: the unit sees to the restart itself.
RestartsItself == Up /\ running # ram.config => pending \/ reboot

\* Update mode asked for by firmware/prepare ends with the boot it was asked
\* for: "so a failed or abandoned upload can't leave the flag set and trap
\* every later boot in this mode".
EntersUpdate == pc = "start" /\ pc' = "update"
UpdateByFlagOnce == [][ EntersUpdate /\ ram.update => asked ]_vars

\* "Update mode is for this boot only", however the unit came to it: a restart
\* that is not the watchdog's ends it.
UpdateThisBootOnly == [][ EntersUpdate /\ wasUpdate /\ reason # "watchdog" => asked ]_vars

\* "Factory-reset is USB-only": no legal use of the unit undoes a save.
FactoryResetUsbOnly == [][ flash'.config >= flash.config ]_vars

\* The unit comes up: with a cable that stays in, setup() ends, whatever the
\* flash held and however often it was interrupted.
ComesUp == <>[]link => <>[]Up

\* The flag that /api/status and the self-test show follows the cable.
LinkShown == []<>(Up => flag = link)
-----------------------------------------------------------------------------
(* Proofs: for any limits of the two counters, and any number of saves, power *)
(* cuts, watchdog resets and requested restarts.                             *)

(* The inductive invariant *)

Counter == [config : Nat, update : BOOLEAN, resets : Nat, wdts : Nat]

\* From eepromLoad on, RAM and flash agree; before it, no save is lost with RAM.
RecordKept == /\ flash \in Counter /\ ram \in Counter
              /\ pc # "boot" => ram = flash /\ valid
              /\ ~valid => flash = Default

\* The counters in flash count boots that did not last, and watchdog resets:
\* never more of either than there were.
CountsTrue == /\ young \in Nat /\ dogs \in Nat
              /\ flash.resets <= young \/ young > ResetTop
              /\ flash.wdts <= dogs \/ dogs > WdtTop

\* The update flag is set only from a request to the boot it was meant for.
FlagAsked == flash.update => asked

\* The settings in force differ from the saved ones only while a restart is
\* pending, under way or left to who saved them.
InForce == /\ pc = "start" => running = ram.config
           /\ Up => running = ram.config \/ pending \/ reboot \/ told

BootInv == /\ pc \in {"boot", "link", "start", "run", "update"}
           /\ RecordKept /\ CountsTrue /\ FlagAsked /\ InForce

LEMMA InvInit == Init => BootInv
BY DEF Init, BootInv, RecordKept, CountsTrue, FlagAsked, InForce, Counter, Default, Up

\* The record eepromLoad begins a boot with.
LEMMA LoadedRecord ==
  ASSUME BootInv, Load
  PROVE  /\ ram' = flash' /\ ram' \in Counter
         /\ flash'.update => flash.update
         /\ flash'.resets <= young' \/ young' > ResetTop
         /\ flash'.wdts <= dogs' \/ dogs' > WdtTop
         /\ young' \in Nat /\ dogs' \in Nat
<1>. DEFINE from == IF GivesUp(flash) THEN Default ELSE flash
<1>1. from \in Counter /\ (from = Default \/ from = flash)
  BY DEF BootInv, RecordKept, Counter, Default
<1>2. /\ from.resets <= young \/ young > ResetTop
      /\ from.wdts <= dogs \/ dogs > WdtTop
      /\ from.update => flash.update
  BY <1>1 DEF BootInv, CountsTrue, Default
<1>3. ram' = Counted(from) /\ flash' = Counted(from)
  BY DEF Load, Store
<1>4. /\ Counted(from) \in Counter
      /\ Counted(from).update = from.update
      /\ Counted(from).resets = IF reason = "watchdog" THEN from.resets ELSE from.resets + 1
      /\ Counted(from).wdts = IF reason = "watchdog" THEN from.wdts + 1 ELSE from.wdts
  BY <1>1 DEF Counted, Counter
<1>5. from.resets \in Nat /\ from.wdts \in Nat /\ young \in Nat /\ dogs \in Nat
  BY <1>1 DEF Counter, BootInv, CountsTrue
<1>6. /\ young' = IF young < ResetTop + 1 THEN young + 1 ELSE young
      /\ dogs' = IF reason = "watchdog" /\ dogs < WdtTop + 1 THEN dogs + 1 ELSE dogs
  BY DEF Load
<1>7. ResetTop \in Nat /\ WdtTop \in Nat
  BY TopAssumption
<1>8. flash'.resets <= young' \/ young' > ResetTop
  BY <1>2, <1>3, <1>4, <1>5, <1>6, <1>7
<1>9. flash'.wdts <= dogs' \/ dogs' > WdtTop
  BY <1>2, <1>3, <1>4, <1>5, <1>6, <1>7
<1>10. young' \in Nat /\ dogs' \in Nat
  BY <1>5, <1>6, <1>7
<1>. QED BY <1>2, <1>3, <1>4, <1>8, <1>9, <1>10

\* setup() keeps the invariant.
LEMMA SetupKeeps ==
  ASSUME BootInv, Setup
  PROVE  BootInv'
<1>1. CASE LoadForeign
  BY <1>1 DEF LoadForeign, Restore, wizard, history, BootInv, RecordKept, CountsTrue,
              FlagAsked, InForce, Counter, Default, Up
<1>2. CASE Load
  <2>1. /\ pc' = "link" /\ asked' = asked /\ valid' = valid /\ valid
        /\ flash'.update => flash.update
    BY <1>2, LoadedRecord DEF Load
  <2>2. RecordKept' /\ CountsTrue'
    BY <1>2, <2>1, LoadedRecord DEF RecordKept, CountsTrue
  <2>3. FlagAsked' /\ InForce'
    BY <2>1 DEF BootInv, FlagAsked, InForce, Up
  <2>. QED BY <2>1, <2>2, <2>3 DEF BootInv
<1>3. CASE LinkUp
  BY <1>3 DEF LinkUp, wizard, history, BootInv, RecordKept, CountsTrue, FlagAsked, InForce, Up
<1>4. CASE Start
  <2>1. /\ pc = "start" /\ pc' \in {"run", "update"}
        /\ UNCHANGED <<valid, running, young, dogs>>
    BY <1>4 DEF Start
  <2>2. \/ UNCHANGED <<flash, ram, asked>>
        \/ ram' = [ram EXCEPT !.update = FALSE] /\ flash' = ram'
    BY <1>4 DEF Start, UpdateOnce, Store
  <2>3. ram = flash /\ ram \in Counter /\ valid
    BY <2>1 DEF BootInv, RecordKept
  <2>4. /\ ram' \in Counter /\ flash' = ram'
        /\ ram'.config = ram.config
        /\ flash'.resets = flash.resets /\ flash'.wdts = flash.wdts
    BY <2>2, <2>3 DEF Counter
  <2>5. flash'.update => flash.update /\ asked' = asked
    BY <2>2, <2>3 DEF Counter
  <2>. QED BY <2>1, <2>3, <2>4, <2>5 DEF BootInv, RecordKept, CountsTrue, FlagAsked, InForce, Up
<1>. QED BY <1>1, <1>2, <1>3, <1>4 DEF Setup
\* loop() and its requests keep it.
LEMMA LoopKeeps ==
  ASSUME BootInv, Up,
         \/ Lasted \/ OnboardingDone \/ Prepare \/ RequestReboot
         \/ \E defer \in BOOLEAN : SaveNetwork(defer)
  PROVE  BootInv'
<1>0. ram = flash /\ ram \in Counter /\ valid
  BY DEF BootInv, RecordKept, Up
<1>1. CASE Lasted
  <2>1. ram' = [ram EXCEPT !.resets = 0, !.wdts = 0] /\ flash' = ram'
    BY <1>1 DEF Lasted, Store
  <2>2. /\ ram' \in Counter /\ ram'.config = ram.config /\ flash'.update = flash.update
        /\ flash'.resets = 0 /\ flash'.wdts = 0
    BY <1>0, <2>1 DEF Counter
  <2>3. /\ young' = 0 /\ dogs' = 0
        /\ UNCHANGED <<valid, running, pc, reboot, pending, told, asked>>
    BY <1>1 DEF Lasted, wizard
  <2>. QED BY <1>0, <2>1, <2>2, <2>3 DEF BootInv, RecordKept, CountsTrue, FlagAsked, InForce, Up
<1>2. CASE OnboardingDone
  <2>1. /\ pending => reboot'
        /\ reboot => reboot'
        /\ told => told'
        /\ UNCHANGED <<flash, valid, ram, running, pc, asked, young, dogs>>
    BY <1>2 DEF OnboardingDone, Finish, settings, history
  <2>2. RecordKept' /\ CountsTrue' /\ FlagAsked'
    BY <2>1 DEF BootInv, RecordKept, CountsTrue, FlagAsked
  <2>3. InForce'
    <3>1. pending \/ reboot \/ told => pending' \/ reboot' \/ told'
      BY <2>1
    <3>2. (running = ram.config)' <=> running = ram.config
      BY <2>1
    <3>3. pc' = pc /\ InForce
      BY <2>1 DEF BootInv
    <3>. QED BY <3>1, <3>2, <3>3 DEF InForce, Up
  <2>. QED BY <2>1, <2>2, <2>3 DEF BootInv
<1>3. CASE Prepare
  <2>1. ram' = [ram EXCEPT !.update = TRUE] /\ flash' = ram' /\ reboot' = TRUE /\ asked' = TRUE
    BY <1>3 DEF Prepare, Store
  <2>2. /\ ram' \in Counter /\ ram'.config = ram.config
        /\ flash'.resets = flash.resets /\ flash'.wdts = flash.wdts
    BY <1>0, <2>1 DEF Counter
  <2>3. UNCHANGED <<valid, running, pc, pending, told, young, dogs>>
    BY <1>3 DEF Prepare, wizard
  <2>. QED BY <1>0, <2>1, <2>2, <2>3 DEF BootInv, RecordKept, CountsTrue, FlagAsked, InForce, Up
<1>4. CASE RequestReboot
  <2>1. reboot' = TRUE /\ UNCHANGED <<flash, valid, ram, running, pc, pending, told, asked, young, dogs>>
    BY <1>4 DEF RequestReboot, settings, wizard, history
  <2>. QED BY <2>1 DEF BootInv, RecordKept, CountsTrue, FlagAsked, InForce, Up
<1>5. ASSUME NEW defer \in BOOLEAN, SaveNetwork(defer) PROVE BootInv'
  <2>1. ram' = [ram EXCEPT !.config = ram.config + 1] /\ flash' = ram'
    BY <1>5 DEF SaveNetwork, Store, Applied
  <2>2. /\ ram' \in Counter /\ flash'.update = flash.update
        /\ flash'.resets = flash.resets /\ flash'.wdts = flash.wdts
    BY <1>0, <2>1 DEF Counter
  <2>3. /\ pending' \/ told'
        /\ UNCHANGED <<valid, running, pc, reboot, asked, young, dogs>>
    BY <1>5 DEF SaveNetwork, history
  <2>. QED BY <1>0, <2>1, <2>2, <2>3 DEF BootInv, RecordKept, CountsTrue, FlagAsked, InForce, Up
<1>. QED BY <1>1, <1>2, <1>3, <1>4, <1>5

\* A restart begins with what is in flash.
LEMMA AgainKeeps ==
  ASSUME BootInv, NEW r, Again(r)
  PROVE  BootInv'
<1>1. pc' = "boot" /\ ram' = Default /\ UNCHANGED <<flash, valid, asked, young, dogs>>
  BY DEF Again
<1>2. Default \in Counter
  BY DEF Default, Counter
<1>. QED BY <1>1, <1>2 DEF BootInv, RecordKept, CountsTrue, FlagAsked, InForce, Up

LEMMA NextCases ==
  ASSUME [Next]_vars
  PROVE  \/ Setup
         \/ /\ Up
            /\ \/ Lasted \/ OnboardingDone \/ Prepare \/ RequestReboot
               \/ \E defer \in BOOLEAN : SaveNetwork(defer)
         \/ \E r : Again(r)
         \/ UNCHANGED <<flash, valid, ram, running, pc, reboot, pending, told, asked, young, dogs>>
<1>1. Lasted \/ OnboardingDone \/ Prepare \/ RequestReboot \/ (\E defer \in BOOLEAN : SaveNetwork(defer))
        => Up
  BY DEF Lasted, OnboardingDone, Prepare, RequestReboot, SaveNetwork
<1>2. Restart \/ PowerCycle \/ Watchdog => \E r : Again(r)
  BY DEF Restart, PowerCycle, Watchdog
<1>3. Ages \/ Cable \/ UNCHANGED vars
        => UNCHANGED <<flash, valid, ram, running, pc, reboot, pending, told, asked, young, dogs>>
  BY DEF Ages, Cable, settings, wizard, history, vars
<1>. QED BY <1>1, <1>2, <1>3 DEF Next

LEMMA InvStep == BootInv /\ [Next]_vars => BootInv'
<1>. SUFFICES ASSUME BootInv, [Next]_vars PROVE BootInv'
  OBVIOUS
<1>1. CASE UNCHANGED <<flash, valid, ram, running, pc, reboot, pending, told, asked, young, dogs>>
  BY <1>1 DEF BootInv, RecordKept, CountsTrue, FlagAsked, InForce, Up
<1>. QED BY <1>1, NextCases, SetupKeeps, LoopKeeps, AgainKeeps

\* What flash, RAM, the counters and the flags have to do with each other at
\* every point of setup() and loop(), the inductive invariant of the rest.
THEOREM BootInvariant == Spec => []BootInv
BY InvInit, InvStep, PTL DEF Spec
-----------------------------------------------------------------------------
(* What follows from it *)

\* A saved setting is in force, or its restart is pending or under way, or who saved it
\* last did not defer it and was told to restart the unit: a restart that is deferred is
\* never forgotten (apiPostNetwork, apiPostOnboardingDone), however many saves and boots.
THEOREM SavedGetsApplied == Spec => []SavedIsApplied
<1>1. BootInv => SavedIsApplied
  BY DEF BootInv, InForce, SavedIsApplied
<1>. QED BY <1>1, BootInvariant, PTL

\* The flag that setup() reads when it enters update mode by it stems from a
\* call of firmware/prepare since the last time: entering clears it in flash.
THEOREM UpdateIsAsked == Spec => UpdateByFlagOnce
<1>. DEFINE Asked == EntersUpdate /\ ram.update => asked
<1>1. BootInv /\ [Next]_vars => [Asked]_vars
  BY DEF BootInv, RecordKept, FlagAsked, EntersUpdate
<1>. QED BY <1>1, BootInvariant, PTL DEF Spec, UpdateByFlagOnce

\* Only a save changes the settings in flash, unless as many boots in a row
\* did not last, or as many watchdog resets came, as the limits say: neither
\* counter can run ahead of what it counts, wherever the power is cut.
THEOREM SettingsStay == Spec => SettingsKept
<1>. DEFINE Kept == flash'.config # flash.config =>
                      \/ flash'.config = flash.config + 1
                      \/ young >= ResetTop \/ dogs >= WdtTop
<1>0. ASSUME BootInv, UNCHANGED flash PROVE Kept
  BY <1>0
<1>1. ASSUME BootInv, Load PROVE Kept
  <2>1. flash \in Counter /\ young \in Nat /\ dogs \in Nat
    BY <1>1 DEF BootInv, RecordKept, CountsTrue
  <2>2. CASE GivesUp(flash)
    BY <1>1, <2>1, <2>2, TopAssumption DEF BootInv, CountsTrue, GivesUp, Counter
  <2>3. CASE ~GivesUp(flash)
    <3>1. flash' = Counted(flash)
      BY <1>1, <2>3 DEF Load, Store
    <3>. QED BY <2>1, <3>1 DEF Counted, Counter
  <2>. QED BY <2>2, <2>3
<1>2. ASSUME BootInv, LoadForeign PROVE Kept
  BY <1>2 DEF LoadForeign, Restore, BootInv, RecordKept
<1>3. ASSUME BootInv, LinkUp \/ Start PROVE Kept
  <2>1. flash = ram /\ ram \in Counter
    BY <1>3 DEF BootInv, RecordKept, LinkUp, Start
  <2>2. flash' = flash \/ flash' = [ram EXCEPT !.update = FALSE]
    BY <1>3 DEF LinkUp, Start, UpdateOnce, Store
  <2>. QED BY <2>1, <2>2 DEF Counter
<1>4. ASSUME BootInv, Up, \/ Lasted \/ OnboardingDone \/ Prepare \/ RequestReboot
                          \/ \E defer \in BOOLEAN : SaveNetwork(defer)
      PROVE  Kept
  <2>1. flash = ram /\ ram \in Counter
    BY <1>4 DEF BootInv, RecordKept, Up
  <2>2. \/ flash' = flash
        \/ flash' = [ram EXCEPT !.resets = 0, !.wdts = 0]
        \/ flash' = [ram EXCEPT !.update = TRUE]
        \/ flash' = [ram EXCEPT !.config = ram.config + 1]
    BY <1>4 DEF Lasted, OnboardingDone, Prepare, RequestReboot, SaveNetwork, Store, Applied,
                settings
  <2>. QED BY <2>1, <2>2 DEF Counter
<1>5. ASSUME NEW r, Again(r) PROVE UNCHANGED flash
  BY <1>5 DEF Again
<1>6. BootInv /\ [Next]_vars => [Kept]_vars
  BY <1>0, <1>1, <1>2, <1>3, <1>4, <1>5, NextCases DEF Setup
<1>. QED BY <1>6, BootInvariant, PTL DEF Spec, SettingsKept
===========================================================================
