---------------------------- MODULE MCDiscovery ----------------------------
(***************************************************************************)
(* Instances of Discovery for TLC.  A run of MCSpec checks two of them,    *)
(* chosen at the start: one with room for both devices and short periods,  *)
(* to see every order of events around the table, and one with a longer    *)
(* clock, to see each period end.  That both are right is proved below.    *)
(***************************************************************************)
EXTENDS Discovery
CONSTANTS a, b
VARIABLE instance

OlderAndForeign == [m \in Mac |-> IF m = a THEN "older" ELSE "foreign"]
AllModern  == [m \in Mac |-> "v74"]
OneGarbled == [m \in Mac |-> IF m = a THEN "garbled" ELSE "v74"]

Timed == INSTANCE Discovery WITH
  Kind <- OlderAndForeign, SlotCap <- 1, RetryPeriod <- 2, ReprobePeriod <- 5, ClockSize <- 8

ASSUME TimedAssumption == {PollPeriod, OfflineAfter, StatusPeriod} \subseteq 1 .. 7

MCInit == \/ instance = "table" /\ Init
          \/ instance = "timed" /\ Timed!Init
MCNext == \/ instance = "table" /\ Next /\ UNCHANGED instance
          \/ instance = "timed" /\ Timed!Next /\ UNCHANGED instance
MCSpec == MCInit /\ [][MCNext]_<<vars, instance>>

(* The properties of Discovery, of the instance that was chosen. *)
RowsStay        == instance = "table" => DevicesDistinct /\ IdentityKept
MovesAreNoticed == instance = "timed" => Timed!MovedIsReprobed
SilenceIsSeen   == instance = "timed" => Timed!OnlineIsRecent
(* Those that do not hold, see the README. *)
VerdictsStay    == instance = "table" => VerdictKept
OfflineIsSeen   == instance = "table" => OnlineIsRecent
-----------------------------------------------------------------------------
(* Proofs: the theorems of Discovery hold of both instances *)

\* The constants of the second instance are as Discovery assumes.
LEMMA TimedAssumptions ==
  /\ Timed!IdAssumption /\ Timed!KindAssumption
  /\ Timed!SizeAssumption /\ Timed!TimerAssumption
BY IdAssumption, SizeAssumption, TimedAssumption DEF OlderAndForeign,
   Timed!IdAssumption, Timed!KindAssumption, Timed!SizeAssumption, Timed!TimerAssumption

TableInv == instance = "table" => TypeOK /\ RowInv
TimedInv == instance = "timed" => Timed!TypeOK /\ Timed!TimeInv

\* A step is one of the instance that was chosen.
LEMMA TableStep == TableInv /\ [MCNext]_<<vars, instance>> => TableInv'
<1>. SUFFICES ASSUME TableInv, [MCNext]_<<vars, instance>>, instance' = "table" PROVE TableInv'
  BY DEF TableInv
<1>1. instance = "table" /\ [Next]_vars
  BY DEF MCNext, vars
<1>2. TypeOK /\ RowInv
  BY <1>1 DEF TableInv
<1>. QED BY <1>1, <1>2, TypeStep, RowStep DEF TableInv

\* A device has one entry there and in the image, and what it told is in both.
THEOREM RowsHold == MCSpec => []RowsStay
<1>1. MCInit => TableInv
  BY TypeInit, RowInit DEF MCInit, TableInv
<1>2. TableInv => RowsStay
  BY DEF TableInv, RowInv, RowsStay
<1>. QED BY <1>1, <1>2, TableStep, PTL DEF MCSpec

LEMMA TimedStart == MCInit => TimedInv
<1>. SUFFICES ASSUME Timed!Init PROVE Timed!TypeOK /\ Timed!TimeInv
  BY DEF MCInit, TimedInv
<1>. QED BY TimedAssumptions, Timed!TypeInit, Timed!TimeInit

LEMMA TimedStep == ASSUME ~Wraps, TimedInv, [MCNext]_<<vars, instance>> PROVE TimedInv'
<1>. SUFFICES ASSUME instance' = "timed" PROVE TimedInv'
  BY DEF TimedInv
<1>1. instance = "timed" /\ [Timed!Next]_Timed!vars
  BY DEF MCNext, vars, Timed!vars
<1>2. Timed!TypeOK /\ Timed!TimeInv
  BY <1>1 DEF TimedInv
<1>3. Timed!TypeOK'
  BY <1>1, <1>2, TimedAssumptions, Timed!TypeStep
<1>4. Timed!TimeInv'
  BY <1>1, <1>2, <1>3, TimedAssumptions, Timed!TimeStep
<1>. QED BY <1>3, <1>4 DEF TimedInv

LEMMA TimedHolds == ASSUME TimedInv PROVE MovesAreNoticed /\ SilenceIsSeen
BY TimedAssumptions, Timed!TimeMeans DEF TimedInv, MovesAreNoticed, SilenceIsSeen

\* While millis() does not come round, a device that moved is probed again within the
\* retry period of its probes.
THEOREM MovesAreFollowed == ASSUME ~Wraps PROVE MCSpec => []MovesAreNoticed
BY TimedStart, TimedStep, TimedHolds, PTL DEF MCSpec

\* Nor is a device that fell silent shown online for longer than the offline period, one
\* status period and one pass of loop().
THEOREM SilenceShows == ASSUME ~Wraps PROVE MCSpec => []SilenceIsSeen
BY TimedStart, TimedStep, TimedHolds, PTL DEF MCSpec
============================================================================
