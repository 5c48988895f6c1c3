-------------------------------- MODULE Wizard --------------------------------
(* The first-boot wizard of the webpage (data/index.html, embedded in ui.cpp)
   with the two handlers of the unit it drives (api.cpp): a network change is
   saved with "defer", the last step has the unit restart, and the page follows
   it to the address it will have.  The user does not wait for answers. *)
EXTENDS Naturals, Sequences

CONSTANTS
  Ips,        \* static addresses the user may enter; the first the unit has
  First,      \* the address the unit answers at before the wizard
  MaxSaves    \* network forms the user sends

VARIABLES
  onboardIndex,      \* index into ONBOARD_STEPS; past the end nothing is drawn
  body,              \* what #onboardBody shows
  form,              \* the configuration the form was filled with
  onboardPendingIp, onboardChangedIp,
  target,            \* where the page goes after the restart: an address, "here" to
                     \* wait for the unit where it is, or "closed" without a restart
  sent,              \* requests on their way to the unit, the oldest first
  saves,             \* network forms sent so far
  saved,             \* the unit's stored configuration
  pendingReboot,     \* onboardingPendingReboot
  done,              \* onboardingDone
  restarting,        \* the unit is to restart
  upset              \* an answer was lost, or the page was loaded anew mid-way

unit == <<saved, pendingReboot, done, restarting>>
vars == <<onboardIndex, body, form, onboardPendingIp, onboardChangedIp, target, sent, saves, unit, upset>>

Configs == {[dhcp |-> TRUE, ip |-> First]} \union {[dhcp |-> FALSE, ip |-> i] : i \in Ips}
FactoryConfig == [dhcp |-> TRUE, ip |-> First]
Steps == <<"welcome", "network", "leds", "done">>
LastIndex == Len(Steps) + MaxSaves + 1

FirstOK == First \in Ips /\ {"none", "here", "closed"} \intersect Ips = {}

Welcome == /\ onboardIndex = 0 /\ body = "welcome"
           /\ onboardPendingIp = "none" /\ onboardChangedIp = FALSE
Clickable(bodies) == body \in bodies /\ target # "closed"

Init ==
  /\ Welcome /\ form = FactoryConfig /\ target = "none" /\ sent = <<>> /\ saves = 0
  /\ saved = FactoryConfig /\ pendingReboot = FALSE /\ done = FALSE /\ restarting = FALSE
  /\ upset = FALSE

-----------------------------------------------------------------------------
(* The page.  GoTo is onboardRender at the step i. *)

Get == [kind |-> "get"]
Finish == [kind |-> "done"]
Post(c) == [kind |-> "post", config |-> c]

GoTo(i, before) ==
  /\ i < LastIndex
  /\ onboardIndex' = i
  /\ body' = IF i >= Len(Steps) THEN body
             ELSE IF Steps[i + 1] = "network" THEN "loading" ELSE Steps[i + 1]
  /\ sent' = IF i < Len(Steps) /\ Steps[i + 1] = "network" THEN Append(before, Get) ELSE before

Advance ==       \* Get started, Skip, Got it
  /\ Clickable({"welcome", "form", "leds"})
  /\ GoTo(onboardIndex + 1, sent)
  /\ UNCHANGED <<form, onboardPendingIp, onboardChangedIp, target, saves, unit, upset>>

Back ==
  /\ Clickable({"leds", "done"}) /\ onboardIndex > 0
  /\ GoTo(onboardIndex - 1, sent)
  /\ UNCHANGED <<form, onboardPendingIp, onboardChangedIp, target, saves, unit, upset>>

\* Save & continue; a form nobody changed is not sent.
SaveForm(c) ==
  /\ Clickable({"form"})
  /\ IF c = form
       THEN GoTo(onboardIndex + 1, sent) /\ UNCHANGED saves
       ELSE /\ saves < MaxSaves /\ saves' = saves + 1
            /\ sent' = Append(sent, Post(c))
            /\ UNCHANGED <<onboardIndex, body>>
  /\ UNCHANGED <<form, onboardPendingIp, onboardChangedIp, target, unit, upset>>

Finalize ==      \* Skip setup, Finish
  /\ Clickable({"welcome", "done"}) /\ Finish \notin {sent[i] : i \in DOMAIN sent}
  /\ sent' = Append(sent, Finish)
  /\ UNCHANGED <<onboardIndex, body, form, onboardPendingIp, onboardChangedIp, target, saves, unit, upset>>

\* The page is loaded anew and the unit still says firstBoot.
ReloadPage ==
  /\ ~done /\ target = "none" /\ body # "welcome" /\ sent = <<>>
  /\ onboardIndex' = 0 /\ body' = "welcome"
  /\ onboardPendingIp' = "none" /\ onboardChangedIp' = FALSE
  /\ upset' = TRUE
  /\ UNCHANGED <<form, target, sent, saves, unit>>

-----------------------------------------------------------------------------
(* The unit serves the oldest request; the answer reaches the page, or not. *)

Answers(kind) == sent # <<>> /\ Head(sent).kind = kind /\ ~restarting

GetNetwork ==
  /\ Answers("get")
  /\ \/ body' = "form" /\ form' = saved
     \/ body' = "error" /\ UNCHANGED form
  /\ sent' = Tail(sent)
  /\ UNCHANGED <<onboardIndex, onboardPendingIp, onboardChangedIp, target, saves, unit, upset>>

\* apiPostNetwork: stored, and the restart put off while the wizard is not done;
\* afterwards the answer speaks of a restart and none is asked for.
Stores(c) ==
  /\ saved' = c
  /\ pendingReboot' = (pendingReboot \/ ~done)
  /\ UNCHANGED <<done, restarting>>

PostNetwork ==
  /\ Answers("post")
  /\ Stores(Head(sent).config)
  /\ onboardChangedIp' = (onboardChangedIp \/ ~done)
  /\ onboardPendingIp' = IF done THEN onboardPendingIp
                         ELSE IF saved'.dhcp THEN "none" ELSE saved'.ip
  /\ GoTo(onboardIndex + 1, Tail(sent))
  /\ UNCHANGED <<form, target, saves, upset>>

PostNetworkAnswerLost ==
  /\ Answers("post")
  /\ Stores(Head(sent).config)
  /\ sent' = Tail(sent) /\ upset' = TRUE
  /\ UNCHANGED <<onboardIndex, body, form, onboardPendingIp, onboardChangedIp, target, saves>>

\* Mutant: the last step forgets the restart that was put off.
OnboardingDoneStays ==
  done' = TRUE /\ pendingReboot' = FALSE /\ UNCHANGED <<saved, restarting>>

\* apiPostOnboardingDone, and the page's part of onboardFinalize.
OnboardingDone ==
  /\ done' = TRUE /\ restarting' = pendingReboot /\ pendingReboot' = FALSE
  /\ UNCHANGED saved

PostDone ==
  /\ Answers("done")
  /\ OnboardingDone
  /\ IF pendingReboot
       THEN body' = "rebooting" /\ target' = IF onboardPendingIp # "none" THEN onboardPendingIp ELSE "here"
       ELSE target' = "closed" /\ UNCHANGED body
  /\ sent' = Tail(sent)
  /\ UNCHANGED <<onboardIndex, form, onboardPendingIp, onboardChangedIp, saves, upset>>

PostDoneAnswerLost ==
  /\ Answers("done")
  /\ OnboardingDone
  /\ sent' = Tail(sent) /\ upset' = TRUE
  /\ UNCHANGED <<onboardIndex, body, form, onboardPendingIp, onboardChangedIp, target, saves>>

\* A request that finds no unit: a message, and the form stays as it is.
RequestLost ==
  /\ sent # <<>>
  /\ body' = IF Head(sent).kind = "get" THEN "error" ELSE body
  /\ sent' = Tail(sent)
  /\ UNCHANGED <<onboardIndex, form, onboardPendingIp, onboardChangedIp, target, saves, unit, upset>>

Next ==
  \/ Advance \/ Back \/ Finalize \/ ReloadPage
  \/ \E c \in Configs : SaveForm(c)
  \/ GetNetwork \/ PostNetwork \/ PostNetworkAnswerLost \/ PostDone \/ PostDoneAnswerLost \/ RequestLost

Spec == Init /\ [][Next]_vars

-----------------------------------------------------------------------------
TypeOK ==
  /\ onboardIndex \in 0..LastIndex
  /\ body \in {"welcome", "loading", "error", "form", "leds", "done", "rebooting"}
  /\ form \in Configs /\ saved \in Configs /\ saves \in 0..MaxSaves
  /\ onboardPendingIp \in Ips \union {"none"} /\ onboardChangedIp \in BOOLEAN
  /\ target \in Ips \union {"none", "here", "closed"}
  /\ pendingReboot \in BOOLEAN /\ done \in BOOLEAN /\ restarting \in BOOLEAN /\ upset \in BOOLEAN

\* The page knows where the unit will be: through steps back, second thoughts
\* and answers that come after the user has moved on, the address it follows at
\* the end is the one stored last, and a wizard that closes without a restart
\* leaves nothing stored that is not applied.  (Only a lost answer or a reload
\* of the page in the middle makes it forget.)
FollowsUnit ==
  ~upset =>
    /\ target \in Ips \union {"here"} => target = IF saved.dhcp THEN "here" ELSE saved.ip
    /\ done /\ saved # FactoryConfig => restarting
=============================================================================
