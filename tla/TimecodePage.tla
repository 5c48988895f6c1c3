----------------------------- MODULE TimecodePage -----------------------------
(* masterMIDI nodes in the webpage (data/index.html, embedded in ui.cpp): the
   Timecode page with one card and poll per node and one routing editor, and the
   node's own page with the same form.  Saving posts the timecode settings and
   then, if they were accepted, the routing, which is read from the form that the
   document has by then. *)
EXTENDS Naturals, FiniteSets

CONSTANTS
  Nodes,     \* masterMIDI nodes, all online
  MaxReads,  \* reads of the settings under way at once, per node and page
  MaxSaves,  \* saves in one run
  MaxPlaces  \* changes of page

VARIABLES
  place,     \* the open page: "timecode", "away", or the node whose page it is
  moves,     \* changes of page so far
  editing,   \* tcEditing
  reads,     \* reads under way, per node and kind
  form,      \* the routing form in the document: whose, and its fields
  saves,     \* the saves: for which node, how far, what was posted and read
  node,      \* per node the Art-Net destination and the routing it has stored
  card,      \* per node what its card shows
  busy,      \* per node a status request is under way
  crossed    \* the form was replaced or left while a save was under way

vars == <<place, moves, editing, reads, form, saves, node, card, busy, crossed>>

None == "none"
Kinds == {"editor", "page", "old"}  \* "old": asked by a page that is gone
Art == {"everyone", "bad"}          \* "bad" is refused by the node
Routes == {"off", "on"}
NoForm == [of |-> None, art |-> None, route |-> None]
Unused == [of |-> None, step |-> "unused", art |-> None, from |-> None]

Sizes == {"timecode", "away", None} \intersect Nodes = {}

Init ==
  /\ place = "away" /\ moves = 0 /\ editing = None
  /\ reads = [n \in Nodes, k \in Kinds |-> 0]
  /\ form = NoForm /\ saves = [s \in 1..MaxSaves |-> Unused]
  /\ node = [n \in Nodes |-> [art |-> "everyone", route |-> "off"]]
  /\ card = [n \in Nodes |-> "reading"] /\ busy = [n \in Nodes |-> FALSE]
  /\ crossed = FALSE

Saving == \E s \in DOMAIN saves : saves[s].step \in {"timecode", "routing"}
\* The document's form becomes f; a save in between will not read its own form.
Replaced(f) == form' = f /\ crossed' = (crossed \/ (Saving /\ form # NoForm))

-----------------------------------------------------------------------------
(* Pages *)

\* What a page asked is answered into the void, or fails into the next page.
Goes(to) ==
  /\ place # to /\ moves < MaxPlaces
  /\ place' = to /\ moves' = moves + 1
  /\ Replaced(NoForm)
  /\ editing' = IF to = "timecode" THEN None ELSE editing
  /\ reads' = [r \in DOMAIN reads |->
       CASE r[2] = "editor" -> 0
         [] r[2] = "page" -> IF r[1] = to THEN 1 ELSE 0
         [] r[2] = "old" -> IF r[1] = place /\ reads[r[1], "page"] > 0 THEN 1 ELSE reads[r]]
  /\ UNCHANGED <<saves, node, card, busy>>

\* tcOpenEditor: a second press closes the editor.
OpenEditor(n) ==
  /\ place = "timecode" /\ card[n] = "live" /\ editing # n /\ reads[n, "editor"] < MaxReads
  /\ editing' = n /\ reads' = [reads EXCEPT ![<<n, "editor">>] = @ + 1]
  /\ Replaced(NoForm)
  /\ UNCHANGED <<place, moves, saves, node, card, busy>>
CloseEditor(n) ==
  /\ place = "timecode" /\ card[n] = "live" /\ editing = n
  /\ editing' = None /\ Replaced(NoForm)
  /\ UNCHANGED <<place, moves, reads, saves, node, card, busy>>

\* "if (currentPage !== 'timecode' || tcEditing !== n.mac) return"; on the node's
\* page "if (... || detailNode !== n) return".
Wanted(n, k) ==
  \/ k = "editor" /\ place = "timecode" /\ editing = n
  \/ k = "page" /\ place = n
Filled(n) == [of |-> n, art |-> node[n].art, route |-> node[n].route]
SettingsRead(n, k) ==
  /\ reads[n, k] > 0 /\ reads' = [reads EXCEPT ![<<n, k>>] = @ - 1]
  /\ IF Wanted(n, k) THEN Replaced(Filled(n)) ELSE UNCHANGED <<form, crossed>>
  /\ UNCHANGED <<place, moves, editing, saves, node, card, busy>>

\* The error is shown without asking whether the answer is still wanted: over
\* another node's form in the editor, and over the next node's page.
ReadFails(n, k) ==
  /\ reads[n, k] > 0 /\ reads' = [reads EXCEPT ![<<n, k>>] = @ - 1]
  /\ IF k = "old" /\ place \notin Nodes THEN UNCHANGED <<form, crossed>> ELSE Replaced(NoForm)
  /\ UNCHANGED <<place, moves, editing, saves, node, card, busy>>

-----------------------------------------------------------------------------
(* The form *)

Edit(a, r) ==
  /\ form # NoForm /\ form' = [form EXCEPT !.art = a, !.route = r] /\ form' # form
  /\ UNCHANGED <<place, moves, editing, reads, saves, node, card, busy, crossed>>

\* bindMasterMidiSave: the timecode settings go first.
Save(s) ==
  /\ form # NoForm /\ saves[s] = Unused
  /\ saves' = [saves EXCEPT ![s] = [of |-> form.of, step |-> "timecode", art |-> form.art, from |-> None]]
  /\ UNCHANGED <<place, moves, editing, reads, form, node, card, busy, crossed>>

Accepts(art) == art # "bad"
TimecodeSaved(s) ==
  /\ saves[s].step = "timecode" /\ Accepts(saves[s].art)
  /\ node' = [node EXCEPT ![saves[s].of].art = saves[s].art]
  /\ saves' = [saves EXCEPT ![s].step = "routing"]
  /\ UNCHANGED <<place, moves, editing, reads, form, card, busy, crossed>>

\* Mutant: a refusal of the timecode settings does not end the save.
RefusedGoesOn(s) ==
  /\ saves[s].step = "timecode"
  /\ saves' = [saves EXCEPT ![s].step = "routing"]
  /\ UNCHANGED <<place, moves, editing, reads, form, node, card, busy, crossed>>

Refused(s) ==
  /\ saves[s].step = "timecode"
  /\ saves' = [saves EXCEPT ![s].step = "over"]
  /\ UNCHANGED <<place, moves, editing, reads, form, node, card, busy, crossed>>

\* The routing is read from the form now; without a form reading throws.
RoutingSaved(s) ==
  /\ saves[s].step = "routing" /\ form # NoForm
  /\ node' = [node EXCEPT ![saves[s].of].route = form.route]
  /\ saves' = [saves EXCEPT ![s].step = "over", ![s].from = form.of]
  /\ UNCHANGED <<place, moves, editing, reads, form, card, busy, crossed>>
RoutingFails(s) ==
  /\ saves[s].step = "routing"
  /\ saves' = [saves EXCEPT ![s].step = "over"]
  /\ UNCHANGED <<place, moves, editing, reads, form, node, card, busy, crossed>>

-----------------------------------------------------------------------------
(* tcPoll: one status request per node at a time, while the page is open *)

Poll(n) ==
  /\ place = "timecode" /\ ~busy[n] /\ busy' = [busy EXCEPT ![n] = TRUE]
  /\ UNCHANGED <<place, moves, editing, reads, form, saves, node, card, crossed>>
Polled(n, shown) ==
  /\ busy[n] /\ busy' = [busy EXCEPT ![n] = FALSE]
  /\ card' = [card EXCEPT ![n] = shown]
  /\ UNCHANGED <<place, moves, editing, reads, form, saves, node, crossed>>

Next ==
  \/ \E to \in Nodes \union {"timecode", "away"} : Goes(to)
  \/ \E n \in Nodes : OpenEditor(n) \/ CloseEditor(n) \/ Poll(n)
  \/ \E n \in Nodes, shown \in {"live", "failed"} : Polled(n, shown)
  \/ \E n \in Nodes, k \in Kinds : SettingsRead(n, k) \/ ReadFails(n, k)
  \/ \E a \in Art, r \in Routes : Edit(a, r)
  \/ \E s \in DOMAIN saves :
       Save(s) \/ TimecodeSaved(s) \/ Refused(s) \/ RoutingSaved(s) \/ RoutingFails(s)

Spec == Init /\ [][Next]_vars

-----------------------------------------------------------------------------
(* "the routing must not switch Art-Net out on toward an address that didn't save"
   (index.html, above bindMasterMidiSave). *)
NoBadTarget == \A s \in DOMAIN saves : saves[s].from # None => Accepts(saves[s].art)

(* The routing a save writes to a node is the one its own form showed. *)
OwnRouting == \A s \in DOMAIN saves : saves[s].from \in {None, saves[s].of}

(* It holds for a user who leaves the form alone until the save has ended. *)
RoutingRight == NoBadTarget /\ (crossed \/ OwnRouting)
=============================================================================
