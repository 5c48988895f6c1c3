------------------------------ MODULE FleetFlash ------------------------------
(* The fleet's firmware update on the Firmware page (data/index.html, embedded in
   ui.cpp).  Each press of the button is a loop of its own over the nodes checked
   then; the product, the file and the boxes can be changed while it runs, and a
   change enables the button again. *)
EXTENDS Naturals, FiniteSets

CONSTANTS
  Quads, Midis,   \* online nodes of the two products
  MaxRuns,        \* presses of "Flash selected nodes"
  MaxChanges      \* changes of product, file or boxes

VARIABLES
  product,     \* the select #fleetProduct
  file,        \* whose firmware fleetFileBuf holds
  boxes,       \* addresses checked in the list of the product
  button,      \* #fleetFlashBtn is enabled
  left,        \* per run the addresses still to be flashed
  now,         \* per run the push under way: the node and the file that was sent
  runs, changes,
  said,        \* what the page shows behind each node
  installed    \* the firmware each node took

form == <<product, file, boxes, button>>
work == <<left, now, runs, said, installed>>
vars == <<form, work, changes>>

Nodes == Quads \union Midis
Products == {"quadETH", "masterMIDI"}
Of(p) == IF p = "quadETH" THEN Quads ELSE Midis
ProductOf(n) == IF n \in Quads THEN "quadETH" ELSE "masterMIDI"
Runs == 1..MaxRuns
NoPush == [node |-> 0, file |-> "none"]
Disjoint == Quads \intersect Midis = {} /\ 0 \notin Quads \union Midis

\* renderFirmware: quadETH first, or the product that is there.
First == IF Quads = {} /\ Midis # {} THEN "masterMIDI" ELSE "quadETH"

Init ==
  /\ product = First /\ file = "none" /\ boxes = Of(First) /\ button = FALSE
  /\ left = [r \in Runs |-> {}] /\ now = [r \in Runs |-> NoPush]
  /\ runs = 0 /\ changes = 0
  /\ said = [n \in Nodes |-> "none"] /\ installed = [n \in Nodes |-> "none"]

-----------------------------------------------------------------------------
(* The form.  refreshFleetBtn looks at the file and the boxes only. *)

refreshFleetBtn == button' = (file' # "none" /\ boxes' # {})
Changed == changes < MaxChanges /\ changes' = changes + 1 /\ UNCHANGED <<left, now, runs, installed>>

ChooseFile(p) ==
  /\ Changed /\ file' = p /\ UNCHANGED <<product, boxes, said>>
  /\ refreshFleetBtn

\* The list is built anew with every box checked; the file stays.
ChooseProduct(p) ==
  /\ Changed /\ p # product /\ product' = p /\ boxes' = Of(p) /\ UNCHANGED file
  /\ said' = [n \in Nodes |-> "none"]
  /\ refreshFleetBtn

Toggle(n) ==
  /\ Changed /\ n \in Of(product)
  /\ boxes' = (boxes \ {n}) \union ({n} \ boxes)
  /\ UNCHANGED <<product, file, said>>
  /\ refreshFleetBtn

-----------------------------------------------------------------------------
(* A run. *)

Flash ==
  /\ button /\ file # "none" /\ boxes # {} /\ runs < MaxRuns
  /\ runs' = runs + 1
  /\ left' = [left EXCEPT ![runs'] = boxes]
  /\ button' = FALSE
  /\ UNCHANGED <<product, file, boxes, now, said, installed, changes>>

\* What is said of a node is written in the list if the node is in it now.
Say(n, what) == said' = [said EXCEPT ![n] = IF n \in Of(product) THEN what ELSE @]

\* The file of now is sent, not the one of when the button was pressed.
Push(r) ==
  /\ now[r] = NoPush
  /\ \E n \in left[r] :
       /\ left' = [left EXCEPT ![r] = @ \ {n}]
       /\ now' = [now EXCEPT ![r] = [node |-> n, file |-> file]]
       /\ Say(n, "uploading")
  /\ UNCHANGED <<form, runs, installed, changes>>

\* The node takes a file that is meant for it and answers 200; anything else is an
\* error: refused, unreachable, or nothing said for 300 s.
Took(n, f) == f = ProductOf(n)

\* Mutant: any answer is taken for success.
ResolvedAny(n, f) == TRUE

\* pushFirmware resolves.
Resolved(n, f) == Took(n, f)

\* The last push ends the run, which enables the button.
ButtonAfter(r) == button' = (button \/ left[r] = {})

Pushed(r) ==
  LET n == now[r].node IN
  /\ now[r] # NoPush /\ Resolved(n, now[r].file)
  /\ Say(n, "ok")
  /\ installed' = IF Took(n, now[r].file) THEN [installed EXCEPT ![n] = now[r].file] ELSE installed
  /\ now' = [now EXCEPT ![r] = NoPush]
  /\ ButtonAfter(r)
  /\ UNCHANGED <<product, file, boxes, left, runs, changes>>

PushFails(r) ==
  LET n == now[r].node IN
  /\ now[r] # NoPush
  /\ Say(n, "error")
  /\ \/ UNCHANGED installed
     \/ Took(n, now[r].file) /\ installed' = [installed EXCEPT ![n] = now[r].file]
  /\ now' = [now EXCEPT ![r] = NoPush]
  /\ ButtonAfter(r)
  /\ UNCHANGED <<product, file, boxes, left, runs, changes>>

Next ==
  \/ \E p \in Products : ChooseFile(p) \/ ChooseProduct(p)
  \/ \E n \in Nodes : Toggle(n)
  \/ Flash
  \/ \E r \in Runs : Push(r) \/ Pushed(r) \/ PushFails(r)

\* A push ends: by its answer, an error, or its time limit.
Ends(r) == Pushed(r) \/ PushFails(r)

Spec == Init /\ [][Next]_vars /\ \A r \in Runs : WF_vars(Push(r)) /\ WF_vars(Ends(r))

-----------------------------------------------------------------------------
TypeOK ==
  /\ product \in Products /\ file \in Products \union {"none"} /\ boxes \subseteq Of(product)
  /\ button \in BOOLEAN /\ runs \in 0..MaxRuns /\ changes \in 0..MaxChanges
  /\ left \in [Runs -> SUBSET Nodes]
  /\ said \in [Nodes -> {"none", "uploading", "ok", "error"}]
  /\ installed \in [Nodes -> Products \union {"none"}]

\* A tick is put behind nodes that run firmware of their own product only, however
\* product, file and boxes were changed on the way.
TickTrue == \A n \in Nodes : said[n] = "ok" => installed[n] = ProductOf(n)

\* Every node selected when the button was pressed has its push, and the push its
\* end, also behind nodes that refuse the file or do not answer.
Waits(n) == \E r \in Runs : n \in left[r] \/ now[r].node = n
EveryNodeTold == \A n \in Nodes : []<>~Waits(n)

\* "Nodes flash one at a time".  (Not so: a changed box enables the button again.)
OneAtATime == Cardinality({r \in Runs : now[r] # NoPush}) <= 1
=============================================================================
