-------------------------------- MODULE Backup --------------------------------
(* Backup and restore of the fleet on the System page (data/index.html, embedded
   in ui.cpp).  A bundle names its nodes by MAC; what is read and written goes to
   the address the registry gives for that MAC at the time.  Nodes fail to answer,
   lose their place in the registry, take each other's address on a new lease, and
   are edited by others.  A value is the node it was made for and a version. *)
EXTENDS Naturals, FiniteSets

CONSTANTS
  Nodes,      \* MACs of compatible nodes that are not masterMIDI
  Parts,      \* what is kept of a node, in the order it is written back
  MaxEdits,   \* changes others make to settings
  MaxMoves    \* changes of the registry: a node leaves, or two change places

VARIABLES
  live,       \* what each node has stored, part by part
  at,         \* the address of each node, Away for a node that is not on the LAN
  edits, moves,
  stage,      \* what the page is doing
  list,       \* the registry as it was fetched last
  bundle,     \* the file: of each node in it every part, Null for one not read
  pending,    \* parts still to be read
  shown,      \* the preview: changes counted for each node; Skipped for a missing one
  left,       \* nodes of the bundle not restored yet
  current,    \* the node being restored and the number of its next part
  ok, missing, failed,
  stirred     \* an address or a setting changed under a backup or a restore

world == <<live, at, edits, moves>>
result == <<ok, missing, failed>>
vars == <<world, stage, list, bundle, pending, shown, left, current, result, stirred>>

Away == 0
Null == <<0, 0>>
NoNode == 0
Skipped == Cardinality(Parts) + 1      \* more than there are parts to count
Addresses == 1..Cardinality(Nodes)
Versions == 0..MaxEdits
Value(n, v) == <<n, v>>
Own(n) == {Value(n, v) : v \in Versions}
Last == Cardinality(Parts)

Sizes == /\ IsFiniteSet(Nodes) /\ Nodes = 1..Cardinality(Nodes)
         /\ IsFiniteSet(Parts) /\ Parts = 1..Cardinality(Parts)
         /\ MaxEdits \in Nat

Init ==
  /\ live = [n \in Nodes |-> [p \in Parts |-> Value(n, 0)]]
  /\ at = [n \in Nodes |-> n] /\ edits = 0 /\ moves = 0
  /\ stage = "idle" /\ list = [n \in Nodes |-> Away]
  /\ bundle = [n \in {} |-> <<>>] /\ pending = {} /\ shown = [n \in {} |-> 0]
  /\ left = {} /\ current = <<NoNode, 1>> /\ ok = {} /\ missing = {} /\ failed = {}
  /\ stirred = FALSE

-----------------------------------------------------------------------------
(* Others. *)

Busy == stage \in {"collect", "list", "restore"}

Edit(n, p) ==
  /\ edits < MaxEdits /\ edits' = edits + 1
  /\ live' = [live EXCEPT ![n][p] = Value(n, edits')]
  /\ stirred' = (stirred \/ stage \in {"list", "restore"})
  /\ UNCHANGED <<at, moves, stage, list, bundle, pending, shown, left, current, result>>

Move ==
  /\ moves < MaxMoves /\ moves' = moves + 1
  /\ \/ \E n \in Nodes : at' = [at EXCEPT ![n] = Away]
     \/ \E n, m \in Nodes : n # m /\ at' = [at EXCEPT ![n] = at[m], ![m] = at[n]]
     \/ \E n \in Nodes : at[n] = Away /\ at' = [at EXCEPT ![n] = n] /\ n \notin {at[m] : m \in Nodes}
  /\ stirred' = (stirred \/ Busy)
  /\ UNCHANGED <<live, edits, stage, list, bundle, pending, shown, left, current, result>>

-----------------------------------------------------------------------------
(* collectBackup. *)

Listed == {n \in Nodes : list[n] # Away}
At(n) == {m \in Nodes : at[m] = list[n]}      \* who answers at the address listed for n

Download ==
  /\ stage = "idle"
  /\ stage' = "collect" /\ list' = at
  /\ bundle' = [n \in {m \in Nodes : at[m] # Away} |-> [p \in Parts |-> Null]]
  /\ pending' = {m \in Nodes : at[m] # Away} \X Parts
  /\ UNCHANGED <<world, shown, left, current, result, stirred>>

\* A read that fails is taken for null, whatever the reason.
Read(n, p) ==
  /\ stage = "collect" /\ <<n, p>> \in pending
  /\ pending' = pending \ {<<n, p>>}
  /\ \/ \E m \in At(n) : bundle' = [bundle EXCEPT ![n][p] = live[m][p]]
     \/ UNCHANGED bundle
  /\ UNCHANGED <<world, stage, list, shown, left, current, result, stirred>>

Saved ==
  /\ stage = "collect" /\ pending = {}
  /\ stage' = "saved"
  /\ UNCHANGED <<world, list, bundle, pending, shown, left, current, result, stirred>>

-----------------------------------------------------------------------------
(* renderRestorePreview: the file against what the nodes have.  A node that does
   not answer shows every part of the file as a change. *)

Differs(n, m, reads) ==
  Cardinality({p \in Parts : bundle[n][p] # IF p \in reads THEN live[m][p] ELSE Null})

Preview ==
  /\ stage = "saved"
  /\ stage' = "preview"
  /\ \E reads \in {{}, Parts} :
       shown' = [n \in DOMAIN bundle |-> IF at[n] = Away THEN Skipped ELSE Differs(n, n, reads)]
  /\ UNCHANGED <<world, list, bundle, pending, left, current, result, stirred>>

Cancel ==
  /\ stage = "preview" /\ stage' = "saved"
  /\ UNCHANGED <<world, list, bundle, pending, shown, left, current, result, stirred>>

-----------------------------------------------------------------------------
(* applyBackup. *)

Apply ==
  /\ stage = "preview" /\ \E n \in DOMAIN shown : shown[n] \notin {0, Skipped}
  /\ stage' = "list" /\ left' = DOMAIN bundle
  /\ ok' = {} /\ missing' = {} /\ failed' = {}
  /\ UNCHANGED <<world, list, bundle, pending, shown, current, stirred>>

\* Mutant: the restore uses the addresses of the backup.
ListKept == UNCHANGED list

\* The registry is read again, so that the addresses are those of now.
Refetch == list' = at

ListNow ==
  /\ stage = "list" /\ stage' = "restore"
  /\ Refetch \/ list' = [n \in Nodes |-> Away]
  /\ UNCHANGED <<world, bundle, pending, shown, left, current, result, stirred>>

NextNode ==
  /\ stage = "restore" /\ current[1] = NoNode
  /\ \E n \in left :
       /\ left' = left \ {n}
       /\ IF list[n] = Away
            THEN missing' = missing \union {n} /\ UNCHANGED current
            ELSE current' = <<n, 1>> /\ UNCHANGED missing
  /\ UNCHANGED <<world, stage, list, bundle, pending, shown, ok, failed, stirred>>

\* One POST; a part that is not in the file is passed over.
Written(n, p) ==
  \/ bundle[n][p] = Null /\ UNCHANGED live
  \/ bundle[n][p] # Null /\ \E m \in At(n) : live' = [live EXCEPT ![m][p] = bundle[n][p]]

WritePart ==
  /\ stage = "restore" /\ current[1] # NoNode
  /\ LET n == current[1]  p == current[2] IN
       /\ p <= Last
       /\ Written(n, p)
       /\ IF p = Last THEN current' = <<NoNode, 1>> /\ ok' = ok \union {n}
                      ELSE current' = <<n, p + 1>> /\ UNCHANGED ok
  /\ UNCHANGED <<at, edits, moves, stage, list, bundle, pending, shown, left, missing, failed, stirred>>

\* Mutant: a failed write is passed over and the node goes on.
GoOn == current' = IF current[2] = Last THEN <<NoNode, 1>> ELSE <<current[1], current[2] + 1>>

\* The node does not answer: what is left of it is not tried.
GiveUp == current' = <<NoNode, 1>>

WriteFails ==
  /\ stage = "restore" /\ current[1] # NoNode /\ bundle[current[1]][current[2]] # Null
  /\ failed' = failed \union {current[1]}
  /\ GiveUp
  /\ UNCHANGED <<world, stage, list, bundle, pending, shown, left, ok, missing, stirred>>

Restored ==
  /\ stage = "restore" /\ current[1] = NoNode /\ left = {}
  /\ stage' = "over"
  /\ UNCHANGED <<world, list, bundle, pending, shown, left, current, result, stirred>>

Next ==
  \/ \E n \in Nodes, p \in Parts : Edit(n, p) \/ Read(n, p)
  \/ Move \/ Download \/ Saved \/ Preview \/ Cancel \/ Apply \/ ListNow \/ NextNode
  \/ WritePart \/ WriteFails \/ Restored

Spec == Init /\ [][Next]_vars

-----------------------------------------------------------------------------
TypeOK ==
  /\ live \in [Nodes -> [Parts -> UNION {Own(n) : n \in Nodes}]]
  /\ at \in [Nodes -> Addresses \union {Away}] /\ list \in [Nodes -> Addresses \union {Away}]
  /\ edits \in 0..MaxEdits /\ moves \in 0..MaxMoves
  /\ stage \in {"idle", "collect", "saved", "preview", "list", "restore", "over"}
  /\ current \in (Nodes \union {NoNode}) \X Parts
  /\ \A s \in {left, ok, missing, failed} : s \subseteq Nodes

\* Match-by-MAC: however the addresses moved between backup and restore, a node
\* ends up with settings that were its own and no other's.
OwnSettings == ~stirred => \A n \in Nodes, p \in Parts : live[n][p] \in Own(n)

\* What the summary says is so: every node of the file is counted, once; a node
\* counted as restored has every part of the file, and none is counted twice.
SummaryTrue ==
  stage = "restore" /\ current[1] = NoNode /\ left = {} /\ ~stirred =>
    /\ \A n \in ok, p \in Parts : bundle[n][p] \in {Null, live[n][p]}
    /\ ok \union missing \union failed = DOMAIN bundle
    /\ Cardinality(ok) + Cardinality(missing) + Cardinality(failed) = Cardinality(DOMAIN bundle)
=============================================================================
