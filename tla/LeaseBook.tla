---------------------------- MODULE LeaseBook ----------------------------
(***************************************************************************)
(* What the fallback DHCP server promises about its bookkeeping, with no   *)
(* slots, no clock and no packets: the book is a one-to-one relation       *)
(* between clients and addresses, the saved copy of it is always some      *)
(* earlier book, and a reboot starts from the saved copy or from nothing.  *)
(* DhcpServer is shown to implement it.                                    *)
(***************************************************************************)
CONSTANTS Mac, Address

VARIABLES book,   \* set of <<client, address>> the server has given out
          saved   \* the copy of the book in EEPROM

bookVars == <<book, saved>>

OneToOne(B) == \A p, q \in B : (p[1] = q[1] \/ p[2] = q[2]) => p = q

BookInit == book = {} /\ saved = {}

\* The saved copy follows the book only when the server writes it out.
SaveOrKeep == saved' \in {saved, book'}

\* A client without an address gets one nobody else has.
Grant(m, a) ==
  /\ \A p \in book : p[1] # m /\ p[2] # a
  /\ book' = book \cup {<<m, a>>}
  /\ SaveOrKeep

\* Some clients lose their addresses: they expire, or are given back.
Drop(gone) ==
  /\ book' = book \ gone
  /\ SaveOrKeep

Reboot ==
  /\ book' \in {saved, {}}
  /\ UNCHANGED saved

BookNext ==
  \/ \E gone \in SUBSET book : Drop(gone)
  \/ \E m \in Mac, a \in Address : Grant(m, a)
  \/ Reboot

BookSpec == BookInit /\ [][BookNext]_bookVars
==========================================================================
