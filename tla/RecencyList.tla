------------------------------ MODULE RecencyList ------------------------------
(***************************************************************************)
(* What the capability registry promises about which descriptors it keeps: *)
(* at most MaxEntries keys, and the one used longest ago goes first -- as  *)
(* far as the clock lets it tell (tcp/core/registry.py, without its two    *)
(* dictionaries and its access times).                                     *)
(***************************************************************************)
EXTENDS Naturals, FiniteSets

CONSTANTS
  Keys,         (* name and version of a descriptor                         *)
  MaxEntries,   (* max_entries                                              *)
  Times         (* what the wall clock may show at a use                    *)

VARIABLES
  held,         (* the keys held                                            *)
  before,       (* <<j, k>>: j was used for the last time before k was      *)
  astray,       (* the keys whose last use read no later a time than an     *)
                (* earlier use: the clock stood still or was set back       *)
  latest        (* the latest time that a use has read                      *)

vars == <<held, before, astray, latest>>

--------------------------------------------------------------------------------
Keep(ks) ==
  /\ held' = ks
  /\ before' = before \cap (ks \X ks)
  /\ astray' = astray \cap ks
  /\ UNCHANGED latest

(* Of some keys that stay, or of a new one and these, k is used last.       *)
Use(k, ks) == \E now \in Times :
  /\ held' = ks \cup {k}
  /\ before' = (before \cap ((ks \ {k}) \X (ks \ {k}))) \cup ((ks \ {k}) \X {k})
  /\ astray' = ((astray \cap ks) \ {k}) \cup (IF now > latest THEN {} ELSE {k})
  /\ latest' = IF now > latest THEN now ELSE latest

(* Only a key that is astray may go while one used before it stays.         *)
InTurn(ks) == \A k \in ks \ astray, l \in held \ ks : <<l, k>> \notin before

--------------------------------------------------------------------------------
Init == held = {} /\ before = {} /\ astray = {} /\ latest = 0

(* If the list is full one key makes room, even for a key that is in the    *)
(* list already.                                                            *)
Register(k) ==
  \/ Cardinality(held) < MaxEntries /\ Use(k, held)
  \/ /\ Cardinality(held) >= MaxEntries
     /\ \E first \in held : InTurn({first}) /\ Use(k, held \ {first})

Get(k) == k \in held /\ Use(k, held)

Unregister(ks) == Keep(held \ ks)

Expire(ks) == InTurn(ks) /\ Keep(held \ ks)

Next ==
  \/ \E k \in Keys : Register(k) \/ Get(k)
  \/ \E ks \in SUBSET Keys : Unregister(ks)
  \/ \E ks \in SUBSET held : Expire(ks)

Spec == Init /\ [][Next]_vars
================================================================================
