--------------------------- MODULE CapabilityRegistry ---------------------------
(***************************************************************************)
(* The capability registry (tcp/core/registry.py): descriptors by name and *)
(* version, and beside them the time of the last access to each.  Every    *)
(* method holds one reentrant lock, so each is one step.                   *)
(***************************************************************************)
EXTENDS Integers, FiniteSets, FiniteSetsExt

CONSTANTS
  Names,
  Versions,     (* integers, in the order in which Python compares them     *)
  MaxEntries,   (* max_entries                                              *)
  MaxClock      (* bound: the latest time the clock may show                *)

ASSUME RegistryAssumption ==
  /\ Versions \subseteq Int
  /\ MaxEntries \in Nat \ {0}
  /\ MaxClock \in Nat

VARIABLES
  tools,        (* _tools: the versions held of each name                   *)
  accessTimes,  (* _access_times                                            *)
  before,       (* history: <<j, k>>, j was last used before k was          *)
  astray,       (* history: keys whose last use read no later a time than   *)
                (* an earlier use had                                       *)
  latest        (* history: the latest time that a use has read             *)

history == <<before, astray, latest>>
registryVars == <<tools, accessTimes, history>>

--------------------------------------------------------------------------------
Keys == Names \X Versions

(* _utc_now is the wall clock: from one call to the next it moves on,       *)
(* stands still or is set back.                                             *)
Times == 1 .. MaxClock

Held(ts) == {k \in Keys : k[1] \in DOMAIN ts /\ k[2] \in ts[k[1]]}

(* The tools without some keys; a name goes with its last version.          *)
WithoutTools(ts, ks) ==
  LET left == [n \in DOMAIN ts |-> {v \in ts[n] : <<n, v>> \notin ks}]
  IN [n \in {m \in DOMAIN ts : left[m] # {}} |-> left[n]]

(* Mutant of WithoutTimes: unregister leaves the access time.               *)
WithoutTimesOfOthers(times, ks) == times

WithoutTimes(times, ks) == [k \in DOMAIN times \ ks |-> times[k]]

(* Mutant of Oldest: the key used last.                                     *)
OldestNewest(times) ==
  {k \in DOMAIN times : \A l \in DOMAIN times : times[l] <= times[k]}

Oldest(times) ==
  {k \in DOMAIN times : \A l \in DOMAIN times : times[k] <= times[l]}

(* Mutant of Victims: room is made only when the limit is already passed.   *)
VictimsWhenOver ==
  IF Cardinality(Held(tools)) <= MaxEntries \/ accessTimes = <<>>
  THEN {{}}
  ELSE {{k} \cap Held(tools) : k \in Oldest(accessTimes)}

(* _evict_oldest unregisters the first key with the oldest access time; a   *)
(* key that has an access time and is not held would be left as it is.      *)
Victims ==
  IF Cardinality(Held(tools)) < MaxEntries \/ accessTimes = <<>>
  THEN {{}}
  ELSE {{k} \cap Held(tools) : k \in Oldest(accessTimes)}

Stamped(times, k, now) == [l \in DOMAIN times \cup {k} |-> IF l = k THEN now ELSE times[l]]

(* The order of the calls themselves, whatever the clock shows at them.     *)
UsedLast(k, ks, now) ==
  /\ before' = (before \cap ((ks \ {k}) \X (ks \ {k}))) \cup ((ks \ {k}) \X {k})
  /\ astray' = ((astray \cap ks) \ {k}) \cup (IF now > latest THEN {} ELSE {k})
  /\ latest' = IF now > latest THEN now ELSE latest

Gone(ks) ==
  /\ before' = before \cap ((Held(tools) \ ks) \X (Held(tools) \ ks))
  /\ astray' = astray \ ks
  /\ UNCHANGED latest

--------------------------------------------------------------------------------
RegistryInit ==
  /\ tools = <<>>
  /\ accessTimes = <<>>
  /\ before = {} /\ astray = {} /\ latest = 0

Register(k) == \E now \in Times, victims \in Victims :
  LET ts == WithoutTools(tools, victims)
      times == WithoutTimes(accessTimes, victims)
  IN /\ tools' = [n \in DOMAIN ts \cup {k[1]} |->
                    (IF n \in DOMAIN ts THEN ts[n] ELSE {})
                      \cup (IF n = k[1] THEN {k[2]} ELSE {})]
     /\ accessTimes' = Stamped(times, k, now)
     /\ UsedLast(k, Held(tools) \ victims, now)

(* One version, or every version of a name.                                 *)
Unregister(ks) ==
  /\ ks # {} /\ ks \subseteq Held(tools)
  /\ tools' = WithoutTools(tools, ks)
  /\ accessTimes' = WithoutTimes(accessTimes, ks)
  /\ Gone(ks)

(* Mutant of Touch: get does not count as an access.                       *)
TouchNothing(k, now) == UNCHANGED accessTimes

Touch(k, now) == accessTimes' = Stamped(accessTimes, k, now)

Get(k) ==
  /\ k \in Held(tools)
  /\ \E now \in Times : Touch(k, now) /\ UsedLast(k, Held(tools), now)
  /\ UNCHANGED tools

(* get without a version takes the greatest one.                            *)
GetLatest(n) ==
  /\ n \in DOMAIN tools
  /\ Get(<<n, Max(tools[n])>>)

Clear ==
  /\ tools' = <<>>
  /\ accessTimes' = <<>>
  /\ Gone(Held(tools))

(* cleanup_expired: what was not accessed for longer than `age`.            *)
CleanupExpired(age) == \E now \in Times :
  LET expired == {k \in DOMAIN accessTimes : accessTimes[k] < now - age} \cap Held(tools)
  IN /\ tools' = WithoutTools(tools, expired)
     /\ accessTimes' = WithoutTimes(accessTimes, expired)
     /\ Gone(expired)

(* The lists, searches and statistics, and calls that find nothing.         *)
Look == UNCHANGED registryVars

NameKeys(n) == {k \in Held(tools) : k[1] = n}

RegistryNext ==
  \/ \E k \in Keys : Register(k) \/ Get(k) \/ Unregister({k})
  \/ \E n \in Names : GetLatest(n) \/ Unregister(NameKeys(n))
  \/ Clear
  \/ Look
  \/ \E age \in 0 .. MaxClock : CleanupExpired(age)

RegistrySpec == RegistryInit /\ [][RegistryNext]_registryVars

--------------------------------------------------------------------------------
RegistryTypes ==
  /\ DOMAIN tools \subseteq Names
  /\ \A n \in DOMAIN tools : tools[n] \in (SUBSET Versions) \ {{}}
  /\ DOMAIN accessTimes \subseteq Keys
  /\ \A k \in DOMAIN accessTimes : accessTimes[k] \in Times
  /\ before \subseteq Keys \X Keys
  /\ astray \subseteq Keys
  /\ latest \in 0 .. MaxClock

(* The two dictionaries speak of the same descriptors: an access time with  *)
(* no descriptor would be chosen for eviction for ever and free nothing, a  *)
(* descriptor without one could never be evicted or expire.                 *)
IndexesAgree == DOMAIN accessTimes = Held(tools)

(* The registry never holds more than max_entries descriptors, whatever is  *)
(* evicted, unregistered and registered again.                              *)
Bounded == Cardinality(Held(tools)) <= MaxEntries

(* The registry implements the recency list whatever the clock shows: a     *)
(* descriptor is evicted or expires while one used before it stays only if  *)
(* its own last use read no later a time than some earlier use.  While the  *)
(* clock moves on this is the order of use exactly, and after it stood      *)
(* still or was set back only the uses made until it has caught up are out  *)
(* of their place, each until the descriptor is used again.                 *)
Recency == INSTANCE RecencyList WITH held <- Held(tools)

KeepsRecencyOrder == Recency!Spec
================================================================================
