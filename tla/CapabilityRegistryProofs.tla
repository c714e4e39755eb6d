------------------------ MODULE CapabilityRegistryProofs ------------------------
(***************************************************************************)
(* Proofs about CapabilityRegistry for any limit, names and versions.      *)
(***************************************************************************)
EXTENDS CapabilityRegistry, FiniteSetTheorems, TLAPS

(* The limit is only meaningful while what is held is a finite set, and     *)
(* eviction only makes room while an access time names a descriptor held.   *)
IInv == RegistryTypes /\ IndexesAgree /\ Bounded /\ IsFiniteSet(Held(tools))

(* Removing keys removes exactly these, and a name with its last version.   *)
LEMMA WithoutToolsHeld ==
  ASSUME NEW ts, NEW ks, DOMAIN ts \subseteq Names,
         \A n \in DOMAIN ts : ts[n] \subseteq Versions
  PROVE  /\ Held(WithoutTools(ts, ks)) = Held(ts) \ ks
         /\ DOMAIN WithoutTools(ts, ks) \subseteq DOMAIN ts
         /\ \A n \in DOMAIN WithoutTools(ts, ks) :
              WithoutTools(ts, ks)[n] \in (SUBSET Versions) \ {{}}
<1> DEFINE left(n) == {v \in ts[n] : <<n, v>> \notin ks}
<1>1. DOMAIN WithoutTools(ts, ks) = {n \in DOMAIN ts : left(n) # {}}
  BY DEF WithoutTools
<1>2. \A n \in DOMAIN WithoutTools(ts, ks) : WithoutTools(ts, ks)[n] = left(n)
  BY <1>1 DEF WithoutTools
<1>3. \A k \in Keys : k \in Held(WithoutTools(ts, ks)) <=> k \in Held(ts) \ ks
  <2> TAKE k \in Keys
  <2>1. k = <<k[1], k[2]>>
    BY DEF Keys
  <2>2. k[1] \in DOMAIN ts => (k[2] \in left(k[1]) <=> k[2] \in ts[k[1]] /\ k \notin ks)
    BY <2>1
  <2> QED BY <1>1, <1>2, <2>2 DEF Held
<1>4. Held(WithoutTools(ts, ks)) = Held(ts) \ ks
  BY <1>3 DEF Held
<1>5. \A n \in DOMAIN WithoutTools(ts, ks) :
        WithoutTools(ts, ks)[n] \in (SUBSET Versions) \ {{}}
  <2> TAKE n \in DOMAIN WithoutTools(ts, ks)
  <2>1. left(n) \subseteq ts[n] /\ left(n) # {} /\ n \in DOMAIN ts
    BY <1>1
  <2> QED BY <1>2, <2>1
<1> QED BY <1>1, <1>4, <1>5

(* What removing keys from both dictionaries leaves of the invariant.       *)
LEMMA RemovalKeepsIInv ==
  ASSUME IInv, NEW ks, tools' = WithoutTools(tools, ks),
         accessTimes' = WithoutTimes(accessTimes, ks), Gone(ks)
  PROVE  IInv'
<1> USE RegistryAssumption DEF IInv, RegistryTypes, IndexesAgree, Bounded
<1>1. /\ Held(tools') = Held(tools) \ ks
      /\ DOMAIN tools' \subseteq DOMAIN tools
      /\ \A n \in DOMAIN tools' : tools'[n] \in (SUBSET Versions) \ {{}}
  BY WithoutToolsHeld
<1>2. /\ DOMAIN accessTimes' = DOMAIN accessTimes \ ks
      /\ \A k \in DOMAIN accessTimes' : accessTimes'[k] = accessTimes[k]
  BY DEF WithoutTimes
<1>3. RegistryTypes'
  BY <1>1, <1>2 DEF Gone
<1>4. IndexesAgree'
  BY <1>1, <1>2
<1>5. IsFiniteSet(Held(tools')) /\ Cardinality(Held(tools')) <= Cardinality(Held(tools))
  BY <1>1, FS_Subset
<1>6. Cardinality(Held(tools')) \in Nat /\ Cardinality(Held(tools)) \in Nat
  BY <1>5, FS_CardinalityType
<1> QED BY <1>3, <1>4, <1>5, <1>6

LEMMA InitIInv == RegistryInit => IInv
<1> SUFFICES ASSUME RegistryInit PROVE IInv
  OBVIOUS
<1>1. DOMAIN tools = {} /\ DOMAIN accessTimes = {} /\ Held(tools) = {}
  BY DEF RegistryInit, Held
<1> QED BY <1>1, FS_EmptySet, RegistryAssumption
        DEF RegistryInit, IInv, RegistryTypes, IndexesAgree, Bounded, Times

(* The history keeps its type when a key is used.                           *)
LEMMA UseKeepsType ==
  ASSUME RegistryTypes, NEW k \in Keys, NEW ks \in SUBSET Keys, NEW now \in Times,
         UsedLast(k, ks, now)
  PROVE  /\ before' \subseteq Keys \X Keys
         /\ astray' \subseteq Keys
         /\ latest' \in 0 .. MaxClock /\ latest <= latest' /\ now <= latest'
BY RegistryAssumption DEF RegistryTypes, UsedLast, Times

(* Eviction removes one descriptor whenever the registry is full.           *)
LEMMA RoomMade ==
  ASSUME IInv, NEW victims \in Victims
  PROVE  /\ IsFiniteSet(Held(tools) \ victims)
         /\ Cardinality(Held(tools) \ victims) \in Nat
         /\ Cardinality(Held(tools) \ victims) < MaxEntries
<1> USE RegistryAssumption DEF IInv, IndexesAgree, Bounded
<1>1. Cardinality(Held(tools)) \in Nat
  BY FS_CardinalityType
<1>2. CASE Cardinality(Held(tools)) < MaxEntries
  <2>1. victims = {}
    BY <1>2 DEF Victims
  <2> QED BY <1>1, <1>2, <2>1
<1>3. CASE accessTimes = <<>>
  <2>1. Held(tools) = {} /\ Held(tools) \ victims = {}
    BY <1>3
  <2> QED BY <2>1, FS_EmptySet
<1>4. CASE ~(Cardinality(Held(tools)) < MaxEntries) /\ accessTimes # <<>>
  <2>1. PICK o \in Oldest(accessTimes) : victims = {o} \cap Held(tools)
    BY <1>4 DEF Victims
  <2>2. o \in Held(tools) /\ Held(tools) \ victims = Held(tools) \ {o}
    BY <2>1 DEF Oldest
  <2>3. /\ IsFiniteSet(Held(tools) \ {o})
        /\ Cardinality(Held(tools) \ {o}) = Cardinality(Held(tools)) - 1
    BY <2>2, FS_RemoveElement
  <2>4. Cardinality(Held(tools) \ {o}) \in Nat
    BY <2>3, FS_CardinalityType
  <2> QED BY <1>1, <2>2, <2>3, <2>4
<1> QED BY <1>2, <1>3, <1>4

LEMMA RegisterKeepsIInv == ASSUME IInv, NEW k \in Keys, Register(k) PROVE IInv'
<1> USE RegistryAssumption DEF IInv, RegistryTypes, IndexesAgree, Bounded
<1>1. PICK now \in Times, victims \in Victims :
        LET ts == WithoutTools(tools, victims)
            times == WithoutTimes(accessTimes, victims)
        IN /\ tools' = [n \in DOMAIN ts \cup {k[1]} |->
                         (IF n \in DOMAIN ts THEN ts[n] ELSE {})
                           \cup (IF n = k[1] THEN {k[2]} ELSE {})]
           /\ accessTimes' = Stamped(times, k, now)
           /\ UsedLast(k, Held(tools) \ victims, now)
  BY DEF Register
<1> DEFINE ts == WithoutTools(tools, victims)
           times == WithoutTimes(accessTimes, victims)
<1>2. /\ Held(ts) = Held(tools) \ victims
      /\ DOMAIN ts \subseteq Names
      /\ \A n \in DOMAIN ts : ts[n] \in (SUBSET Versions) \ {{}}
  BY WithoutToolsHeld
<1>3. k = <<k[1], k[2]>> /\ k[1] \in Names /\ k[2] \in Versions
  BY DEF Keys
<1>4. /\ DOMAIN tools' = DOMAIN ts \cup {k[1]}
      /\ \A n \in DOMAIN tools' :
           tools'[n] = (IF n \in DOMAIN ts THEN ts[n] ELSE {})
                         \cup (IF n = k[1] THEN {k[2]} ELSE {})
  BY <1>1
<1>5. Held(tools') = Held(ts) \cup {k}
  <2> HIDE DEF ts
  <2>1. ASSUME NEW l \in Keys PROVE l \in Held(tools') <=> l \in Held(ts) \cup {k}
    <3>1. l = k <=> l[1] = k[1] /\ l[2] = k[2]
      BY DEF Keys
    <3>2. l \in Held(tools') <=> l[1] \in DOMAIN tools' /\ l[2] \in tools'[l[1]]
      BY DEF Held
    <3>3. l \in Held(ts) <=> l[1] \in DOMAIN ts /\ l[2] \in ts[l[1]]
      BY DEF Held
    <3> QED BY <1>4, <3>1, <3>2, <3>3
  <2> QED BY <2>1 DEF Held
<1>6. /\ DOMAIN times = DOMAIN accessTimes \ victims
      /\ \A l \in DOMAIN times : times[l] = accessTimes[l]
  BY DEF WithoutTimes
<1>7. /\ DOMAIN accessTimes' = DOMAIN times \cup {k}
      /\ \A l \in DOMAIN accessTimes' :
           accessTimes'[l] = IF l = k THEN now ELSE times[l]
  BY <1>1 DEF Stamped
<1>8. /\ before' \subseteq Keys \X Keys
      /\ astray' \subseteq Keys
      /\ latest' \in 0 .. MaxClock
  <2>1. Held(tools) \ victims \in SUBSET Keys
    BY DEF Held
  <2> QED BY <1>1, <2>1, UseKeepsType
<1> HIDE DEF ts, times
<1>9. RegistryTypes'
  <2>1. DOMAIN tools' \subseteq Names
    BY <1>2, <1>3, <1>4
  <2>2. \A n \in DOMAIN tools' : tools'[n] \in (SUBSET Versions) \ {{}}
    <3> TAKE n \in DOMAIN tools'
    <3>1. n \in DOMAIN ts => ts[n] \subseteq Versions
      BY <1>2
    <3>2. n \notin DOMAIN ts => n = k[1]
      BY <1>4
    <3>3. CASE n = k[1]
      BY <1>3, <1>4, <3>1, <3>3
    <3>4. CASE n # k[1]
      BY <1>2, <1>4, <3>2, <3>4
    <3> QED BY <3>3, <3>4
  <2>3. \A l \in DOMAIN accessTimes' : accessTimes'[l] \in Times
    BY <1>6, <1>7
  <2> QED BY <1>6, <1>7, <1>8, <2>1, <2>2, <2>3
<1>10. IndexesAgree'
  BY <1>2, <1>5, <1>6, <1>7
<1>11. /\ IsFiniteSet(Held(ts)) /\ Cardinality(Held(ts)) \in Nat
       /\ Cardinality(Held(ts)) < MaxEntries
  BY <1>2, RoomMade
<1>12. /\ IsFiniteSet(Held(tools'))
       /\ Cardinality(Held(tools')) = IF k \in Held(ts) THEN Cardinality(Held(ts))
                                      ELSE Cardinality(Held(ts)) + 1
  BY <1>5, <1>11, FS_AddElement
<1> QED BY <1>9, <1>10, <1>11, <1>12

LEMMA NextIInv == IInv /\ [RegistryNext]_registryVars => IInv'
<1> SUFFICES ASSUME IInv, [RegistryNext]_registryVars PROVE IInv'
  OBVIOUS
<1> USE RegistryAssumption DEF IInv, RegistryTypes
<1>1. ASSUME NEW k \in Keys, Register(k) PROVE IInv'
  BY <1>1, RegisterKeepsIInv
<1>2. ASSUME NEW k \in Keys, Get(k) PROVE IInv'
  <2>1. PICK now \in Times : Touch(k, now) /\ UsedLast(k, Held(tools), now)
    BY <1>2 DEF Get
  <2>2. /\ DOMAIN accessTimes' = DOMAIN accessTimes \cup {k}
        /\ \A l \in DOMAIN accessTimes' :
             accessTimes'[l] = IF l = k THEN now ELSE accessTimes[l]
    BY <2>1 DEF Touch, Stamped
  <2>3. k \in Held(tools) /\ tools' = tools
    BY <1>2 DEF Get
  <2>4. Held(tools) \in SUBSET Keys
    BY DEF Held
  <2>5. /\ before' \subseteq Keys \X Keys
        /\ astray' \subseteq Keys
        /\ latest' \in 0 .. MaxClock
    BY <2>1, <2>4, UseKeepsType
  <2>6. RegistryTypes'
    BY <2>2, <2>3, <2>5
  <2> QED BY <2>2, <2>3, <2>6 DEF IndexesAgree, Bounded
<1>3. ASSUME NEW n \in Names, GetLatest(n) PROVE IInv'
  <2>1. Get(<<n, Max(tools[n])>>) /\ <<n, Max(tools[n])>> \in Keys
    BY <1>3 DEF GetLatest, Get, Held
  <2> QED BY <1>2, <2>1
<1>4. ASSUME NEW ks, Unregister(ks) PROVE IInv'
  BY <1>4, RemovalKeepsIInv DEF Unregister
<1>5. CASE Clear
  <2>1. DOMAIN tools' = {} /\ DOMAIN accessTimes' = {} /\ Held(tools') = {}
    BY <1>5 DEF Clear, Held
  <2>2. RegistryTypes'
    BY <1>5, <2>1 DEF Clear, Gone
  <2> QED BY <2>1, <2>2, FS_EmptySet DEF IndexesAgree, Bounded
<1>6. ASSUME NEW age, CleanupExpired(age) PROVE IInv'
  <2>1. PICK ks : /\ tools' = WithoutTools(tools, ks)
                  /\ accessTimes' = WithoutTimes(accessTimes, ks)
                  /\ Gone(ks)
    BY <1>6 DEF CleanupExpired
  <2> QED BY <2>1, RemovalKeepsIInv
<1>7. CASE Look \/ UNCHANGED registryVars
  BY <1>7 DEF Look, registryVars, history, IndexesAgree, Bounded, Held
<1> QED BY <1>1, <1>2, <1>3, <1>4, <1>5, <1>6, <1>7 DEF RegistryNext

LEMMA IInvHolds == RegistrySpec => []IInv
BY InitIInv, NextIInv, PTL DEF RegistrySpec

(* Both dictionaries keep their types, and unregister leaves no name        *)
(* without a version.                                                       *)
THEOREM TypeCorrect == RegistrySpec => []RegistryTypes
<1>1. IInv => RegistryTypes
  BY DEF IInv
<1> QED BY <1>1, IInvHolds, PTL

(* After every call of any method there is an access time for exactly the   *)
(* descriptors held.                                                        *)
THEOREM DictionariesAgree == RegistrySpec => []IndexesAgree
<1>1. IInv => IndexesAgree
  BY DEF IInv
<1> QED BY <1>1, IInvHolds, PTL

(* register never leaves more than max_entries descriptors.                 *)
THEOREM LimitKept == RegistrySpec => []Bounded
<1>1. IInv => Bounded
  BY DEF IInv
<1> QED BY <1>1, IInvHolds, PTL

--------------------------------------------------------------------------------
(* The recency list.  What the access times say of the order of use: a key  *)
(* that is not astray bears a later time than every key used before it.     *)
TimesFollowUse ==
  /\ before \subseteq Held(tools) \X Held(tools)
  /\ astray \subseteq Held(tools)
  /\ \A k \in DOMAIN accessTimes : accessTimes[k] <= latest
  /\ \A k, l \in DOMAIN accessTimes :
       <<k, l>> \in before /\ l \notin astray => accessTimes[k] < accessTimes[l]

RInv == IInv /\ TimesFollowUse

(* The keys that go together leave the history of the others as it is.      *)
LEMMA RemovalKeepsOrder ==
  ASSUME RInv, NEW ks, tools' = WithoutTools(tools, ks),
         accessTimes' = WithoutTimes(accessTimes, ks), Gone(ks)
  PROVE  Recency!Keep(Held(tools) \ ks) /\ TimesFollowUse'
<1>1. Held(tools') = Held(tools) \ ks
  BY WithoutToolsHeld DEF RInv, IInv, RegistryTypes
<1>2. /\ DOMAIN accessTimes' = DOMAIN accessTimes \ ks
      /\ \A k \in DOMAIN accessTimes' : accessTimes'[k] = accessTimes[k]
  BY DEF WithoutTimes
<1>3. /\ before' = before \cap ((Held(tools) \ ks) \X (Held(tools) \ ks))
      /\ astray' = astray \cap (Held(tools) \ ks)
      /\ latest' = latest
  BY DEF Gone, RInv, TimesFollowUse
<1>4. TimesFollowUse'
  <2>1. before' \subseteq Held(tools') \X Held(tools') /\ astray' \subseteq Held(tools')
    BY <1>1, <1>3
  <2>2. \A k \in DOMAIN accessTimes' : accessTimes'[k] <= latest'
    BY <1>2, <1>3 DEF RInv, TimesFollowUse
  <2>3. ASSUME NEW k \in DOMAIN accessTimes', NEW l \in DOMAIN accessTimes',
               <<k, l>> \in before', l \notin astray'
        PROVE  accessTimes'[k] < accessTimes'[l]
    <3>1. l \in Held(tools) \ ks /\ <<k, l>> \in before
      BY <1>3, <2>3
    <3>2. l \notin astray
      BY <1>3, <2>3, <3>1
    <3> QED BY <1>2, <3>1, <3>2 DEF RInv, TimesFollowUse
  <2> QED BY <2>1, <2>2, <2>3 DEF TimesFollowUse
<1> QED BY <1>1, <1>3, <1>4 DEF Recency!Keep

(* A key that is used comes last; its time tells so unless it is astray.    *)
LEMMA UseComesLast ==
  ASSUME RInv, NEW k \in Keys, NEW ks \in SUBSET Held(tools), NEW now \in Times,
         UsedLast(k, ks, now),
         Held(tools') = ks \cup {k},
         DOMAIN accessTimes' = ks \cup {k},
         accessTimes'[k] = now,
         \A l \in ks \ {k} : accessTimes'[l] = accessTimes[l]
  PROVE  Recency!Use(k, ks) /\ TimesFollowUse'
<1>1. Recency!Use(k, ks)
  BY DEF Recency!Use, UsedLast
<1>2. RegistryTypes /\ latest \in Int /\ now \in Int /\ latest' \in Int
      /\ latest <= latest' /\ now <= latest' /\ (now > latest => latest' = now)
  BY RegistryAssumption DEF RInv, IInv, RegistryTypes, Times, UsedLast
<1>3. \A l \in ks : l \in DOMAIN accessTimes /\ accessTimes[l] \in Int /\ accessTimes[l] <= latest
  BY RegistryAssumption DEF RInv, IInv, RegistryTypes, IndexesAgree, Times, TimesFollowUse
<1>4. before' \subseteq Held(tools') \X Held(tools')
  BY DEF UsedLast
<1>5. astray' \subseteq Held(tools')
  BY DEF UsedLast
<1>6. \A l \in DOMAIN accessTimes' : accessTimes'[l] <= latest'
  <2> TAKE l \in DOMAIN accessTimes'
  <2>1. CASE l = k
    BY <1>2, <2>1
  <2>2. CASE l # k
    BY <1>2, <1>3, <2>2
  <2> QED BY <2>1, <2>2
<1>7. ASSUME NEW l \in DOMAIN accessTimes', NEW m \in DOMAIN accessTimes',
             <<l, m>> \in before', m \notin astray'
      PROVE  accessTimes'[l] < accessTimes'[m]
  <2>1. l \in ks \ {k}
    BY <1>7 DEF UsedLast
  <2>2. CASE m = k
    <3>1. now > latest
      BY <1>7, <2>2 DEF UsedLast
    <3> QED BY <1>2, <1>3, <2>1, <2>2, <3>1
  <2>3. CASE m # k
    <3>1. m \in ks \ {k} /\ <<l, m>> \in before /\ m \notin astray
      BY <1>7, <2>3 DEF UsedLast
    <3> QED BY <1>3, <2>1, <3>1 DEF RInv, TimesFollowUse
  <2> QED BY <2>2, <2>3
<1>8. TimesFollowUse'
  BY <1>4, <1>5, <1>6, <1>7 DEF TimesFollowUse
<1> QED BY <1>1, <1>8

(* Keys of which none bears a later time than a key that stays go in turn.  *)
LEMMA OlderGoInTurn ==
  ASSUME RInv, NEW ks \in SUBSET DOMAIN accessTimes,
         \A k \in ks, l \in DOMAIN accessTimes \ ks : accessTimes[k] <= accessTimes[l]
  PROVE  Recency!InTurn(ks)
<1>1. \A k \in DOMAIN accessTimes : accessTimes[k] \in Int
  BY RegistryAssumption DEF RInv, IInv, RegistryTypes, Times
<1>2. ASSUME NEW k \in ks \ astray, NEW l \in Held(tools) \ ks, <<l, k>> \in before
      PROVE  FALSE
  <2>1. l \in DOMAIN accessTimes \ ks
    BY DEF RInv, IInv, IndexesAgree
  <2>2. accessTimes[l] < accessTimes[k]
    BY <1>2, <2>1 DEF RInv, TimesFollowUse
  <2>3. accessTimes[k] <= accessTimes[l]
    BY <2>1
  <2> QED BY <1>1, <2>1, <2>2, <2>3
<1> QED BY <1>2 DEF Recency!InTurn

(* The instance counts a set as this module does.                           *)
LEMMA SameCount == \A S : Recency!Cardinality(S) = Cardinality(S)
BY DEF Recency!Cardinality, Cardinality

(* What registering does to what is held.                                   *)
LEMMA RegisterHolds ==
  ASSUME IInv, NEW k \in Keys, NEW victims, NEW ts,
         ts = WithoutTools(tools, victims),
         tools' = [n \in DOMAIN ts \cup {k[1]} |->
                    (IF n \in DOMAIN ts THEN ts[n] ELSE {})
                      \cup (IF n = k[1] THEN {k[2]} ELSE {})]
  PROVE  Held(tools') = (Held(tools) \ victims) \cup {k}
<1>1. Held(ts) = Held(tools) \ victims
  BY WithoutToolsHeld DEF IInv, RegistryTypes
<1>2. ASSUME NEW l \in Keys PROVE l \in Held(tools') <=> l \in Held(ts) \cup {k}
  <2>1. l = k <=> l[1] = k[1] /\ l[2] = k[2]
    BY DEF Keys
  <2>2. l \in Held(tools') <=> l[1] \in DOMAIN tools' /\ l[2] \in tools'[l[1]]
    BY DEF Held
  <2>3. l \in Held(ts) <=> l[1] \in DOMAIN ts /\ l[2] \in ts[l[1]]
    BY DEF Held
  <2>4. /\ DOMAIN tools' = DOMAIN ts \cup {k[1]}
        /\ \A n \in DOMAIN tools' :
             tools'[n] = (IF n \in DOMAIN ts THEN ts[n] ELSE {})
                           \cup (IF n = k[1] THEN {k[2]} ELSE {})
    OBVIOUS
  <2> QED BY <2>1, <2>2, <2>3, <2>4
<1>3. Held(tools') = Held(ts) \cup {k}
  BY <1>2 DEF Held
<1> QED BY <1>1, <1>3

LEMMA RegisterUses ==
  ASSUME RInv, NEW k \in Keys, Register(k)
  PROVE  Recency!Register(k) /\ TimesFollowUse'
<1>1. IInv /\ IndexesAgree
  BY DEF RInv, IInv
<1>2. PICK now \in Times, victims \in Victims :
        /\ LET ts == WithoutTools(tools, victims)
           IN tools' = [n \in DOMAIN ts \cup {k[1]} |->
                          (IF n \in DOMAIN ts THEN ts[n] ELSE {})
                            \cup (IF n = k[1] THEN {k[2]} ELSE {})]
        /\ accessTimes' = Stamped(WithoutTimes(accessTimes, victims), k, now)
        /\ UsedLast(k, Held(tools) \ victims, now)
  BY DEF Register
<1> DEFINE ks == Held(tools) \ victims
<1>3. Held(tools') = ks \cup {k}
  BY <1>1, <1>2, RegisterHolds
<1>4. /\ DOMAIN accessTimes' = ks \cup {k}
      /\ accessTimes'[k] = now
      /\ \A l \in ks \ {k} : accessTimes'[l] = accessTimes[l]
  BY <1>1, <1>2 DEF Stamped, WithoutTimes, IndexesAgree
<1>5. Recency!Use(k, ks) /\ TimesFollowUse'
  BY <1>2, <1>3, <1>4, UseComesLast
<1>6. Cardinality(Held(tools)) \in Nat
  BY <1>1, FS_CardinalityType DEF IInv
<1>7. CASE Cardinality(Held(tools)) < MaxEntries
  <2>1. ks = Held(tools)
    BY <1>2, <1>7 DEF Victims
  <2> QED BY <1>5, <1>7, <2>1, SameCount DEF Recency!Register
<1>8. CASE ~(Cardinality(Held(tools)) < MaxEntries)
  <2>1. accessTimes # <<>>
    BY <1>1, <1>8, FS_EmptySet, RegistryAssumption DEF IndexesAgree
  <2>2. PICK o \in Oldest(accessTimes) : victims = {o} \cap Held(tools)
    BY <1>2, <1>8, <2>1 DEF Victims
  <2>3. o \in Held(tools) /\ victims = {o}
    BY <1>1, <2>2 DEF Oldest, IndexesAgree
  <2>4. Recency!InTurn({o})
    BY <1>1, <2>2, OlderGoInTurn DEF Oldest
  <2>5. Cardinality(Held(tools)) >= MaxEntries
    BY <1>6, <1>8, RegistryAssumption
  <2> QED BY <1>5, <2>3, <2>4, <2>5, SameCount DEF Recency!Register
<1> QED BY <1>7, <1>8

LEMMA GetUses ==
  ASSUME RInv, NEW k \in Keys, Get(k)
  PROVE  Recency!Get(k) /\ TimesFollowUse'
<1>1. PICK now \in Times : Touch(k, now) /\ UsedLast(k, Held(tools), now)
  BY DEF Get
<1>2. k \in Held(tools) /\ Held(tools') = Held(tools) \cup {k}
  BY DEF Get
<1>3. /\ DOMAIN accessTimes' = Held(tools) \cup {k}
      /\ accessTimes'[k] = now
      /\ \A l \in Held(tools) \ {k} : accessTimes'[l] = accessTimes[l]
  BY <1>1 DEF Touch, Stamped, RInv, IInv, IndexesAgree
<1>4. Recency!Use(k, Held(tools)) /\ TimesFollowUse'
  BY <1>1, <1>2, <1>3, UseComesLast
<1> QED BY <1>2, <1>4 DEF Recency!Get

LEMMA StepFollowsList ==
  ASSUME RInv, [RegistryNext]_registryVars
  PROVE  TimesFollowUse' /\ [Recency!Next]_Recency!vars
<1>1. RegistryTypes /\ IndexesAgree
  BY DEF RInv, IInv
<1>2. ASSUME NEW k \in Keys, Register(k) PROVE TimesFollowUse' /\ Recency!Next
  BY <1>2, RegisterUses DEF Recency!Next
<1>3. ASSUME NEW k \in Keys, Get(k) PROVE TimesFollowUse' /\ Recency!Next
  BY <1>3, GetUses DEF Recency!Next
<1>4. ASSUME NEW n \in Names, GetLatest(n) PROVE TimesFollowUse' /\ Recency!Next
  <2>1. Get(<<n, Max(tools[n])>>) /\ <<n, Max(tools[n])>> \in Keys
    BY <1>4 DEF GetLatest, Get, Held
  <2> QED BY <1>3, <2>1
<1>5. ASSUME NEW ks, Unregister(ks) PROVE TimesFollowUse' /\ Recency!Next
  <2>1. ks \in SUBSET Keys
    BY <1>5 DEF Unregister, Held
  <2>2. Recency!Keep(Held(tools) \ ks) /\ TimesFollowUse'
    BY <1>5, RemovalKeepsOrder DEF Unregister
  <2> QED BY <2>1, <2>2 DEF Recency!Next, Recency!Unregister
<1>6. CASE Clear
  <2>1. DOMAIN tools' = {} /\ Held(tools') = {} /\ DOMAIN accessTimes' = {}
    BY <1>6 DEF Clear, Held
  <2>2. before' = {} /\ astray' = {} /\ latest' = latest
    BY <1>6 DEF Clear, Gone, RInv, TimesFollowUse
  <2>3. Held(tools) \ Keys = {}
    BY DEF Held
  <2>4. Recency!Unregister(Keys)
    BY <2>1, <2>2, <2>3 DEF Recency!Unregister, Recency!Keep
  <2>5. TimesFollowUse'
    BY <2>1, <2>2 DEF TimesFollowUse
  <2> QED BY <2>4, <2>5 DEF Recency!Next
<1>7. ASSUME NEW age \in 0 .. MaxClock, CleanupExpired(age)
      PROVE  TimesFollowUse' /\ Recency!Next
  <2>1. PICK now \in Times, ks \in SUBSET Held(tools) :
          /\ ks = {k \in DOMAIN accessTimes : accessTimes[k] < now - age} \cap Held(tools)
          /\ tools' = WithoutTools(tools, ks)
          /\ accessTimes' = WithoutTimes(accessTimes, ks)
          /\ Gone(ks)
    BY <1>7 DEF CleanupExpired
  <2>2. now \in Int /\ age \in Int /\ \A k \in DOMAIN accessTimes : accessTimes[k] \in Int
    BY <1>1, <1>7, RegistryAssumption DEF RegistryTypes, Times
  <2>3. \A k \in ks, l \in DOMAIN accessTimes \ ks : accessTimes[k] <= accessTimes[l]
    BY <1>1, <2>1, <2>2 DEF IndexesAgree
  <2>4. ks \in SUBSET DOMAIN accessTimes /\ ks \in SUBSET Held(tools)
    BY <2>1
  <2>5. Recency!InTurn(ks)
    BY <2>3, <2>4, OlderGoInTurn
  <2>6. Recency!Keep(Held(tools) \ ks) /\ TimesFollowUse'
    BY <2>1, RemovalKeepsOrder
  <2> QED BY <2>4, <2>5, <2>6 DEF Recency!Next, Recency!Expire
<1>8. CASE Look \/ UNCHANGED registryVars
  <2>1. UNCHANGED registryVars
    BY <1>8 DEF Look
  <2> QED BY <2>1 DEF registryVars, history, RInv, TimesFollowUse, Recency!vars, Held
<1>9. CASE RegistryNext
  BY <1>2, <1>3, <1>4, <1>5, <1>6, <1>7, <1>8, <1>9 DEF RegistryNext
<1> QED BY <1>8, <1>9

(* The registry implements the recency list: what is evicted or expires was *)
(* used before all that stays, but for a use at which the clock stood still *)
(* or was set back, whatever is registered, read, unregistered and expires. *)
THEOREM RegistryIsRecencyList == RegistrySpec => KeepsRecencyOrder
<1>1. RegistryInit => RInv /\ Recency!Init
  <2> SUFFICES ASSUME RegistryInit PROVE RInv /\ Recency!Init
    OBVIOUS
  <2>1. DOMAIN tools = {} /\ DOMAIN accessTimes = {} /\ Held(tools) = {}
    BY DEF RegistryInit, Held
  <2>2. before = {} /\ astray = {} /\ latest = 0
    BY DEF RegistryInit
  <2> QED BY <2>1, <2>2, InitIInv DEF RInv, TimesFollowUse, Recency!Init
<1>2. RInv /\ [RegistryNext]_registryVars => RInv' /\ [Recency!Next]_Recency!vars
  BY NextIInv, StepFollowsList DEF RInv
<1> QED BY <1>1, <1>2, PTL DEF RegistrySpec, KeepsRecencyOrder, Recency!Spec
================================================================================
