--------------------------- MODULE CodexSendProofs ----------------------------
(***************************************************************************)
(* Proofs about the host registry and the messages that use it, for any    *)
(* number of publishers, tasks, launches, records and replacements.        *)
(***************************************************************************)
EXTENDS CodexSend, SequenceTheorems, TLAPS

\* Who publishes holds the lock, and has read the registry as it is.
LockIsExclusive ==
    \A p \in Publisher : draft[p] # NoDraft =>
        /\ draft[p].prior = registry
        /\ \A q \in Publisher : draft[q] # NoDraft => q = p

\* Every record that was published has a last publication.
Latest(records, host, i) ==
    /\ i \in 1..Len(records) /\ records[i] = host
    /\ \A j \in 1..Len(records) : records[j] = host => j <= i
EachHasLatest ==
    \A j \in 1..Len(published) : \E i \in 1..Len(published) : Latest(published, published[j], i)

\* The registry: its records are published ones, latest first; the latest of all
\* is among them; what is not among them is older.
Published(host) == \E j \in 1..Len(published) : published[j] = host
Registered(host) == \E i \in 1..Len(registry) : registry[i] = host
RecordsArePublished == \A i \in 1..Len(registry) : Published(registry[i])
LatestFirst ==
    \A i, j \in 1..Len(registry) : i < j => LastPublished(registry[i]) > LastPublished(registry[j])
HeadIsLatest ==
    Len(published) > 0 => Len(registry) > 0 /\ registry[1] = published[Len(published)]
ForgottenAreOlder ==
    \A host : Published(host) /\ ~Registered(host) =>
        \A i \in 1..Len(registry) : LastPublished(host) < LastPublished(registry[i])

RegistryInv ==
    /\ LockIsExclusive /\ EachHasLatest /\ RecordsArePublished
    /\ LatestFirst /\ HeadIsLatest /\ ForgottenAreOlder

------------------------------------------------------------------------------
(***************************************************************************)
(* The operators of the registry.                                          *)
(***************************************************************************)
LEMMA HostsAreSequences ==
  ASSUME NEW s
  PROVE  s \in Hosts <=> s \in Seq(Host) /\ Len(s) <= MaxHosts
<1>1. ASSUME s \in Hosts PROVE s \in Seq(Host) /\ Len(s) <= MaxHosts
  BY <1>1, BoundsAssumption DEF Hosts, BoundedSeq, SeqOf
<1>2. ASSUME s \in Seq(Host), Len(s) <= MaxHosts PROVE s \in Hosts
  BY <1>2, BoundsAssumption DEF Hosts, BoundedSeq, SeqOf
<1> QED
  BY <1>1, <1>2

\* A record that is there is left out, the others stay as they are.
CutsOut(records, host, rest, cut) ==
    /\ Len(rest) = IF cut <= Len(records) THEN Len(records) - 1 ELSE Len(records)
    /\ cut <= Len(records) => records[cut] = host
    /\ cut = Len(records) + 1 => \A i \in 1..Len(records) : records[i] # host
    /\ \A i \in 1..Len(rest) : rest[i] = IF i < cut THEN records[i] ELSE records[i + 1]

LEMMA WithoutOne ==
  ASSUME NEW records \in Seq(Host), NEW host, NEW rest, rest = Without(records, host)
  PROVE  /\ rest \in Seq(Host)
         /\ \E cut \in 1..(Len(records) + 1) : CutsOut(records, host, rest, cut)
<1>1. DOMAIN records = 1..Len(records) /\ Len(records) \in Nat
  BY LenProperties
<1>2. CASE host \notin ToSet(records)
  <2>1. rest = records
    BY <1>2 DEF Without
  <2> HIDE DEF Without
  <2>2. \A i \in 1..Len(records) : records[i] # host
    BY <1>1, <1>2 DEF ToSet
  <2>3. CutsOut(records, host, records, Len(records) + 1)
    <3>1. PICK n \in Nat : n = Len(records)
      BY <1>1
    <3>2. /\ ~(n + 1 <= n) /\ \A i \in 1..n : i < n + 1
          /\ \A i \in 1..n : records[i] # host
      BY <2>2, <3>1
    <3> QED
      BY <3>1, <3>2 DEF CutsOut
  <2> QED
    BY <1>1, <2>1, <2>3
<1>3. CASE host \in ToSet(records)
  <2>1. PICK cut \in 1..Len(records) : records[cut] = host /\ rest = RemoveAt(records, cut)
    <3>1. \E i \in DOMAIN records : records[i] = host
      BY <1>3 DEF ToSet
    <3>2. PICK cut : cut = CHOOSE i \in DOMAIN records : records[i] = host
      OBVIOUS
    <3>3. cut \in DOMAIN records /\ records[cut] = host
      BY <3>1, <3>2
    <3>4. rest = RemoveAt(records, cut)
      BY <1>3, <3>2 DEF Without
    <3> QED
      BY <1>1, <3>3, <3>4
  <2> DEFINE left == SubSeq(records, 1, cut - 1)
             right == SubSeq(records, cut + 1, Len(records))
  <2>2. rest = left \o right
    BY <2>1 DEF RemoveAt
  <2>3. \A i \in 1..Len(records) : records[i] \in Host
    BY ElementOfSeq
  <2>4. /\ left \in Seq(Host) /\ Len(left) = cut - 1
        /\ \A i \in 1..(cut - 1) : left[i] = records[i]
    <3>1. \A i \in 1..(cut - 1) : records[i] \in Host
      BY <1>1, <2>3
    <3>2. /\ SubSeq(records, 1, cut - 1) \in Seq(Host)
          /\ Len(SubSeq(records, 1, cut - 1)) = IF 1 <= cut - 1 THEN cut - 1 - 1 + 1 ELSE 0
          /\ \A i \in 1..(cut - 1 - 1 + 1) : SubSeq(records, 1, cut - 1)[i] = records[1 + i - 1]
      BY <3>1, SubSeqProperties
    <3> QED
      BY <1>1, <3>2
  <2>5. /\ right \in Seq(Host) /\ Len(right) = Len(records) - cut
        /\ \A i \in 1..(Len(records) - cut) : right[i] = records[cut + i]
    <3>1. \A i \in (cut + 1)..Len(records) : records[i] \in Host
      BY <1>1, <2>3
    <3>2. /\ SubSeq(records, cut + 1, Len(records)) \in Seq(Host)
          /\ Len(SubSeq(records, cut + 1, Len(records))) =
               IF cut + 1 <= Len(records) THEN Len(records) - (cut + 1) + 1 ELSE 0
          /\ \A i \in 1..(Len(records) - (cut + 1) + 1) :
                SubSeq(records, cut + 1, Len(records))[i] = records[cut + 1 + i - 1]
      BY <1>1, <3>1, SubSeqProperties
    <3>3. right \in Seq(Host)
      BY <3>2
    <3>4. Len(right) = Len(records) - cut
      <4> HIDE DEF right
      <4>1. PICK n \in Nat : n = Len(records)
        BY <1>1
      <4> DEFINE m == Len(right)
      <4>2. m = IF cut + 1 <= n THEN n - (cut + 1) + 1 ELSE 0
        BY <3>2, <4>1 DEF right
      <4> HIDE DEF m
      <4>3. cut \in 1..n
        BY <2>1, <4>1
      <4>4. m = n - cut
        BY <4>1, <4>2, <4>3
      <4> QED
        BY <4>1, <4>4 DEF m
    <3>5. ASSUME NEW i \in 1..(Len(records) - cut) PROVE right[i] = records[cut + i]
      <4>1. i \in 1..(Len(records) - (cut + 1) + 1) /\ cut + 1 + i - 1 = cut + i
        BY <1>1, <2>1
      <4> QED
        BY <3>2, <4>1
    <3> HIDE DEF right
    <3> QED
      BY <3>3, <3>4, <3>5
  <2> HIDE DEF left, right
  <2>6. /\ rest \in Seq(Host) /\ Len(rest) = Len(left) + Len(right)
        /\ \A i \in 1..(Len(left) + Len(right)) :
              rest[i] = IF i <= Len(left) THEN left[i] ELSE right[i - Len(left)]
    <3>1. left \in Seq(Host) /\ right \in Seq(Host)
      BY <2>4, <2>5
    <3> QED
      BY <2>2, <3>1, ConcatProperties
  <2>7. Len(rest) = Len(records) - 1
    BY <1>1, <2>4, <2>5, <2>6
  <2>8. ASSUME NEW i \in 1..Len(rest)
        PROVE  rest[i] = IF i < cut THEN records[i] ELSE records[i + 1]
    <3>1. CASE i < cut
      BY <1>1, <2>4, <2>5, <2>6, <3>1
    <3>2. CASE i >= cut
      <4>1. rest[i] = right[i - (cut - 1)]
        BY <1>1, <2>4, <2>5, <2>6, <3>2
      <4>2. right[i - (cut - 1)] = records[cut + (i - (cut - 1))]
        BY <1>1, <2>5, <2>7, <3>2
      <4>3. cut + (i - (cut - 1)) = i + 1
        BY <1>1
      <4> QED
        BY <1>1, <3>2, <4>1, <4>2, <4>3
    <3> QED
      BY <1>1, <3>1, <3>2
  <2>9. CutsOut(records, host, rest, cut)
    BY <1>1, <2>1, <2>7, <2>8 DEF CutsOut
  <2> QED
    BY <1>1, <2>1, <2>6, <2>9
<1> QED
  BY <1>2, <1>3

\* What a publisher writes: its own record, and behind it the others in their
\* order, as many as fit.
Place(i, cut) == IF i <= cut THEN i - 1 ELSE i

LEMMA CutsKeepOrder ==
  ASSUME NEW records \in Seq(Host), NEW host \in Host, NEW d, d.host = host, d.prior = records,
         NEW new \in Cuts(Candidates(d))
  PROVE  /\ new \in Hosts /\ Len(new) >= 1 /\ new[1] = host
         /\ \E cut \in 1..(Len(records) + 1) :
               /\ cut <= Len(records) => records[cut] = host
               /\ cut = Len(records) + 1 => \A i \in 1..Len(records) : records[i] # host
               /\ \A i \in 2..Len(new) :
                     /\ Place(i, cut) \in 1..Len(records) /\ Place(i, cut) # cut
                     /\ new[i] = records[Place(i, cut)]
<1> DEFINE rest == Without(records, host)
           all == <<host>> \o rest
<1>1. rest \in Seq(Host) /\ \E cut \in 1..(Len(records) + 1) : CutsOut(records, host, rest, cut)
  BY WithoutOne
<1>2. PICK cut \in 1..(Len(records) + 1) : CutsOut(records, host, rest, cut)
  BY <1>1
<1> HIDE DEF rest
<1>3. PICK r \in Nat, l \in Nat : r = Len(rest) /\ l = Len(records)
  BY <1>1, LenProperties
<1>4. all \in Seq(Host) /\ Len(all) = r + 1 /\ all[1] = host /\ \A i \in 1..r : all[i + 1] = rest[i]
  <2>1. <<host>> \in Seq(Host) /\ Len(<<host>>) = 1 /\ <<host>>[1] = host
    OBVIOUS
  <2>2. /\ all \in Seq(Host) /\ Len(all) = Len(<<host>>) + Len(rest)
        /\ \A i \in 1..(Len(<<host>>) + Len(rest)) :
              all[i] = IF i <= Len(<<host>>) THEN <<host>>[i] ELSE rest[i - Len(<<host>>)]
    BY <1>1, <2>1, ConcatProperties
  <2> HIDE DEF all
  <2>3. \A i \in 1..(1 + r) : all[i] = IF i <= 1 THEN <<host>>[i] ELSE rest[i - 1]
    BY <1>3, <2>1, <2>2
  <2>4. all[1] = host
    BY <2>1, <2>3
  <2>5. ASSUME NEW i \in 1..r PROVE all[i + 1] = rest[i]
    <3>1. i + 1 \in 1..(1 + r) /\ ~(i + 1 <= 1) /\ (i + 1) - 1 = i
      OBVIOUS
    <3> QED
      BY <2>3, <3>1
  <2> QED
    BY <1>3, <2>1, <2>2, <2>4, <2>5
<1>5. PICK n : /\ n \in 1..(IF Len(all) < MaxHosts THEN Len(all) ELSE MaxHosts)
               /\ new = SubSeq(all, 1, n)
  BY DEF Cuts, Candidates, rest
<1> HIDE DEF all
<1>6. n \in 1..(r + 1) /\ n <= MaxHosts
  BY <1>4, <1>5, BoundsAssumption
<1>7. new \in Seq(Host) /\ Len(new) = n /\ \A i \in 1..n : new[i] = all[i]
  <2>1. \A i \in 1..n : all[i] \in Host
    <3>1. \A i \in 1..n : i \in 1..Len(all)
      BY <1>4, <1>6
    <3> QED
      BY <1>4, <3>1, ElementOfSeq
  <2>2. /\ SubSeq(all, 1, n) \in Seq(Host)
        /\ Len(SubSeq(all, 1, n)) = IF 1 <= n THEN n - 1 + 1 ELSE 0
        /\ \A i \in 1..(n - 1 + 1) : SubSeq(all, 1, n)[i] = all[1 + i - 1]
    BY <1>6, <2>1, SubSeqProperties
  <2>3. n - 1 + 1 = n /\ 1 <= n /\ \A i \in 1..n : 1 + i - 1 = i
    BY <1>6
  <2> QED
    BY <1>5, <2>2, <2>3
<1>8. new \in Hosts /\ Len(new) >= 1 /\ new[1] = host
  BY <1>4, <1>6, <1>7, HostsAreSequences
<1>9. ASSUME NEW i \in 2..Len(new)
      PROVE  /\ Place(i, cut) \in 1..Len(records) /\ Place(i, cut) # cut
             /\ new[i] = records[Place(i, cut)]
  <2>1. PICK j \in 1..r : i = j + 1
    <3>1. i - 1 \in 1..r /\ i = (i - 1) + 1
      BY <1>6, <1>7
    <3> QED BY <3>1
  <2>2. new[i] = rest[j]
    BY <1>4, <1>6, <1>7, <2>1
  <2>3. rest[j] = IF j < cut THEN records[j] ELSE records[j + 1]
    BY <1>2, <1>3, <2>1 DEF CutsOut
  <2>4. r = IF cut <= l THEN l - 1 ELSE l
    BY <1>2, <1>3 DEF CutsOut
  <2>5. cut \in 1..(l + 1)
    BY <1>2, <1>3
  <2>6. Place(i, cut) = IF j < cut THEN j ELSE j + 1
    BY <2>1, <2>5 DEF Place
  <2>7. Place(i, cut) \in 1..l /\ Place(i, cut) # cut
    BY <2>1, <2>4, <2>5, <2>6
  <2> QED
    BY <1>3, <2>2, <2>3, <2>6, <2>7
<1> QED
  BY <1>2, <1>8, <1>9 DEF CutsOut

\* The last publication of a record, before and after another one.
LEMMA LastIsLatest ==
  ASSUME NEW records \in Seq(Host), NEW host, NEW i, Latest(records, host, i)
  PROVE  Max({j \in DOMAIN records : records[j] = host} \cup {0}) = i
<1> DEFINE when == {j \in DOMAIN records : records[j] = host} \cup {0}
<1>1. DOMAIN records = 1..Len(records) /\ Len(records) \in Nat
  BY LenProperties
<1>2. i \in when /\ \A j \in when : j \in Nat /\ i >= j
  BY <1>1 DEF Latest
<1> HIDE DEF when
<1>3. PICK m : m = CHOOSE x \in when : \A y \in when : x >= y
  OBVIOUS
<1>4. m \in when /\ \A y \in when : m >= y
  BY <1>2, <1>3
<1>5. m = i
  BY <1>2, <1>4
<1> QED
  BY <1>3, <1>5 DEF Max, when

LEMMA PublicationsGrow ==
  ASSUME published \in Seq(Host), EachHasLatest, NEW host \in Host,
         published' = Append(published, host)
  PROVE  /\ EachHasLatest' /\ Len(published') = Len(published) + 1
         /\ published'[Len(published) + 1] = host
         /\ LastPublished(host)' = Len(published) + 1
         /\ \A other : Published(other)' <=> Published(other) \/ other = host
         /\ \A other : Published(other) =>
               /\ LastPublished(other) \in 1..Len(published)
               /\ other # host => LastPublished(other)' = LastPublished(other)
<1>1. PICK n \in Nat : n = Len(published)
  BY LenProperties
<1>2. /\ published' \in Seq(Host) /\ Len(published') = n + 1 /\ published'[n + 1] = host
      /\ \A i \in 1..n : published'[i] = published[i]
  BY <1>1
<1>3. Latest(published', host, n + 1)
  BY <1>1, <1>2 DEF Latest
<1>4. ASSUME NEW other, Published(other)
      PROVE  \E i \in 1..n : Latest(published, other, i) /\ (other # host => Latest(published', other, i))
  <2>1. PICK i \in 1..n : Latest(published, other, i)
    BY <1>1, <1>4 DEF Published, EachHasLatest
  <2>2. other # host => Latest(published', other, i)
    BY <1>1, <1>2, <2>1 DEF Latest
  <2> QED
    BY <2>1, <2>2
<1>5. LastPublished(host)' = n + 1
  BY <1>2, <1>3, LastIsLatest DEF LastPublished
<1>6. ASSUME NEW other, Published(other)
      PROVE  /\ LastPublished(other) \in 1..n
             /\ other # host => LastPublished(other)' = LastPublished(other)
  <2>1. PICK i \in 1..n :
          Latest(published, other, i) /\ (other # host => Latest(published', other, i))
    BY <1>4, <1>6
  <2> QED
    BY <1>2, <2>1, LastIsLatest DEF LastPublished
<1>7. ASSUME NEW other PROVE Published(other)' <=> Published(other) \/ other = host
  BY <1>1, <1>2 DEF Published
<1>8. EachHasLatest'
  <2> SUFFICES ASSUME NEW j \in 1..(n + 1)
               PROVE  \E i \in 1..(n + 1) : Latest(published', published'[j], i)
    BY <1>2 DEF EachHasLatest
  <2>1. CASE published'[j] = host
    BY <1>3, <2>1
  <2>2. CASE published'[j] # host
    <3>1. PICK other : other = published'[j]
      OBVIOUS
    <3>2. Published(other) /\ other # host
      BY <1>1, <1>2, <2>2, <3>1 DEF Published
    <3>3. PICK i \in 1..n : Latest(published', other, i)
      BY <1>4, <3>2
    <3> QED
      BY <1>1, <3>1, <3>3
  <2> QED
    BY <2>1, <2>2
<1> QED
  BY <1>1, <1>2, <1>5, <1>6, <1>7, <1>8

------------------------------------------------------------------------------
(***************************************************************************)
(* The registry: type correctness and its invariant.                       *)
(***************************************************************************)
LEMMA RegistryTypeStep ==
  ASSUME RegistryTypeOK, [RegistryNext]_registryVars
  PROVE  RegistryTypeOK'
<1> USE BoundsAssumption, NoDraftAssumption DEF RegistryTypeOK
<1>1. CASE UNCHANGED registryVars
  BY <1>1 DEF registryVars
<1>2. CASE Launch \/ Quit
  <2>1. /\ launched' \in 0..MaxLaunches /\ running' \subseteq 1..launched'
        /\ UNCHANGED <<draft, registry, published>>
    <3>1. CASE Launch
      BY <1>2, <3>1 DEF Launch
    <3>2. CASE Quit
      BY <1>2, <3>2 DEF Quit
    <3> QED
      BY <1>2, <3>1, <3>2
  <2> QED
    BY <2>1
<1>3. ASSUME NEW p \in Publisher, PublishBegin(p) PROVE RegistryTypeOK'
  <2>1. PICK l \in 1..launched, t \in Task :
          draft' = [draft EXCEPT ![p] = [host |-> [pipe |-> l, task |-> t], prior |-> registry]]
    BY <1>3 DEF PublishBegin
  <2>2. [pipe |-> l, task |-> t] \in Host
    BY <2>1 DEF Host
  <2>3. [host |-> [pipe |-> l, task |-> t], prior |-> registry] \in Draft
    BY <2>2 DEF Draft
  <2> QED
    BY <1>3, <2>1, <2>3 DEF PublishBegin
<1>4. ASSUME NEW p \in Publisher, PublishReplace(p) PROVE RegistryTypeOK'
  <2>1. draft[p] \in Draft
    BY <1>4 DEF PublishReplace
  <2>2. draft[p].host \in Host /\ draft[p].prior \in Seq(Host)
    BY <2>1, HostsAreSequences DEF Draft
  <2>3. registry' \in Hosts
    BY <1>4, <2>2, CutsKeepOrder DEF PublishReplace
  <2>4. published' \in Seq(Host) /\ Len(published') <= MaxPublished
    BY <1>4, <2>2 DEF PublishReplace
  <2> QED
    BY <1>4, <2>3, <2>4 DEF PublishReplace
<1>5. ASSUME NEW p \in Publisher, PublishFails(p) PROVE RegistryTypeOK'
  BY <1>5 DEF PublishFails
<1> QED
  BY <1>1, <1>2, <1>3, <1>4, <1>5 DEF RegistryNext

\* A replacement keeps the registry recent.
LEMMA ReplaceKeepsRecent ==
  ASSUME RegistryTypeOK, RegistryInv, NEW p \in Publisher, PublishReplace(p)
  PROVE  /\ EachHasLatest' /\ RecordsArePublished' /\ LatestFirst'
         /\ HeadIsLatest' /\ ForgottenAreOlder'
<1>1. PICK host \in Host : draft[p].host = host /\ draft[p].prior = registry
  BY DEF PublishReplace, RegistryTypeOK, RegistryInv, LockIsExclusive, Draft
<1>2. registry \in Seq(Host) /\ published \in Seq(Host) /\ published' = Append(published, host)
  BY <1>1, HostsAreSequences DEF RegistryTypeOK, PublishReplace
<1>3. PICK l \in Nat, n \in Nat : l = Len(registry) /\ n = Len(published)
  BY <1>2, LenProperties
<1>4. /\ Len(published') = n + 1 /\ published'[n + 1] = host /\ EachHasLatest'
      /\ LastPublished(host)' = n + 1
      /\ \A other : Published(other)' <=> Published(other) \/ other = host
      /\ \A other : Published(other) =>
            /\ LastPublished(other) \in 1..n
            /\ other # host => LastPublished(other)' = LastPublished(other)
  BY <1>2, <1>3, PublicationsGrow DEF RegistryInv
<1>5. registry' \in Cuts(Candidates(draft[p]))
  BY DEF PublishReplace
<1>6. /\ registry' \in Hosts /\ Len(registry') >= 1 /\ registry'[1] = host
      /\ \E cut \in 1..(l + 1) :
            /\ cut <= l => registry[cut] = host
            /\ cut = l + 1 => \A i \in 1..l : registry[i] # host
            /\ \A i \in 2..Len(registry') :
                  /\ Place(i, cut) \in 1..l /\ Place(i, cut) # cut
                  /\ registry'[i] = registry[Place(i, cut)]
  BY <1>1, <1>2, <1>3, <1>5, CutsKeepOrder
<1>7. PICK cut \in 1..(l + 1) :
        /\ cut <= l => registry[cut] = host
        /\ cut = l + 1 => \A i \in 1..l : registry[i] # host
        /\ \A i \in 2..Len(registry') :
              /\ Place(i, cut) \in 1..l /\ Place(i, cut) # cut
              /\ registry'[i] = registry[Place(i, cut)]
  BY <1>6
<1>8. PICK m \in Nat : m = Len(registry')
  BY <1>6, HostsAreSequences, LenProperties
\* The records are distinct, as they were published at different times.
<1>9. /\ \A i, j \in 1..l : i < j => LastPublished(registry[i]) > LastPublished(registry[j])
      /\ \A i \in 1..l : Published(registry[i]) /\ LastPublished(registry[i]) \in 1..n
  BY <1>3, <1>4 DEF RegistryInv, LatestFirst, RecordsArePublished
<1>10. \A i \in 1..l : i # cut => registry[i] # host
  <2> SUFFICES ASSUME NEW i \in 1..l, i # cut, registry[i] = host PROVE FALSE
    OBVIOUS
  <2>1. cut \in 1..l /\ registry[cut] = host
    BY <1>7
  <2> QED
    BY <1>9, <2>1
<1>11. ASSUME NEW i \in 2..m
       PROVE  /\ registry'[i] = registry[Place(i, cut)] /\ Place(i, cut) \in 1..l /\ registry'[i] # host
              /\ LastPublished(registry[i])' = LastPublished(registry[Place(i, cut)])
              /\ LastPublished(registry[Place(i, cut)]) \in 1..n
  BY <1>4, <1>7, <1>8, <1>9, <1>10
<1>12. RecordsArePublished'
  <2> SUFFICES ASSUME NEW i \in 1..m PROVE Published(registry[i])'
    BY <1>8 DEF RecordsArePublished
  <2>1. CASE i = 1
    BY <1>4, <1>6, <2>1
  <2>2. CASE i \in 2..m
    BY <1>4, <1>9, <1>11, <2>2
  <2> QED
    BY <2>1, <2>2
<1>13. LatestFirst'
  <2> SUFFICES ASSUME NEW i \in 1..m, NEW j \in 1..m, i < j
               PROVE  LastPublished(registry[i])' > LastPublished(registry[j])'
    BY <1>8 DEF LatestFirst
  <2>1. j \in 2..m
    OBVIOUS
  <2>2. CASE i = 1
    BY <1>4, <1>6, <1>11, <2>1, <2>2
  <2>3. CASE i \in 2..m
    <3>1. Place(i, cut) < Place(j, cut)
      BY <2>3 DEF Place
    <3> QED
      BY <1>9, <1>11, <2>1, <2>3, <3>1
  <2> QED
    BY <2>2, <2>3
<1>14. HeadIsLatest'
  BY <1>4, <1>6, <1>8 DEF HeadIsLatest
<1>15. ForgottenAreOlder'
  <2> SUFFICES ASSUME NEW other, Published(other)', ~Registered(other)', NEW i \in 1..m
               PROVE  LastPublished(other)' < LastPublished(registry[i])'
    BY <1>8 DEF ForgottenAreOlder
  <2>1. other # host /\ Published(other)
    BY <1>4, <1>6, <1>8 DEF Registered
  <2>2. LastPublished(other)' = LastPublished(other) /\ LastPublished(other) \in 1..n
    BY <1>4, <2>1
  <2>3. CASE i = 1
    BY <1>4, <1>6, <2>2, <2>3
  <2>4. CASE i \in 2..m /\ ~Registered(other)
    <3>1. LastPublished(other) < LastPublished(registry[Place(i, cut)])
      BY <1>3, <1>11, <2>1, <2>4 DEF RegistryInv, ForgottenAreOlder
    <3> QED
      BY <1>11, <2>2, <2>4, <3>1
  <2>5. CASE i \in 2..m /\ Registered(other)
    <3>1. PICK a \in 1..l : registry[a] = other
      BY <1>3, <2>5 DEF Registered
    <3>2. a # cut
      BY <1>7, <2>1, <3>1
    <3>3. PICK b \in 2..(l + 1) : Place(b, cut) = a
      <4>1. CASE a < cut
        <5>1. a + 1 \in 2..(l + 1) /\ Place(a + 1, cut) = a
          BY <4>1 DEF Place
        <5> QED BY <5>1
      <4>2. CASE a > cut
        <5>1. a \in 2..(l + 1) /\ Place(a, cut) = a
          BY <4>2 DEF Place
        <5> QED BY <5>1
      <4> QED
        BY <3>2, <4>1, <4>2
    <3>4. b > m
      <4> SUFFICES ASSUME b \in 2..m PROVE FALSE
        BY <3>3
      <4>1. registry'[b] = other /\ b \in 1..m
        BY <1>11, <3>1, <3>3
      <4> QED
        BY <1>8, <4>1 DEF Registered
    <3>5. Place(i, cut) < a
      BY <2>5, <3>3, <3>4 DEF Place
    <3>6. LastPublished(registry[Place(i, cut)]) > LastPublished(registry[a])
      BY <1>9, <1>11, <2>5, <3>5
    <3> QED
      BY <1>11, <2>2, <2>5, <3>1, <3>6
  <2> QED
    BY <2>3, <2>4, <2>5
<1> QED
  BY <1>4, <1>12, <1>13, <1>14, <1>15

LEMMA RegistryInvStep ==
  ASSUME RegistryTypeOK, RegistryInv, [RegistryNext]_registryVars
  PROVE  RegistryInv'
<1> USE DEF RegistryInv
<1>1. ASSUME UNCHANGED <<registry, published>>
      PROVE  EachHasLatest' /\ RecordsArePublished' /\ LatestFirst' /\ HeadIsLatest' /\ ForgottenAreOlder'
  <2>1. /\ \A host : LastPublished(host)' = LastPublished(host)
        /\ \A host : (Published(host)' <=> Published(host)) /\ (Registered(host)' <=> Registered(host))
    BY <1>1 DEF Published, Registered, LastPublished
  <2>2. EachHasLatest' /\ HeadIsLatest'
    BY <1>1 DEF EachHasLatest, HeadIsLatest
  <2>3. RecordsArePublished' /\ LatestFirst' /\ ForgottenAreOlder'
    BY <1>1, <2>1 DEF RecordsArePublished, LatestFirst, ForgottenAreOlder
  <2> QED
    BY <2>2, <2>3
<1>2. CASE UNCHANGED registryVars \/ Launch \/ Quit
  BY <1>1, <1>2 DEF registryVars, Launch, Quit, LockIsExclusive
<1>3. ASSUME NEW p \in Publisher, PublishBegin(p) PROVE RegistryInv'
  <2>1. PICK l \in 1..launched, t \in Task :
          draft' = [draft EXCEPT ![p] = [host |-> [pipe |-> l, task |-> t], prior |-> registry]]
    BY <1>3 DEF PublishBegin
  <2>2. /\ \A q \in Publisher \ {p} : draft'[q] = NoDraft
        /\ draft'[p].prior = registry /\ UNCHANGED <<registry, published>>
    BY <1>3, <2>1 DEF PublishBegin, RegistryTypeOK
  <2>3. LockIsExclusive'
    BY <2>2 DEF LockIsExclusive
  <2> QED
    BY <1>1, <2>2, <2>3
<1>4. ASSUME NEW p \in Publisher, PublishReplace(p) \/ PublishFails(p)
      PROVE  LockIsExclusive'
  <2>1. draft[p] # NoDraft /\ draft' = [draft EXCEPT ![p] = NoDraft]
    BY <1>4 DEF PublishReplace, PublishFails
  <2>2. \A q \in Publisher : draft'[q] = NoDraft
    BY <2>1 DEF LockIsExclusive, RegistryTypeOK
  <2> QED
    BY <2>2 DEF LockIsExclusive
<1>5. ASSUME NEW p \in Publisher, PublishReplace(p) PROVE RegistryInv'
  BY <1>4, <1>5, ReplaceKeepsRecent
<1>6. ASSUME NEW p \in Publisher, PublishFails(p) PROVE RegistryInv'
  <2>1. LockIsExclusive' /\ UNCHANGED <<registry, published>>
    BY <1>4, <1>6 DEF PublishFails
  <2> QED
    BY <1>1, <2>1
<1> QED
  BY <1>2, <1>3, <1>5, <1>6 DEF RegistryNext

LEMMA RegistryEmpty == <<>> \in Hosts
<1>1. <<>> \in Seq(Host) /\ Len(<<>>) = 0
  BY EmptySeq
<1>2. PICK empty : empty = <<>>
  OBVIOUS
<1>3. empty \in Seq(Host) /\ Len(empty) <= MaxHosts
  BY <1>1, <1>2, BoundsAssumption
<1>4. empty \in Hosts
  BY <1>3, HostsAreSequences
<1> QED
  BY <1>2, <1>4

LEMMA RegistryStarts == RegistryInit => RegistryTypeOK /\ RegistryInv
<1> SUFFICES ASSUME RegistryInit PROVE RegistryTypeOK /\ RegistryInv
  OBVIOUS
<1>1. Len(registry) = 0 /\ Len(published) = 0
  BY DEF RegistryInit
<1>2. RegistryTypeOK
  <2>1. <<>> \in Seq(Host) /\ Len(<<>>) = 0
    BY EmptySeq
  <2>2. published \in Seq(Host) /\ Len(published) <= MaxPublished
    BY <1>1, <2>1, BoundsAssumption DEF RegistryInit
  <2>3. registry \in Hosts
    BY RegistryEmpty DEF RegistryInit
  <2>4. launched \in 0..MaxLaunches /\ running \subseteq 1..launched
    BY BoundsAssumption DEF RegistryInit
  <2>5. draft \in [Publisher -> Draft \cup {NoDraft}]
    BY DEF RegistryInit
  <2> QED
    BY <2>2, <2>3, <2>4, <2>5 DEF RegistryTypeOK
<1>3. RegistryInv
  BY <1>1 DEF RegistryInit, RegistryInv, LockIsExclusive, EachHasLatest, RecordsArePublished,
     LatestFirst, HeadIsLatest, ForgottenAreOlder, Published
<1> QED
  BY <1>2, <1>3

LEMMA InvariantIsRecent == RegistryTypeOK /\ RegistryInv => RegistryIsRecent
<1> SUFFICES ASSUME RegistryTypeOK, RegistryInv PROVE RegistryIsRecent
  OBVIOUS
<1>1. registry \in Seq(Host) /\ published \in Seq(Host)
  BY HostsAreSequences DEF RegistryTypeOK
<1>2. PICK l \in Nat, n \in Nat : l = Len(registry) /\ n = Len(published)
  BY <1>1, LenProperties
<1>3. DOMAIN registry = 1..l /\ DOMAIN published = 1..n
  BY <1>1, <1>2, LenProperties
<1>4. \A i, j \in DOMAIN registry : i < j => LastPublished(registry[i]) > LastPublished(registry[j])
  BY <1>2, <1>3 DEF RegistryInv, LatestFirst
<1>5. published # <<>> => registry # <<>> /\ Head(registry) = Last(published)
  <2> SUFFICES ASSUME published # <<>> PROVE registry # <<>> /\ Head(registry) = Last(published)
    OBVIOUS
  <2>1. n > 0
    BY <1>1, <1>2, EmptySeq
  <2>2. l > 0 /\ registry[1] = published[n]
    BY <1>2, <2>1 DEF RegistryInv, HeadIsLatest
  <2>3. registry # <<>>
    BY <1>2, <2>2
  <2> QED
    BY <1>1, <1>2, <2>2, <2>3 DEF Last
<1>6. ASSUME NEW host \in ToSet(published) \ ToSet(registry)
      PROVE  LastPublished(host) < LastPublished(Last(registry))
  <2>1. Published(host) /\ ~Registered(host)
    BY <1>2, <1>3 DEF ToSet, Published, Registered
  <2>2. n > 0
    BY <1>2, <2>1 DEF Published
  <2>3. l > 0
    BY <1>2, <2>2 DEF RegistryInv, HeadIsLatest
  <2>4. l \in 1..Len(registry) /\ Last(registry) = registry[l]
    BY <1>2, <2>3 DEF Last
  <2> QED
    BY <2>1, <2>4 DEF RegistryInv, ForgottenAreOlder
<1> QED
  BY <1>4, <1>5, <1>6 DEF RegistryIsRecent

------------------------------------------------------------------------------
(***************************************************************************)
(* A send: what is known at each step of it.                               *)
(***************************************************************************)
\* From the file on there are records to choose from.
HostsAreThere ==
    /\ at \in {"open", "verify"} => file > 0
    /\ at = "verify" => hosts # <<>>
    /\ at = "record" /\ transport # "ssh" => hosts # <<>>

\* Until the message is written nothing is made of it; afterwards a success was
\* taken, and what failed was refused or never written.
VerdictIsKept ==
    /\ verdict # "none" =>
          (at \in Message /\ wire = "written") \/ outcome \in {"submitted", "failed", "uncertain"}
    /\ outcome = "submitted" => verdict = "taken"
    /\ outcome = "failed" => verdict = "refused" \/ (verdict = "none" /\ wire # "written")
    /\ at = "done" /\ wire = "written" => outcome \in {"submitted", "failed", "uncertain"}
    /\ wire = "connecting" => at # "done"

SendInv == HostsAreThere /\ VerdictIsKept

Places == {"new", "stat", "open", "verify", "record"} \cup Requests

LEMMA GotoType ==
  ASSUME TypeOK, NEW place \in Places, at # "done", Goto(place)
  PROVE  /\ at' = place /\ wire' = "quiet" /\ outcome' = outcome
         /\ at' # "done" /\ outcome' = "none"
  BY DEF TypeOK, Goto, Places, Requests, Search, Local, Remote

LEMMA TailOfHosts == ASSUME NEW s \in Hosts, s # <<>> PROVE Tail(s) \in Hosts /\ (Len(s) > 1 => Tail(s) # <<>>)
<1>1. s \in Seq(Host) /\ Len(s) <= MaxHosts
  BY HostsAreSequences
<1>2. Tail(s) \in Seq(Host) /\ Len(Tail(s)) = Len(s) - 1 /\ Len(s) \in Nat /\ Len(s) > 0
  BY <1>1, HeadTailProperties, LenProperties, EmptySeq
<1>3. PICK t : t = Tail(s)
  OBVIOUS
<1>4. t \in Hosts
  <2>1. t \in Seq(Host) /\ Len(t) <= MaxHosts
    BY <1>1, <1>2, <1>3, BoundsAssumption
  <2> QED
    BY <2>1, HostsAreSequences
<1>5. Len(s) > 1 => t # <<>>
  BY <1>2, <1>3, EmptySeq, SMTT(20)
<1> QED
  BY <1>3, <1>4, <1>5

LEMMA SendStep ==
  ASSUME TypeOK, RegistryInv, SendInv, [Next]_vars
  PROVE  TypeOK' /\ RegistryInv' /\ SendInv'
<1> DEFINE Rest ==
        /\ transport' \in {"auto", "desktop", "terminal", "ssh"}
        /\ at' \in {"new", "stat", "open", "verify", "record", "done"} \cup Requests
        /\ wire' \in {"quiet", "connecting", "written"}
        /\ file' \in 0..MaxPublished
        /\ hosts' \in Hosts
        /\ at' \in Search \cup Local => hosts' # <<>>
        /\ verdict' \in {"none", "taken", "refused"}
        /\ outcome' \in {"none", "elsewhere", "rejected", "submitted", "failed", "uncertain"}
        /\ at' = "done" <=> outcome' # "none"
        /\ SendInv'
<1>1. CASE RegistryNext /\ UNCHANGED sendVars
  <2>1. RegistryTypeOK' /\ RegistryInv'
    BY <1>1, RegistryTypeStep, RegistryInvStep DEF TypeOK
  <2> QED
    BY <1>1, <2>1 DEF TypeOK, sendVars, SendInv, HostsAreThere, VerdictIsKept
<1>2. ASSUME UNCHANGED registryVars, Rest PROVE TypeOK' /\ RegistryInv' /\ SendInv'
  <2>1. RegistryTypeOK' /\ RegistryInv'
    BY <1>2, RegistryTypeStep, RegistryInvStep DEF TypeOK
  <2> QED
    BY <1>2, <2>1 DEF TypeOK
<1>3. CASE UNCHANGED vars
  BY <1>2, <1>3 DEF vars, sendVars, TypeOK, SendInv, HostsAreThere, VerdictIsKept
<1>4. registry \in Hosts /\ (Len(published) > 0 => registry # <<>>) /\ Len(published) \in 0..MaxPublished
  <2>1. registry \in Seq(Host) /\ published \in Seq(Host) /\ Len(published) <= MaxPublished
    BY HostsAreSequences DEF TypeOK, RegistryTypeOK
  <2>2. Len(published) > 0 => registry # <<>>
    BY <2>1, EmptySeq DEF RegistryInv, HeadIsLatest
  <2>3. Len(published) \in Nat
    BY <2>1, LenProperties
  <2> QED
    BY <2>1, <2>2, <2>3, BoundsAssumption DEF TypeOK, RegistryTypeOK
<1> USE DEF TypeOK, SendInv, HostsAreThere, VerdictIsKept, Requests, Search, Local, Remote, Message,
            Goto, End
<1>5. CASE Resolve
  BY <1>2, <1>5 DEF Resolve
<1>6. CASE Stat
  <2>1. published # <<>> => Len(published) > 0
    BY EmptySeq DEF RegistryTypeOK
  <2>2. Rest
    BY <1>4, <1>6, <2>1 DEF Stat
  <2> QED
    BY <1>2, <1>6, <2>2 DEF Stat
<1>7. CASE Open
  BY <1>2, <1>4, <1>7 DEF Open, Changed
<1>8. CASE Verify
  <2>1. <<>> \in Hosts
    BY RegistryEmpty
  <2>2. Rest
    BY <1>8, <2>1 DEF Verify, Changed
  <2> QED
    BY <1>2, <1>8, <2>2 DEF Verify
<1>9. CASE Record \/ Begin
  BY <1>2, <1>9 DEF Record, Begin, BeginLocal, StartProxy, BeginRemote
<1>10. CASE Connect \/ AnswerLocal \/ AnswerRemote
  <2>1. CASE Connect
    BY <1>2, <2>1 DEF Connect
  <2>2. CASE AnswerLocal
    <3>1. \/ at = "catalog" /\ Goto("list")
          \/ at = "list" /\ Goto("record")
          \/ at = "tools" /\ Goto("post")
      BY <2>2 DEF AnswerLocal
    <3> QED
      BY <1>2, <2>2, <3>1 DEF AnswerLocal
  <2>3. CASE AnswerRemote
    <3>1. \/ at = "upgrade" /\ Goto("initialize")
          \/ at = "initialize" /\ Goto("read")
          \/ at = "read" /\ Goto("start")
      BY <2>3 DEF AnswerRemote, AnswerHandshake, AnswerRead
    <3> QED
      BY <1>2, <2>3, <3>1 DEF AnswerRemote, AnswerHandshake, AnswerRead
  <2> QED
    BY <1>10, <2>1, <2>2, <2>3
<1>11. CASE Judge
  BY <1>2, <1>11 DEF Judge
<1>12. CASE Delivered \/ RefusedLocal \/ RefusedRemote
  BY <1>2, <1>12 DEF Delivered, RefusedLocal, RefusedRemote, Answers, Incoming, Acknowledges
<1>13. CASE LostSearch
  <2>1. hosts # <<>> /\ Tail(hosts) \in Hosts /\ (Len(hosts) > 1 => Tail(hosts) # <<>>)
    BY <1>13, TailOfHosts DEF LostSearch
  <2>2. Rest
    BY <1>13, <2>1 DEF LostSearch, NextHost
  <2> QED
    BY <1>2, <1>13, <2>2 DEF LostSearch
<1>14. CASE LostLocal \/ LostRemote
  BY <1>2, <1>14 DEF LostLocal, LostRemote
<1> QED
  BY <1>1, <1>3, <1>5, <1>6, <1>7, <1>8, <1>9, <1>10, <1>11, <1>12, <1>13, <1>14
  DEF Next, Proceed, Peer, Lost

THEOREM SendInvariant == Spec => [](TypeOK /\ RegistryInv /\ SendInv)
<1>1. Init => TypeOK /\ RegistryInv /\ SendInv
  BY RegistryStarts, RegistryEmpty, BoundsAssumption
  DEF Init, TypeOK, SendInv, HostsAreThere, VerdictIsKept, Search, Local
<1>2. TypeOK /\ RegistryInv /\ SendInv /\ [Next]_vars => (TypeOK /\ RegistryInv /\ SendInv)'
  BY SendStep
<1> QED
  BY <1>1, <1>2, PTL DEF Spec

\* Type correctness of the registry and of a send; a request to an endpoint has a
\* record left to be made of (hostFor, sendNativeToCodex).
THEOREM TypeCorrect == Spec => []TypeOK
  BY SendInvariant, PTL

\* The registry keeps the records published last, each once and latest first
\* (publishCodexHost).
THEOREM RegistryStaysRecent == Spec => []RegistryIsRecent
<1>1. TypeOK /\ RegistryInv => RegistryIsRecent
  BY InvariantIsRecent DEF TypeOK
<1> QED
  BY <1>1, SendInvariant, PTL

------------------------------------------------------------------------------
(***************************************************************************)
(* The promise of one delivery.                                            *)
(***************************************************************************)
LEMMA RefinementInit == Init => Promise!Init
  BY DEF Init, Promise!Init, Reserved, Local, Remote

LEMMA RefinementStep ==
  ASSUME TypeOK, SendInv, [Next]_vars
  PROVE  [Promise!Next]_(Promise!vars)
<1> USE DEF TypeOK, SendInv, VerdictIsKept, Requests, Search, Local, Remote, Message, Goto, End,
            Reserved
\* Unseen: nothing is reserved, made of the message or answered.
<1>1. ASSUME Reserved' <=> Reserved, UNCHANGED verdict,
             \/ UNCHANGED outcome
             \/ {outcome, outcome'} \cap {"submitted", "failed", "uncertain"} = {}
      PROVE  UNCHANGED Promise!vars
  BY <1>1 DEF Promise!vars
\* The id is reserved.
<1>2. ASSUME ~Reserved, Reserved', UNCHANGED <<verdict, outcome>>
      PROVE  Promise!Next
  <2>1. Promise!Accept("message", "message")
    BY <1>2 DEF Promise!Accept
  <2> QED
    BY <2>1 DEF Promise!Next
\* The application takes the message.
<1>3. ASSUME Reserved, Reserved', verdict = "none", verdict' = "taken", UNCHANGED outcome, outcome # "failed"
      PROVE  Promise!Next
  <2>1. Promise!HandOver("message")
    BY <1>3 DEF Promise!HandOver
  <2> QED
    BY <2>1 DEF Promise!Next
\* The caller gets an outcome.
<1>4. ASSUME at \in Local \cup Remote, outcome' \in {"submitted", "failed", "uncertain"}, UNCHANGED verdict,
             outcome' = "submitted" => verdict = "taken",
             outcome' = "failed" => verdict # "taken"
      PROVE  Promise!Next
  <2>1. outcome = "none" /\ Reserved /\ Reserved'
    BY <1>4
  <2>2. CASE outcome' = "failed"
    <3>1. Promise!Refuse("message")
      BY <1>4, <2>1, <2>2 DEF Promise!Refuse
    <3> QED
      BY <3>1 DEF Promise!Next
  <2>3. CASE outcome' # "failed"
    <3>1. PICK o \in {"submitted", "uncertain"} : o = outcome'
      BY <1>4, <2>3
    <3> DEFINE answers == {outcome} \cap {"submitted", "uncertain"}
               told == {[key |-> "message", text |-> "message", answer |-> a] : a \in answers}
    <3>2. answers = {} /\ answers' = {o}
      BY <2>1, <3>1
    <3> HIDE DEF answers
    <3>3. told' = told \cup {[key |-> "message", text |-> "message", answer |-> o]}
      BY <3>2
    <3>4. Promise!TrueOf("message", o)
      BY <1>4, <2>1, <3>1 DEF Promise!TrueOf
    <3>5. {k \in {"message"} : outcome = "failed"} = {k \in {"message"} : outcome' = "failed"}
      BY <2>1, <2>3
    <3> HIDE DEF told
    <3>6. Promise!Tell("message", o)
      BY <1>4, <2>1, <3>3, <3>4, <3>5 DEF Promise!Tell, told, answers
    <3> QED
      BY <3>1, <3>6 DEF Promise!Next
  <2> QED
    BY <2>2, <2>3
<1>5. CASE UNCHANGED sendVars
  BY <1>1, <1>5 DEF sendVars
<1>6. CASE Resolve
  BY <1>1, <1>6 DEF Resolve
<1>7. CASE Stat \/ Open \/ Verify
  BY <1>1, <1>7 DEF Stat, Open, Verify, Changed
<1>8. CASE Record
  BY <1>1, <1>2, <1>8 DEF Record
<1>9. CASE Begin \/ Connect
  BY <1>1, <1>9 DEF Begin, BeginLocal, StartProxy, BeginRemote, Connect
<1>10. CASE AnswerLocal
  <2>1. \/ at = "catalog" /\ Goto("list")
        \/ at = "list" /\ Goto("record")
        \/ at = "tools" /\ Goto("post")
    BY <1>10 DEF AnswerLocal
  <2> QED
    BY <1>1, <1>10, <2>1 DEF AnswerLocal
<1>11. CASE AnswerRemote
  <2>1. \/ at = "upgrade" /\ Goto("initialize")
        \/ at = "initialize" /\ Goto("read")
        \/ at = "read" /\ Goto("start")
    BY <1>11 DEF AnswerRemote, AnswerHandshake, AnswerRead
  <2> QED
    BY <1>1, <1>11, <2>1 DEF AnswerRemote, AnswerHandshake, AnswerRead
<1>12. CASE Judge
  <2>1. Reserved /\ Reserved' /\ UNCHANGED outcome /\ outcome # "failed"
    BY <1>12 DEF Judge
  <2>2. CASE verdict' = "taken"
    BY <1>3, <1>12, <2>1, <2>2 DEF Judge
  <2>3. CASE verdict' = "refused"
    <3>1. verdict # "taken" /\ verdict' # "taken"
      BY <1>12, <2>3 DEF Judge
    <3> QED
      BY <2>1, <3>1 DEF Promise!vars
  <2> QED
    BY <1>12, <2>2, <2>3 DEF Judge
<1>13. CASE Delivered \/ RefusedLocal \/ RefusedRemote
  BY <1>4, <1>13 DEF Delivered, RefusedLocal, RefusedRemote, Answers, Incoming, Acknowledges
<1>14. CASE LostSearch
  BY <1>1, <1>14 DEF LostSearch, NextHost
<1>15. CASE LostLocal \/ LostRemote
  BY <1>4, <1>15 DEF LostLocal, LostRemote
<1>16. CASE UNCHANGED vars
  BY <1>5, <1>16 DEF vars
<1> QED
  BY <1>5, <1>6, <1>7, <1>8, <1>9, <1>10, <1>11, <1>12, <1>13, <1>14, <1>15, <1>16
  DEF Next, Proceed, Peer, Lost

\* A message to a Codex task keeps the promise of one delivery, whichever endpoint
\* it goes to and however the requests end (request's and SshRpc's deliveryUnknown).
THEOREM Refinement == Spec => ImplementsOneDelivery
  BY RefinementInit, RefinementStep, SendInvariant, PTL
     DEF Spec, Promise!Spec, ImplementsOneDelivery

==============================================================================
