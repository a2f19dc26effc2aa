----------------------------- MODULE WifiProofs -----------------------------
(***************************************************************************)
(* WiFi: the networks that are saved (WifiStore) and the radio that joins  *)
(* them, which it shares with Bluetooth (BleLink).  Two components without *)
(* a common variable, and so two developments: the store first, then the   *)
(* link.                                                                   *)
(***************************************************************************)
EXTENDS WifiStore, BleLink, SequenceTheorems, TLAPS

-----------------------------------------------------------------------------
(* The saved networks.  One entry per network survives because every list  *)
(* operation keeps it; a save keeps what could be read because whoever may *)
(* save has read it (Known).                                               *)

\* No two slots of a list hold the same network.
Distinct(seq) == \A i, j \in DOMAIN seq : seq[i].ssid = seq[j].ssid => i = j

OneEntry == Distinct(nets) /\ Distinct(file.nets)

\* A file that is not whole has nothing to lose, and a write starts by giving up
\* the old content.
NoContent == file.state # "whole" => file.nets = <<>>
LostWhileWriting == pc = "writing" => file.state # "whole"

\* What the next save must keep.
AtStake == IF pc = "writing" THEN before ELSE Intact(file.nets)

\* Who is about to save, or may be, has what is at stake in memory or has changed it;
\* a screen that has loaded the list keeps it so, and so does a pending connection.  Not
\* so a hotspot, and a screen that went on after its load had failed.
Informed == screen # "hotspot" /\ ~blind
Known ==
  Informed /\ (pc # "idle" \/ screen # "other" \/ job # NoSsid)
    => \A n \in AtStake : n.ssid \in dirty \/ n \in Range(nets)

IInv == TypeOK /\ OneEntry /\ NoContent /\ LostWhileWriting /\ Known

-----------------------------------------------------------------------------
(* Lists.                                                                   *)

\* The lists of at most n elements are sequences, and the other way round.
LEMMA UpToSeq ==
  ASSUME NEW n \in Nat, NEW S, NEW seq
  PROVE  seq \in UpTo(n, S) <=> seq \in Seq(S) /\ Len(seq) <= n
<1>1. ASSUME seq \in UpTo(n, S) PROVE seq \in Seq(S) /\ Len(seq) <= n
  <2>1. PICK k \in 0..n : seq \in [1..k -> S]
    BY <1>1 DEF UpTo
  <2> QED
    BY <2>1
<1>2. ASSUME seq \in Seq(S), Len(seq) <= n PROVE seq \in UpTo(n, S)
  <2>1. Len(seq) \in 0..n /\ seq \in [1..Len(seq) -> S]
    BY <1>2, LenProperties
  <2> QED
    BY <2>1 DEF UpTo
<1> QED
  BY <1>1, <1>2

\* The empty list is one of them.
LEMMA EmptyList ==
  ASSUME NEW n \in Nat, NEW S
  PROVE  <<>> \in UpTo(n, S)
<1> DEFINE empty == <<>>
<1>1. empty \in Seq(S) /\ Len(empty) <= n
  OBVIOUS
<1> HIDE DEF empty
<1>2. empty \in UpTo(n, S)
  BY <1>1, UpToSeq
<1> QED
  BY <1>2 DEF empty

\* Updating the entries of a network in place changes that network only.
LEMMA UpdateInPlace ==
  ASSUME NEW S, NEW seq \in Seq(S), NEW n \in S, Distinct(seq),
         NEW new, new = [i \in DOMAIN seq |-> IF seq[i].ssid = n.ssid THEN n ELSE seq[i]]
  PROVE  /\ new \in Seq(S) /\ Len(new) = Len(seq) /\ Distinct(new)
         /\ \A m \in Range(seq) : m.ssid = n.ssid \/ m \in Range(new)
<1>1. DOMAIN seq = 1..Len(seq) /\ Len(seq) \in Nat /\ \A i \in 1..Len(seq) : seq[i] \in S
  BY LenProperties, ElementOfSeq
<1>2. new \in [1..Len(seq) -> S] /\ DOMAIN new = DOMAIN seq
  BY <1>1
<1>3. new \in Seq(S) /\ Len(new) = Len(seq)
  BY <1>1, <1>2
<1>4. \A i \in DOMAIN seq : new[i].ssid = seq[i].ssid
  OBVIOUS
<1>5. Distinct(new)
  BY <1>2, <1>4 DEF Distinct
<1>6. ASSUME NEW m \in Range(seq), m.ssid # n.ssid PROVE m \in Range(new)
  <2>1. PICK i \in DOMAIN seq : m = seq[i]
    BY <1>6 DEF Range
  <2>2. new[i] = m
    BY <1>6, <2>1
  <2> QED
    BY <1>2, <2>1, <2>2 DEF Range
<1> QED
  BY <1>3, <1>5, <1>6

\* Appending a network that is not in the list.
LEMMA AppendNew ==
  ASSUME NEW S, NEW seq \in Seq(S), NEW n \in S, Distinct(seq), Index(seq, n.ssid) = {}
  PROVE  /\ Append(seq, n) \in Seq(S) /\ Len(Append(seq, n)) = Len(seq) + 1
         /\ Distinct(Append(seq, n)) /\ Range(seq) \subseteq Range(Append(seq, n))
<1> DEFINE new == Append(seq, n)
<1>1. DOMAIN seq = 1..Len(seq) /\ Len(seq) \in Nat
  BY LenProperties
<1>2. /\ new \in Seq(S) /\ Len(new) = Len(seq) + 1 /\ new[Len(seq) + 1] = n
      /\ \A i \in 1..Len(seq) : new[i] = seq[i]
  BY AppendProperties
<1>3. DOMAIN new = 1..(Len(seq) + 1)
  BY <1>2, LenProperties
<1> HIDE DEF new
<1>4. \A i \in DOMAIN seq : seq[i].ssid # n.ssid
  BY DEF Index
<1>5. \A i \in DOMAIN new : i \in DOMAIN seq \/ i = Len(seq) + 1
  BY <1>1, <1>3
<1>6. Distinct(new)
  BY <1>1, <1>2, <1>4, <1>5 DEF Distinct
<1>7. Range(seq) \subseteq Range(new)
  BY <1>1, <1>2, <1>3 DEF Range
<1> QED
  BY <1>2, <1>6, <1>7 DEF new

\* Removing a slot: the others move up, and nothing else is lost.
LEMMA RemoveSlot ==
  ASSUME NEW S, NEW seq \in Seq(S), NEW k \in DOMAIN seq, Distinct(seq)
  PROVE  /\ RemoveAt(seq, k) \in Seq(S) /\ Len(RemoveAt(seq, k)) = Len(seq) - 1
         /\ Distinct(RemoveAt(seq, k))
         /\ \A m \in Range(seq) : m = seq[k] \/ m \in Range(RemoveAt(seq, k))
<1> DEFINE a == SubSeq(seq, 1, k - 1)
           b == SubSeq(seq, k + 1, Len(seq))
           new == RemoveAt(seq, k)
           from == [i \in 1..(Len(seq) - 1) |-> IF i < k THEN i ELSE i + 1]
<1>1. DOMAIN seq = 1..Len(seq) /\ Len(seq) \in Nat /\ k \in 1..Len(seq)
  BY LenProperties
<1>2. \A i \in 1..Len(seq) : seq[i] \in S
  BY ElementOfSeq
<1>3. /\ a \in Seq(S) /\ Len(a) = k - 1 /\ \A i \in 1..(k - 1) : a[i] = seq[i]
  <2>1. 1 \in Int /\ k - 1 \in Int /\ \A i \in 1..(k - 1) : seq[i] \in S
    BY <1>1, <1>2
  <2>2. /\ a \in Seq(S) /\ Len(a) = IF 1 <= k - 1 THEN k - 1 - 1 + 1 ELSE 0
        /\ \A i \in 1..(k - 1 - 1 + 1) : a[i] = seq[1 + i - 1]
    BY <2>1, SubSeqProperties
  <2> HIDE DEF a
  <2> QED
    BY <1>1, <2>2
<1>4. /\ b \in Seq(S) /\ Len(b) = Len(seq) - k
      /\ \A i \in 1..(Len(seq) - k) : b[i] = seq[k + i]
  <2>1. k + 1 \in Int /\ Len(seq) \in Int /\ \A i \in (k + 1)..Len(seq) : seq[i] \in S
    BY <1>1, <1>2
  <2>2. /\ b \in Seq(S) /\ Len(b) = IF k + 1 <= Len(seq) THEN Len(seq) - (k + 1) + 1 ELSE 0
        /\ \A i \in 1..(Len(seq) - (k + 1) + 1) : b[i] = seq[k + 1 + i - 1]
    BY <2>1, SubSeqProperties
  <2>3. Len(seq) - (k + 1) + 1 = Len(seq) - k
    BY <1>1
  <2>4. Len(b) = Len(seq) - k
    <3>1. k + 1 <= Len(seq) \/ Len(seq) - k = 0
      BY <1>1
    <3>2. k + 1 <= Len(seq) => Len(seq) - k = Len(seq) - (k + 1) + 1
      BY <1>1
    <3>3. Len(seq) - k = 0 => ~(k + 1 <= Len(seq))
      BY <1>1
    <3> HIDE DEF b
    <3> QED
      BY <2>2, <3>1, <3>2, <3>3
  <2> HIDE DEF b
  <2>5. ASSUME NEW i \in 1..(Len(seq) - k) PROVE b[i] = seq[k + i]
    <3>1. k + 1 + i - 1 = k + i
      BY <1>1
    <3> QED
      BY <2>2, <2>3, <3>1
  <2> QED
    BY <2>2, <2>4, <2>5
<1>5. new = a \o b
  BY DEF RemoveAt
<1> HIDE DEF a, b
<1>6. /\ new \in Seq(S) /\ Len(new) = Len(a) + Len(b)
      /\ \A i \in 1..(Len(a) + Len(b)) : new[i] = IF i <= Len(a) THEN a[i] ELSE b[i - Len(a)]
  BY <1>3, <1>4, <1>5, ConcatProperties
<1>7. Len(new) = Len(seq) - 1 /\ DOMAIN new = 1..(Len(seq) - 1)
  BY <1>1, <1>3, <1>4, <1>6, LenProperties
<1>8. \A i \in DOMAIN new : from[i] \in DOMAIN seq \ {k} /\ new[i] = seq[from[i]]
  <2> SUFFICES ASSUME NEW i \in DOMAIN new
               PROVE  from[i] \in DOMAIN seq \ {k} /\ new[i] = seq[from[i]]
    OBVIOUS
  <2>1. CASE i < k
    BY <1>1, <1>3, <1>4, <1>6, <1>7, <2>1
  <2>2. CASE i >= k
    <3>1. i \in Nat /\ ~(i <= k - 1) /\ i - (k - 1) \in 1..(Len(seq) - k)
      BY <1>1, <1>7, <2>2
    <3>2. new[i] = b[i - (k - 1)]
      BY <1>1, <1>3, <1>4, <1>6, <1>7, <3>1
    <3>3. b[i - (k - 1)] = seq[k + (i - (k - 1))]
      <4> DEFINE j == i - (k - 1)
      <4>1. j \in 1..(Len(seq) - k)
        BY <3>1
      <4> HIDE DEF j
      <4>2. b[j] = seq[k + j]
        BY <1>4, <4>1
      <4> QED
        BY <4>2 DEF j
    <3>4. k + (i - (k - 1)) = i + 1
      BY <1>1, <3>1
    <3> QED
      BY <1>1, <1>7, <2>2, <3>1, <3>2, <3>3, <3>4
  <2> QED
    BY <1>1, <1>7, <2>1, <2>2
<1> HIDE DEF new
<1>9. Distinct(new)
  <2>1. \A i, j \in DOMAIN new : from[i] = from[j] => i = j
    BY <1>1, <1>7
  <2> HIDE DEF from
  <2> QED
    BY <1>8, <2>1 DEF Distinct
<1>10. ASSUME NEW m \in Range(seq), m # seq[k] PROVE m \in Range(new)
  <2>1. PICK i \in DOMAIN seq : m = seq[i]
    BY <1>10 DEF Range
  <2>2. i # k /\ i \in 1..Len(seq)
    BY <1>1, <1>10, <2>1
  <2>3. PICK j \in DOMAIN new : from[j] = i
    <3>1. CASE i < k
      BY <1>1, <1>7, <2>2, <3>1
    <3>2. CASE i > k
      <4>1. i - 1 \in DOMAIN new /\ from[i - 1] = i
        BY <1>1, <1>7, <2>2, <3>2
      <4> QED
        BY <4>1
    <3> QED
      BY <1>1, <2>2, <3>1, <3>2
  <2>4. new[j] = m
    BY <1>8, <2>1, <2>3
  <2> QED
    BY <2>3, <2>4 DEF Range
<1> QED
  BY <1>6, <1>7, <1>9, <1>10 DEF new

\* Thinning a list out keeps what is intact, and makes no double entries.
LEMMA Thinned ==
  ASSUME NEW seq \in Seq(Stored), NEW slots \in Accepted(seq), Distinct(seq),
         NEW new, new = [i \in DOMAIN slots |-> seq[slots[i]]]
  PROVE  /\ new \in Seq(Credential) /\ Len(new) <= Len(seq) /\ Distinct(new)
         /\ Intact(seq) \subseteq Range(new)
<1>1. DOMAIN seq = 1..Len(seq) /\ Len(seq) \in Nat /\ \A i \in 1..Len(seq) : seq[i] \in Stored
  BY LenProperties, ElementOfSeq
<1>2. /\ slots \in UpTo(Len(seq), DOMAIN seq)
      /\ Range(slots) = {i \in DOMAIN seq : seq[i].password # Damaged}
      /\ \A i, j \in DOMAIN slots : i < j => slots[i] < slots[j]
  BY DEF Accepted
<1>3. slots \in Seq(DOMAIN seq) /\ Len(slots) <= Len(seq)
  BY <1>1, <1>2, UpToSeq
<1>4. DOMAIN slots = 1..Len(slots) /\ Len(slots) \in Nat
  BY <1>3, LenProperties
<1>5. \A i \in DOMAIN slots : slots[i] \in DOMAIN seq /\ seq[slots[i]].password # Damaged
  BY <1>2 DEF Range
<1>6. \A i \in DOMAIN slots : seq[slots[i]] \in Credential
  BY <1>1, <1>5 DEF Stored, Credential
<1>7. DOMAIN new = DOMAIN slots /\ \A i \in DOMAIN slots : new[i] = seq[slots[i]]
  OBVIOUS
<1>8. new \in [1..Len(slots) -> Credential]
  BY <1>4, <1>6
<1>9. new \in Seq(Credential) /\ Len(new) = Len(slots)
  BY <1>4, <1>8
<1>10. \A i, j \in DOMAIN slots : slots[i] = slots[j] => i = j
  BY <1>1, <1>2, <1>4, <1>5
<1>11. Distinct(new)
  BY <1>5, <1>7, <1>10 DEF Distinct
<1>12. Intact(seq) \subseteq Range(new)
  <2> SUFFICES ASSUME NEW m \in Intact(seq) PROVE m \in Range(new)
    OBVIOUS
  <2>1. PICK k \in DOMAIN seq : m = seq[k] /\ seq[k].password # Damaged
    BY DEF Intact, Range
  <2>2. PICK i \in DOMAIN slots : slots[i] = k
    BY <1>2, <2>1 DEF Range
  <2> QED
    BY <1>7, <2>1, <2>2 DEF Range
<1> QED
  BY <1>3, <1>9, <1>11, <1>12

-----------------------------------------------------------------------------
(* The operations of the store.                                            *)

\* What memory holds when a save could begin: all that can be read, or a change of it.
KnowsFile == \A n \in Intact(file.nets) : n.ssid \in dirty \/ n \in Range(nets)

\* What an operation on the list leaves in memory.
GoodMemory ==
  /\ nets' \in UpTo(MaxNetworks, Credential) /\ Distinct(nets')
  /\ last' \in Ssid \cup {NoSsid} /\ dirty' \subseteq Ssid

\* A list in memory is a sequence that fits, and so is the one of the file.
LEMMA ListsAreSequences ==
  ASSUME TypeOK
  PROVE  /\ nets \in Seq(Credential) /\ Len(nets) <= MaxNetworks /\ Len(nets) \in Nat
         /\ file.nets \in Seq(Stored) /\ Len(file.nets) <= MaxNetworks
<1>1. MaxNetworks \in Nat
  BY StoreAssumption
<1>2. nets \in UpTo(MaxNetworks, Credential) /\ file.nets \in UpTo(MaxNetworks, Stored)
  BY DEF TypeOK
<1> QED
  BY <1>1, <1>2, UpToSeq, LenProperties

\* addCredential() updates, appends or refuses: the list stays in its limit and
\* without doubles, and whatever leaves it is the network that was given.
LEMMA AddEffect ==
  ASSUME TypeOK, OneEntry, NEW n \in Credential, addCredential(n)
  PROVE  /\ nets' \in UpTo(MaxNetworks, Credential) /\ Distinct(nets')
         /\ dirty' \subseteq Ssid /\ pc' \in {"idle", "save"}
         /\ dirty \subseteq dirty'
         /\ \A m \in Range(nets) : m.ssid \in dirty' \/ m \in Range(nets')
<1>1. /\ nets \in Seq(Credential) /\ Len(nets) <= MaxNetworks /\ Len(nets) \in Nat
      /\ MaxNetworks \in Nat /\ Distinct(nets) /\ n.ssid \in Ssid /\ dirty \subseteq Ssid
  BY ListsAreSequences, StoreAssumption DEF OneEntry, Credential, TypeOK
<1>2. CASE /\ nets' = [i \in DOMAIN nets |-> IF nets[i].ssid = n.ssid THEN n ELSE nets[i]]
           /\ dirty' = dirty \cup {n.ssid} /\ pc' = "save"
  <2>1. /\ nets' \in Seq(Credential) /\ Len(nets') = Len(nets) /\ Distinct(nets')
        /\ \A m \in Range(nets) : m.ssid = n.ssid \/ m \in Range(nets')
    BY <1>1, <1>2, UpdateInPlace
  <2>2. nets' \in UpTo(MaxNetworks, Credential)
    BY <1>1, <2>1, UpToSeq
  <2> QED
    BY <1>1, <1>2, <2>1, <2>2
<1>3. CASE /\ Index(nets, n.ssid) = {} /\ Len(nets) < MaxNetworks
           /\ nets' = Append(nets, n)
           /\ dirty' = dirty \cup {n.ssid} /\ pc' = "save"
  <2>1. /\ nets' \in Seq(Credential) /\ Len(nets') = Len(nets) + 1 /\ Distinct(nets')
        /\ Range(nets) \subseteq Range(nets')
    BY <1>1, <1>3, AppendNew
  <2>2. Len(nets') <= MaxNetworks
    BY <1>1, <1>3, <2>1
  <2>3. nets' \in UpTo(MaxNetworks, Credential)
    BY <1>1, <2>1, <2>2, UpToSeq
  <2> QED
    BY <1>1, <1>3, <2>1, <2>3
<1>4. CASE pc' = "idle" /\ UNCHANGED <<nets, dirty>>
  BY <1>1, <1>4 DEF TypeOK
<1> QED
  BY <1>2, <1>3, <1>4 DEF addCredential

\* removeCredential() takes out one network, the one it marks as changed.
LEMMA RemoveEffect ==
  ASSUME TypeOK, OneEntry, NEW k \in DOMAIN nets, removeAt(k)
  PROVE  /\ GoodMemory /\ pc' = "save"
         /\ dirty \subseteq dirty'
         /\ \A m \in Range(nets) : m.ssid \in dirty' \/ m \in Range(nets')
<1>1. /\ nets \in Seq(Credential) /\ Len(nets) <= MaxNetworks /\ Len(nets) \in Nat
      /\ MaxNetworks \in Nat /\ Distinct(nets)
  BY ListsAreSequences, StoreAssumption DEF OneEntry
<1>2. nets[k] \in Credential
  BY <1>1, ElementOfSeq, LenProperties
<1>3. nets[k].ssid \in Ssid
  BY <1>2 DEF Credential
<1>4. /\ nets' \in Seq(Credential) /\ Len(nets') = Len(nets) - 1 /\ Distinct(nets')
      /\ \A m \in Range(nets) : m = nets[k] \/ m \in Range(nets')
  BY <1>1, RemoveSlot DEF removeAt
<1>5. nets' \in UpTo(MaxNetworks, Credential)
  BY <1>1, <1>4, UpToSeq
<1>6. dirty' = dirty \cup {nets[k].ssid} /\ pc' = "save" /\ last' \in Ssid \cup {NoSsid}
  BY DEF removeAt, TypeOK
<1>7. dirty \subseteq Ssid
  BY DEF TypeOK
<1> QED
  BY <1>3, <1>4, <1>5, <1>6, <1>7 DEF GoodMemory

\* A load brings all that can be read into memory.
LEMMA LoadEffect ==
  ASSUME TypeOK, OneEntry, NEW saves, loadFromFile(saves)
  PROVE  /\ GoodMemory /\ pc' \in {saves, "save"}
         /\ Intact(file.nets) \subseteq Range(nets')
<1>1. PICK slots \in Accepted(file.nets) : nets' = [i \in DOMAIN slots |-> file.nets[slots[i]]]
  BY DEF loadFromFile
<1>2. /\ file.nets \in Seq(Stored) /\ Len(file.nets) <= MaxNetworks
      /\ Len(file.nets) \in Nat /\ MaxNetworks \in Nat /\ Distinct(file.nets)
  BY ListsAreSequences, StoreAssumption, LenProperties DEF OneEntry
<1>3. /\ nets' \in Seq(Credential) /\ Len(nets') <= Len(file.nets) /\ Distinct(nets')
      /\ Intact(file.nets) \subseteq Range(nets')
  BY <1>1, <1>2, Thinned
<1>4. Len(nets') <= MaxNetworks
  BY <1>2, <1>3, LenProperties
<1>5. nets' \in UpTo(MaxNetworks, Credential)
  BY <1>2, <1>3, <1>4, UpToSeq
<1>6. last' = file.last /\ dirty' = {} /\ pc' \in {saves, "save"}
  BY DEF loadFromFile
<1>7. file.last \in Ssid \cup {NoSsid}
  BY DEF TypeOK
<1> QED
  BY <1>3, <1>5, <1>6, <1>7 DEF GoodMemory

\* An operation that does not write the file keeps the invariant if it leaves good
\* memory behind, and memory that knows the file where that matters.
LEMMA MemoryStep ==
  ASSUME IInv, UNCHANGED <<file, before>>, GoodMemory,
         pc' \in {"idle", "save", "second"},
         todo' \subseteq [ssid : Ssid, password : Password, after : {"save", "load"}],
         pc' = "idle" => todo' = {},
         screen' \in {"other", "selection", "joined", "hotspot"},
         job' \in Ssid \cup {NoSsid},
         blind' \in BOOLEAN,
         Informed' /\ (pc' # "idle" \/ screen' # "other" \/ job' # NoSsid)
           => KnowsFile'
  PROVE  IInv'
<1>1. TypeOK'
  BY DEF IInv, TypeOK, GoodMemory
<1>2. OneEntry' /\ NoContent' /\ LostWhileWriting'
  BY DEF IInv, OneEntry, NoContent, LostWhileWriting, GoodMemory
<1>3. Known'
  BY DEF Known, AtStake, KnowsFile
<1> QED
  BY <1>1, <1>2, <1>3 DEF IInv

\* Memory goes on knowing the file while its list changes on purpose only.
LEMMA KnowledgeStays ==
  ASSUME IInv, pc # "writing", file' = file, dirty \subseteq dirty',
         \A m \in Range(nets) : m.ssid \in dirty' \/ m \in Range(nets'),
         pc # "idle" \/ screen # "other" \/ job # NoSsid
  PROVE  Informed => KnowsFile'
  BY DEF IInv, Known, AtStake, KnowsFile

\* A file that is not whole is no news to anybody.
LEMMA NothingToKnow ==
  ASSUME IInv, file.state # "whole", file' = file
  PROVE  KnowsFile'
<1>1. Intact(file.nets) = {}
  BY DEF IInv, NoContent, Intact, Range
<1> QED
  BY <1>1 DEF KnowsFile

-----------------------------------------------------------------------------
(* The steps.                                                              *)

\* The program starts with an empty list and no file.
LEMMA StoreInit == Init => IInv
<1> SUFFICES ASSUME Init PROVE IInv
  OBVIOUS
<1>1. <<>> \in UpTo(MaxNetworks, Credential) /\ <<>> \in UpTo(MaxNetworks, Stored)
  BY StoreAssumption, EmptyList
<1>2. TypeOK
  BY <1>1 DEF Init, TypeOK, Lost
<1>3. OneEntry /\ NoContent /\ LostWhileWriting /\ Known
  BY DEF Init, Lost, OneEntry, Distinct, NoContent, LostWhileWriting, Known
<1> QED
  BY <1>2, <1>3 DEF IInv

\* A lost file is a good one.
LEMMA LostIsGood ==
  ASSUME NEW how \in {"missing", "torn"}
  PROVE  /\ Lost(how) \in [state : {"missing", "torn", "whole"},
                           nets : UpTo(MaxNetworks, Stored), last : Ssid \cup {NoSsid}]
         /\ Lost(how).nets = <<>> /\ Lost(how).state # "whole"
         /\ Distinct(Lost(how).nets) /\ Intact(Lost(how).nets) = {}
<1>1. <<>> \in UpTo(MaxNetworks, Stored)
  BY StoreAssumption, EmptyList
<1> QED
  BY <1>1 DEF Lost, Distinct, Intact, Range

\* A save gives the file up, and brings it back from memory that knew it.
LEMMA SaveStep == IInv /\ Saving => IInv'
<1> SUFFICES ASSUME IInv, Saving PROVE IInv'
  OBVIOUS
<1>1. CASE WriteBegins
  <2>1. PICK how \in {"missing", "torn"} : file' = Lost(how)
    BY <1>1 DEF WriteBegins
  <2>2. before' \subseteq Credential
    <3>1. \A n \in Intact(file.nets) : n \in Stored /\ n.password # Damaged
      BY ListsAreSequences, ElementOfSeq, LenProperties DEF IInv, Intact, Range
    <3> QED
      BY <1>1, <3>1 DEF WriteBegins, Stored, Credential
  <2>3. TypeOK'
    BY <1>1, <2>1, <2>2, LostIsGood DEF IInv, TypeOK, WriteBegins, memory
  <2>4. OneEntry' /\ NoContent' /\ LostWhileWriting'
    BY <1>1, <2>1, LostIsGood
    DEF IInv, OneEntry, NoContent, LostWhileWriting, WriteBegins, memory
  <2>5. Known'
    BY <1>1 DEF IInv, Known, Informed, AtStake, WriteBegins, memory
  <2> QED
    BY <2>3, <2>4, <2>5 DEF IInv
<1>2. CASE WriteEnds
  <2>1. file' = Snapshot /\ nets' = nets /\ last' = last
    BY <1>2 DEF WriteEnds, memory
  <2>2. nets \in UpTo(MaxNetworks, Stored)
    <3>1. nets \in Seq(Stored)
      <4>1. /\ nets \in Seq(Credential) /\ \A i \in 1..Len(nets) : nets[i] \in Credential
            /\ Len(nets) \in Nat /\ nets \in [1..Len(nets) -> Credential]
        BY ListsAreSequences, ElementOfSeq, LenProperties DEF IInv
      <4>2. Credential \subseteq Stored
        BY DEF Credential, Stored
      <4> QED
        BY <4>1, <4>2
    <3> QED
      BY <3>1, ListsAreSequences, StoreAssumption, UpToSeq DEF IInv
  <2>3. TypeOK'
    <3>1. blind' \in BOOLEAN
      BY <1>2, Zenon DEF WriteEnds
    <3> QED
      BY <1>2, <2>1, <2>2, <3>1 DEF IInv, TypeOK, WriteEnds, Snapshot
  <2>4. OneEntry' /\ NoContent' /\ LostWhileWriting'
    BY <1>2, <2>1 DEF IInv, OneEntry, NoContent, LostWhileWriting, WriteEnds, Snapshot
  <2>5. Known'
    BY <1>2, <2>1 DEF Known, Informed, AtStake, Intact, WriteEnds, Snapshot
  <2> QED
    BY <2>3, <2>4, <2>5 DEF IInv
<1>3. CASE WriteFails
  <2>1. /\ UNCHANGED <<nets, last, screen, job, dirty, blind>> /\ before' = {}
        /\ pc' = (IF todo' = {} THEN "idle" ELSE "second")
        /\ todo' \subseteq todo
    BY <1>3 DEF WriteFails, memory
  <2>2. CASE pc = "save" /\ UNCHANGED file
    <3>1. TypeOK'
      BY <2>1, <2>2 DEF IInv, TypeOK
    <3>2. OneEntry' /\ NoContent' /\ LostWhileWriting'
      BY <2>1, <2>2 DEF IInv, OneEntry, NoContent, LostWhileWriting
    <3>3. Known'
      BY <2>1, <2>2 DEF IInv, Known, Informed, AtStake
    <3> QED
      BY <3>1, <3>2, <3>3 DEF IInv
  <2>3. CASE file' \in {Lost("missing"), Lost("torn")}
    <3>1. PICK how \in {"missing", "torn"} : file' = Lost(how)
      BY <2>3
    <3>2. TypeOK'
      BY <2>1, <3>1, LostIsGood DEF IInv, TypeOK
    <3>3. OneEntry' /\ NoContent' /\ LostWhileWriting'
      BY <2>1, <3>1, LostIsGood DEF IInv, OneEntry, NoContent, LostWhileWriting
    <3>4. Known'
      BY <2>1, <3>1, LostIsGood DEF Known, AtStake
    <3> QED
      BY <3>2, <3>3, <3>4 DEF IInv
  <2> QED
    BY <1>3, <2>2, <2>3 DEF WriteFails
<1>4. CASE SecondHalf
  <2>1. PICK t \in todo : addCredential([ssid |-> t.ssid, password |-> t.password])
    BY <1>4 DEF SecondHalf
  <2>2. [ssid |-> t.ssid, password |-> t.password] \in Credential
    BY DEF IInv, TypeOK, Credential
  <2>3. /\ nets' \in UpTo(MaxNetworks, Credential) /\ Distinct(nets')
        /\ dirty' \subseteq Ssid /\ pc' \in {"idle", "save"}
        /\ dirty \subseteq dirty'
        /\ \A m \in Range(nets) : m.ssid \in dirty' \/ m \in Range(nets')
    BY <2>1, <2>2, AddEffect DEF IInv
  <2>4. /\ UNCHANGED <<last, file, screen, job, before, blind>> /\ todo' = {} /\ pc = "second"
    BY <1>4 DEF SecondHalf
  <2>5. GoodMemory
    BY <2>3, <2>4 DEF GoodMemory, IInv, TypeOK
  <2>6. Informed' => KnowsFile'
    BY <2>3, <2>4, KnowledgeStays DEF Informed
  <2>7. /\ screen' \in {"other", "selection", "joined", "hotspot"}
        /\ job' \in Ssid \cup {NoSsid} /\ blind' \in BOOLEAN
    BY <2>4 DEF IInv, TypeOK
  <2> QED
    BY <2>3, <2>4, <2>5, <2>6, <2>7, MemoryStep
<1> QED
  BY <1>1, <1>2, <1>3, <1>4 DEF Saving

\* The screen that selects a network loads the list, or fails to, before it changes it.
LEMMA SelectionStep == IInv /\ Selection => IInv'
<1> SUFFICES ASSUME IInv, Selection PROVE IInv'
  OBVIOUS
<1>1. /\ Idle /\ pc # "writing" /\ TypeOK /\ OneEntry /\ todo = {}
  BY DEF IInv, TypeOK, Idle, Selection, OpensSelection, Connects, SavesPassword, Forgets,
         LeavesSelection
<1> USE <1>1
<1>2. CASE OpensSelection
  <2>1. UNCHANGED <<file, todo, job, before>> /\ screen' = "selection"
    BY <1>2 DEF OpensSelection
  <2>2. CASE file.state = "whole" /\ loadFromFile("idle")
    <3>1. GoodMemory /\ pc' \in {"idle", "save"} /\ KnowsFile' /\ blind' = FALSE
      BY <2>1, <2>2, LoadEffect DEF KnowsFile, loadFromFile
    <3> QED
      BY <2>1, <3>1, MemoryStep DEF TypeOK
  <2>3. CASE loadFails
    <3>1. UNCHANGED <<nets, last, dirty, pc>> /\ GoodMemory
      BY <2>1, <2>3 DEF loadFails, memory, GoodMemory, TypeOK, OneEntry
    <3>2. blind' \in BOOLEAN /\ (~blind' => file.state # "whole")
      BY <2>3, Zenon DEF loadFails
    <3>3. Informed' => KnowsFile'
      BY <2>1, <3>2, NothingToKnow DEF Informed
    <3> QED
      BY <2>1, <3>1, <3>2, <3>3, MemoryStep DEF TypeOK, Idle
  <2> QED
    BY <1>2, <2>2, <2>3 DEF OpensSelection
<1>3. CASE Connects
  <2>1. PICK s \in Ssid : setLastConnectedSsid(s)
    BY <1>3 DEF Connects
  <2>2. /\ UNCHANGED <<nets, dirty, file, screen, job, before, blind, todo>> /\ last' = s
        /\ screen = "selection" /\ pc' \in {"idle", "save"}
    BY <1>3, <2>1 DEF Connects, setLastConnectedSsid, KeepsUi
  <2>3. GoodMemory /\ (Informed' => KnowsFile')
    BY <2>2, KnowledgeStays DEF GoodMemory, TypeOK, OneEntry, Informed
  <2> QED
    BY <2>2, <2>3, MemoryStep DEF TypeOK
<1>4. CASE SavesPassword
  <2>1. PICK n \in Credential : addCredential(n)
    BY <1>4 DEF SavesPassword
  <2>2. /\ UNCHANGED <<last, file, screen, job, before, blind, todo>> /\ screen = "selection"
    BY <1>4 DEF SavesPassword, KeepsUi
  <2>3. GoodMemory /\ (Informed' => KnowsFile') /\ pc' \in {"idle", "save"}
    BY <2>1, <2>2, AddEffect, KnowledgeStays DEF GoodMemory, TypeOK, Informed
  <2> QED
    BY <2>2, <2>3, MemoryStep DEF TypeOK
<1>5. CASE Forgets
  <2>1. PICK k \in DOMAIN nets : removeAt(k)
    BY <1>5 DEF Forgets
  <2>2. /\ UNCHANGED <<file, screen, job, before, blind, todo>> /\ screen = "selection"
    BY <1>5 DEF Forgets, KeepsUi
  <2>3. GoodMemory /\ (Informed' => KnowsFile') /\ pc' = "save"
    BY <2>1, <2>2, RemoveEffect, KnowledgeStays DEF Informed
  <2> QED
    BY <2>2, <2>3, MemoryStep DEF TypeOK
<1>6. CASE LeavesSelection
  <2>1. /\ UNCHANGED <<nets, last, file, pc, todo, job, dirty, before, blind>>
        /\ screen = "selection" /\ screen' \in {"other", "joined"}
    BY <1>6 DEF LeavesSelection, memory
  <2>2. GoodMemory /\ (Informed' => KnowsFile')
    BY <2>1, KnowledgeStays DEF GoodMemory, TypeOK, OneEntry, Informed
  <2> QED
    BY <2>1, <2>2, MemoryStep DEF TypeOK, Idle
<1> QED
  BY <1>2, <1>3, <1>4, <1>5, <1>6 DEF Selection

\* A web server that was joined to a network works on a list that knows the file; a
\* hotspot on whatever is in memory.
LEMMA WebStep == IInv /\ Web => IInv'
<1> SUFFICES ASSUME IInv, Web PROVE IInv'
  OBVIOUS
<1>1. /\ Idle /\ pc # "writing" /\ TypeOK /\ OneEntry /\ todo = {}
  BY DEF IInv, TypeOK, Idle, Web, OpensHotspot, PostAdds, PostUpdates, PostDeletes, Serving
<1> USE <1>1
<1>2. CASE OpensHotspot
  <2>1. /\ UNCHANGED <<nets, last, file, pc, todo, job, dirty, before, blind>>
        /\ screen' = "hotspot" /\ ~Informed'
    BY <1>2 DEF OpensHotspot, memory, Informed
  <2>2. GoodMemory
    BY <2>1 DEF GoodMemory, TypeOK, OneEntry
  <2> QED
    BY <2>1, <2>2, MemoryStep DEF TypeOK, Idle
<1>3. ASSUME NEW n \in Credential, addCredential(n), Serving,
             UNCHANGED <<last, todo, file, screen, job, before, blind>>
      PROVE  IInv'
  <2>1. GoodMemory /\ pc' \in {"idle", "save"}
    BY <1>3, AddEffect DEF GoodMemory, TypeOK
  <2>2. Informed' => KnowsFile'
    BY <1>3, AddEffect, KnowledgeStays DEF Serving, Informed
  <2> QED
    BY <1>3, <2>1, <2>2, MemoryStep DEF TypeOK
<1>4. ASSUME NEW k \in DOMAIN nets, removeAt(k), Serving,
             UNCHANGED <<file, screen, job, before, blind>>,
             todo' \subseteq [ssid : Ssid, password : Password, after : {"save", "load"}]
      PROVE  IInv'
  <2>1. GoodMemory /\ pc' = "save"
    BY <1>4, RemoveEffect
  <2>2. Informed' => KnowsFile'
    BY <1>4, RemoveEffect, KnowledgeStays DEF Serving, Informed
  <2> QED
    BY <1>4, <2>1, <2>2, MemoryStep DEF TypeOK
<1>5. CASE PostAdds
  BY <1>3, <1>5 DEF PostAdds, KeepsUi
<1>6. CASE PostUpdates
  <2>1. PICK i \in DOMAIN nets, s \in Ssid, p \in Password :
          \/ /\ addCredential([ssid |-> s, password |-> p])
             /\ UNCHANGED <<last, todo>>
          \/ /\ removeAt(i)
             /\ todo' = {[ssid |-> s, password |-> p, after |-> "save"]}
    BY <1>6 DEF PostUpdates
  <2>2. Serving /\ UNCHANGED <<file, screen, job, before, blind>>
    BY <1>6 DEF PostUpdates, KeepsUi
  <2>3. [ssid |-> s, password |-> p] \in Credential
    BY DEF Credential
  <2> QED
    BY <1>3, <1>4, <2>1, <2>2, <2>3
<1>7. CASE PostDeletes
  BY <1>4, <1>7 DEF PostDeletes, KeepsUi, TypeOK
<1> QED
  BY <1>2, <1>5, <1>6, <1>7 DEF Web

\* The phone's commands load the list first; a file that is missing has nothing to lose.
LEMMA PhoneStep == IInv /\ Phone => IInv'
<1> SUFFICES ASSUME IInv, Phone PROVE IInv'
  OBVIOUS
<1>1. /\ Idle /\ pc # "writing" /\ TypeOK /\ OneEntry /\ todo = {}
  BY DEF IInv, TypeOK, Idle, Phone, Provision, PhoneLoads, PhoneConnects
<1> USE <1>1
<1>2. CASE Provision
  <2>1. UNCHANGED <<file, screen, job, before>>
    BY <1>2 DEF Provision
  <2>2. CASE /\ file.state = "missing" /\ \E n \in Credential : addCredential(n)
             /\ UNCHANGED <<last, todo, blind>>
    <3>1. GoodMemory /\ KnowsFile' /\ pc' \in {"idle", "save"}
      BY <2>1, <2>2, AddEffect, NothingToKnow DEF GoodMemory, TypeOK
    <3> QED
      BY <2>1, <2>2, <3>1, MemoryStep DEF TypeOK
  <2>3. CASE /\ loadFromFile("second")
             /\ \E s \in Ssid, p \in Password :
                  todo' = {[ssid |-> s, password |-> p, after |-> "load"]}
    <3>1. GoodMemory /\ pc' \in {"second", "save"} /\ KnowsFile' /\ blind' = FALSE
      BY <2>1, <2>3, LoadEffect DEF KnowsFile, loadFromFile
    <3>2. /\ todo' \subseteq [ssid : Ssid, password : Password, after : {"save", "load"}]
          /\ screen' \in {"other", "selection", "joined", "hotspot"}
          /\ job' \in Ssid \cup {NoSsid}
      BY <2>1, <2>3 DEF TypeOK
    <3>3. blind' \in BOOLEAN
      BY <3>1, Zenon
    <3>4. pc' # "idle"
      BY <3>1
    <3> QED
      BY <2>1, <3>1, <3>2, <3>3, <3>4, MemoryStep
  <2> QED
    BY <1>2, <2>2, <2>3 DEF Provision
<1>3. CASE PhoneLoads
  <2>1. UNCHANGED <<file, todo, screen, before>>
    BY <1>3 DEF PhoneLoads
  <2>2. /\ GoodMemory /\ KnowsFile' /\ pc' \in {"idle", "save"}
        /\ blind' \in BOOLEAN
    <3>1. CASE loadFromFile("idle")
      <4>1. blind' = FALSE
        BY <3>1 DEF loadFromFile
      <4> QED
        BY <2>1, <3>1, <4>1, LoadEffect DEF KnowsFile
    <3>2. CASE file.state = "missing" /\ UNCHANGED <<memory, dirty, pc, blind>>
      BY <2>1, <3>2, NothingToKnow DEF GoodMemory, memory, TypeOK, OneEntry, Idle
    <3> QED
      BY <1>3, <3>1, <3>2 DEF PhoneLoads
  <2>3. job' \in Ssid \cup {NoSsid}
    <3>1. CASE Index(nets', last') # {}
      <4>1. PICK i \in DOMAIN nets' : nets'[i].ssid = last'
        BY <3>1 DEF Index
      <4> QED
        BY <1>3, <2>2, <3>1 DEF PhoneLoads, Picked, GoodMemory
    <3>2. CASE Index(nets', last') = {} /\ nets' # <<>>
      <4>1. nets' \in Seq(Credential)
        BY <2>2, StoreAssumption, UpToSeq DEF GoodMemory
      <4>2. nets'[1] \in Credential
        BY <3>2, <4>1
      <4> QED
        BY <1>3, <3>2, <4>2 DEF PhoneLoads, Picked, Credential
    <3>3. CASE Index(nets', last') = {} /\ nets' = <<>>
      BY <1>3, <3>3 DEF PhoneLoads, Picked
    <3> QED
      BY <3>1, <3>2, <3>3
  <2> QED
    BY <2>1, <2>2, <2>3, MemoryStep DEF TypeOK
<1>4. CASE PhoneConnects
  <2>1. /\ UNCHANGED <<nets, dirty, file, todo, screen, before, blind>>
        /\ job # NoSsid /\ job' = NoSsid /\ pc' \in {"idle", "save"}
        /\ last' \in {last, job}
    BY <1>4 DEF PhoneConnects, setLastConnectedSsid, memory, Idle
  <2>2. GoodMemory
    BY <2>1 DEF GoodMemory, TypeOK, OneEntry
  <2>3. Informed' => KnowsFile'
    BY <2>1, KnowledgeStays DEF Informed
  <2> QED
    BY <2>1, <2>2, <2>3, MemoryStep DEF TypeOK
<1> QED
  BY <1>2, <1>3, <1>4 DEF Phone

\* A restart forgets memory, and what happens to the card while the device is off
\* makes no double entries.
LEMMA OffStep == IInv /\ (Restarts \/ EntryGetsDamaged) => IInv'
<1> SUFFICES ASSUME IInv, Restarts \/ EntryGetsDamaged PROVE IInv'
  OBVIOUS
<1>1. CASE Restarts
  <2>1. nets' \in UpTo(MaxNetworks, Credential)
    BY <1>1, StoreAssumption, EmptyList DEF Restarts
  <2>2. TypeOK'
    BY <1>1, <2>1 DEF Restarts, IInv, TypeOK
  <2>3. OneEntry' /\ NoContent' /\ LostWhileWriting' /\ Known'
    BY <1>1 DEF Restarts, IInv, OneEntry, Distinct, NoContent, LostWhileWriting, Known
  <2> QED
    BY <2>2, <2>3 DEF IInv
<1>2. CASE EntryGetsDamaged
  <2>1. PICK k \in DOMAIN file.nets : file' = [file EXCEPT !.nets[k].password = Damaged]
    BY <1>2 DEF EntryGetsDamaged
  <2>2. /\ UNCHANGED <<nets, last, pc, todo, screen, job, dirty, before, blind>>
        /\ pc = "idle" /\ screen = "other" /\ job = NoSsid
    BY <1>2 DEF EntryGetsDamaged, memory, Idle
  <2> DEFINE seq == file.nets
             new == [seq EXCEPT ![k].password = Damaged]
  <2>3. file.nets \in Seq(Stored) /\ Len(file.nets) <= MaxNetworks /\ MaxNetworks \in Nat
    BY ListsAreSequences, StoreAssumption DEF IInv
  <2>4. /\ DOMAIN seq = 1..Len(seq) /\ Len(seq) \in Nat /\ k \in 1..Len(seq)
        /\ \A i \in 1..Len(seq) : seq[i] \in Stored
    BY <2>3, LenProperties, ElementOfSeq
  <2>5. new \in [1..Len(seq) -> Stored]
    BY <2>4 DEF Stored
  <2>6. new \in Seq(Stored) /\ Len(new) = Len(seq)
    BY <2>4, <2>5
  <2>7. \A i \in DOMAIN seq : new[i].ssid = seq[i].ssid
    BY <2>4 DEF Stored
  <2>8. Distinct(seq)
    BY DEF IInv, OneEntry
  <2>9. DOMAIN new = DOMAIN seq
    OBVIOUS
  <2>10. file.state = file'.state /\ file.last = file'.last /\ file'.nets = new
         /\ file' = [state |-> file.state, nets |-> new, last |-> file.last]
    BY <2>1 DEF IInv, TypeOK
  <2> HIDE DEF new
  <2>11. Distinct(new)
    BY <2>7, <2>8, <2>9 DEF Distinct
  <2> HIDE DEF seq
  <2>12. new \in UpTo(MaxNetworks, Stored)
    BY <2>3, <2>6, UpToSeq DEF seq
  <2>13. TypeOK'
    BY <2>2, <2>10, <2>12 DEF IInv, TypeOK
  <2>14. file.state = "whole"
    BY <2>1 DEF IInv, NoContent
  <2>15. OneEntry' /\ NoContent' /\ LostWhileWriting' /\ Known'
    BY <2>2, <2>10, <2>11, <2>14
    DEF IInv, OneEntry, NoContent, LostWhileWriting, Known
  <2> QED
    BY <2>13, <2>15 DEF IInv
<1> QED
  BY <1>1, <1>2

\* Every step keeps the invariant.
LEMMA StoreNext == IInv /\ [Next]_vars => IInv'
<1> SUFFICES ASSUME IInv, [Next]_vars PROVE IInv'
  OBVIOUS
<1>1. CASE UNCHANGED vars
  BY <1>1 DEF vars, memory, IInv, TypeOK, OneEntry, NoContent, LostWhileWriting, Known, Informed,
            AtStake
<1> QED
  BY <1>1, SaveStep, SelectionStep, WebStep, PhoneStep, OffStep DEF Next

-----------------------------------------------------------------------------
(* The theorems.                                                           *)

\* WifiCredentialStore, its file and its callers keep the inductive invariant, whatever
\* the networks, the passwords and the limit of the list.
THEOREM StoreInvariance == Spec => []IInv
  BY StoreInit, StoreNext, PTL DEF Spec

\* Every variable keeps its type: among others, neither the list in memory nor the one
\* in the file ever outgrows MAX_NETWORKS (WifiCredentialStore.cpp).
THEOREM StoreTypeCorrect == Spec => []TypeOK
<1>1. IInv => TypeOK
  BY DEF IInv
<1> QED
  BY <1>1, StoreInvariance, PTL

\* A network has one entry, in memory and in the file.
THEOREM NetworksDistinct == Spec => []OneEntryPerSsid
<1>1. IInv => OneEntryPerSsid
  BY DEF IInv, OneEntry, Distinct, OneEntryPerSsid, Index
<1> QED
  BY <1>1, StoreInvariance, PTL

\* A save that ends has kept every network that could be read from the card when it
\* began, but for those that were changed on purpose: outside the hotspot, and unless a
\* screen went on after it could not load the list (WifiSelectionActivity.cpp:26).
THEOREM SavesKeep == Spec => SavesKeepNetworks
<1>1. IInv /\ WriteEnds /\ screen # "hotspot" /\ ~blind => Keeps
  <2> SUFFICES ASSUME IInv, WriteEnds, screen # "hotspot", ~blind, NEW n \in before
               PROVE  n.ssid \in dirty \/ n \in Range(file'.nets)
    BY DEF Keeps
  <2>1. pc = "writing" /\ file'.nets = nets
    BY DEF WriteEnds, Snapshot
  <2>2. n.ssid \in dirty \/ n \in Range(nets)
    BY <2>1 DEF IInv, Known, Informed, AtStake
  <2> QED
    BY <2>1, <2>2
<1>2. IInv /\ [Next]_vars => [WriteEnds /\ screen # "hotspot" /\ ~blind => Keeps]_vars
  BY <1>1
<1> QED
  BY <1>2, StoreInvariance, PTL DEF Spec, SavesKeepNetworks

-----------------------------------------------------------------------------
(* The link.  Three facts make its safety invariants inductive: what       *)
(* begin() may rely on while it runs, what the gate has established for    *)
(* the rest of its iteration, and that one of the two caches is always     *)
(* idle, finished jobs included.                                           *)

\* Until begin() sets state_, BLE is wanted, WiFi is off and nobody else acts.
InBegin ==
  loopPc \in {"check", "announce"} => ~Active /\ userRequested /\ wifi = "null"

\* Past the gate BLE runs only if it is wanted: an activity may take the radio.
PastGate == loopPc # "gate" /\ ~userRequested => radio = "off"

\* requestScan() and requestConnect() both want both caches idle.
OneIdle == scan = "Idle" \/ conn = "Idle"

LinkInv ==
  /\ LinkTypeOK /\ RadioExclusion /\ StateTellsRadio /\ RadioReturned
  /\ OutcomeIsCurrent /\ WantedOnItsScreen
  /\ InBegin /\ PastGate /\ OneIdle

-----------------------------------------------------------------------------
(* One step of each task.                                                  *)

USE DEF LinkTypeOK, RadioExclusion, StateTellsRadio, RadioReturned,
        OutcomeIsCurrent, WantedOnItsScreen, InBegin, PastGate, OneIdle,
        Active, ble, jobs, wish, Commands, Finished

\* The program starts with BLE and WiFi off.
LEMMA LinkInitInv == LinkInit => LinkInv
  BY DEF LinkInit, LinkInv

\* end() stops what is active and leaves alone what is not.
LEMMA EndEffect ==
  ASSUME LinkTypeOK, End
  PROVE  /\ state' \in {"Off", "PausedLowMemory"}
         /\ Active => radio' = "off" /\ link' = "none"
         /\ ~Active => UNCHANGED <<radio, link>>
<1>1. CASE Active
  BY <1>1 DEF End, Deinit
<1>2. CASE ~Active
  BY <1>2 DEF End
<1> QED
  BY <1>1, <1>2

\* The gate and begin() keep the invariant.
LEMMA GateStep == LinkInv /\ Gate => LinkInv'
<1> SUFFICES ASSUME LinkInv, Gate PROVE LinkInv'
    OBVIOUS
<1> USE DEF LinkInv
<1>1. CASE GateStops
  BY <1>1, EndEffect DEF GateStops, bleAllowedNow
<1>2. CASE GateKeeps
  BY <1>2 DEF GateKeeps, bleAllowedNow
<1>3. CASE BeginRefused
  BY <1>3 DEF BeginRefused, bleAllowedNow
<1>4. CASE BeginStarts
  BY <1>4 DEF BeginStarts, MayBegin, bleAllowedNow
<1>5. CASE BeginChecks
  BY <1>5 DEF BeginChecks, Deinit
<1>6. CASE BeginAnnounces
  BY <1>6 DEF BeginAnnounces
<1> QED
  BY <1>1, <1>2, <1>3, <1>4, <1>5, <1>6 DEF Gate

\* So do poll() and the dispatcher.
LEMMA PollStep == LinkInv /\ (PollKillsZombie \/ PollHeap) => LinkInv'
<1> SUFFICES ASSUME LinkInv, PollKillsZombie \/ PollHeap PROVE LinkInv'
    OBVIOUS
<1> USE DEF LinkInv
<1>1. CASE PollKillsZombie
  BY <1>1 DEF PollKillsZombie, ZombieSign, Deinit
<1>2. CASE PollHeap
  <2>1. zombie' \in {"no", "seen", "old"}
    BY <1>2 DEF PollHeap, PollWatches
  <2>2. CASE UNCHANGED ble
    BY <1>2, <2>1, <2>2 DEF PollHeap
  <2>3. CASE state' = "PausedLowMemory" /\ Deinit
    BY <1>2, <2>1, <2>3 DEF PollHeap, Deinit
  <2> QED
    BY <1>2, <2>2, <2>3 DEF PollHeap
<1> QED
  BY <1>1, <1>2

LEMMA PumpStep == LinkInv /\ Pump => LinkInv'
<1> SUFFICES ASSUME LinkInv, Pump PROVE LinkInv'
    OBVIOUS
<1> USE DEF LinkInv
<1>1. CASE cmd = "wifi.scan"
  BY <1>1 DEF Pump, handleWifiScan, requestScan
<1>2. CASE cmd = "wifi.autoconnect"
  BY <1>2 DEF Pump, handleWifiAutoconnect, requestConnect
<1>3. CASE cmd \notin {"wifi.scan", "wifi.autoconnect"}
  BY <1>3 DEF Pump
<1> QED
  BY <1>1, <1>2, <1>3

\* The two caches take the radio from BLE and give it back.
LEMMA TickStep == LinkInv /\ Ticks => LinkInv'
<1> SUFFICES ASSUME LinkInv, Ticks PROVE LinkInv'
    OBVIOUS
<1> USE DEF LinkInv
<1>1. CASE ScanStarts
  BY <1>1, EndEffect DEF ScanStarts
<1>2. CASE ScanFinishes
  <2>1. PICK result \in Finished : finishScan(result)
    BY <1>2 DEF ScanFinishes
  <2> QED
    BY <1>2, <2>1 DEF ScanFinishes, finishScan
<1>3. CASE ScanWaits
  BY <1>3 DEF ScanWaits
<1>4. CASE ConnStarts
  <2>1. CASE conn' = "Connecting" /\ wifi' = "conn" /\ UNCHANGED lastConnected
    BY <1>4, <2>1, EndEffect DEF ConnStarts
  <2>2. CASE finishConnect(FALSE)
    <3>1. conn' = "Failed" /\ wifi' = "null" /\ ~lastConnected' /\ lastConnected' \in BOOLEAN
      BY <2>2 DEF finishConnect
    <3> QED
      BY <1>4, <3>1, EndEffect DEF ConnStarts
  <2> QED
    BY <1>4, <2>1, <2>2 DEF ConnStarts
<1>5. CASE ConnFinishes
  BY <1>5 DEF ConnFinishes, finishConnect
<1>6. CASE ConnWaits
  BY <1>6 DEF ConnWaits
<1> QED
  BY <1>1, <1>2, <1>3, <1>4, <1>5, <1>6 DEF Ticks

\* A screen finds BLE stopped, by End on entry or by the gate before.
LEMMA ActivityStep == LinkInv /\ Activities => LinkInv'
<1> SUFFICES ASSUME LinkInv, Activities PROVE LinkInv'
    OBVIOUS
<1> USE DEF LinkInv, NextIteration, KeepsRest
<1>1. CASE Stays
  BY <1>1 DEF Stays
<1>2. CASE OpensBluetooth
  BY <1>2, EndEffect DEF OpensBluetooth
<1>3. CASE LeavesBluetooth
  <2>1. ~userRequested' /\ userRequested' \in BOOLEAN /\ display' = "other" /\ loopPc' = "gate"
    BY <1>3 DEF LeavesBluetooth
  <2> QED
    BY <1>3, <2>1 DEF LeavesBluetooth
<1>4. CASE GoesHome
  <2>1. ~userRequested' /\ userRequested' \in BOOLEAN /\ display' = "other" /\ loopPc' = "gate"
    BY <1>4 DEF GoesHome
  <2> QED
    BY <1>4, <2>1, EndEffect DEF GoesHome
<1>5. CASE OpensPanel
  BY <1>5, EndEffect DEF OpensPanel
<1>6. CASE ClosesPanel
  BY <1>6 DEF ClosesPanel
<1>7. CASE OpensNetwork
  BY <1>7, EndEffect DEF OpensNetwork
<1>8. CASE UsesWifi
  BY <1>8 DEF UsesWifi
<1>9. CASE LeavesNetwork
  BY <1>9 DEF LeavesNetwork
<1>10. CASE DeviceRestarts
  BY <1>10 DEF DeviceRestarts, Deinit
<1> QED
  BY <1>1, <1>2, <1>3, <1>4, <1>5, <1>6, <1>7, <1>8, <1>9, <1>10 DEF Activities

\* The host task never starts the radio, and moves state_ between active states only.
LEMMA HostStep == LinkInv /\ Host => LinkInv'
<1> SUFFICES ASSUME LinkInv, Host PROVE LinkInv'
    OBVIOUS
<1> USE DEF LinkInv, MainKeeps
<1>1. CASE CentralConnects
  BY <1>1 DEF CentralConnects
<1>2. CASE onConnected
  BY <1>2 DEF onConnected
<1>3. CASE ConnectionFails
  BY <1>3 DEF ConnectionFails
<1>4. CASE onDisconnected
  BY <1>4 DEF onDisconnected
<1>5. CASE AdvertisingRestarts \/ RadioDies
  BY <1>5 DEF AdvertisingRestarts, RadioDies
<1>6. CASE onCommandWritten \/ TimePasses
  BY <1>6 DEF onCommandWritten, TimePasses
<1> QED
  BY <1>1, <1>2, <1>3, <1>4, <1>5, <1>6 DEF Host

\* Every step of the loop and of the host task keeps the invariant.
LEMMA LinkNextInv == LinkInv /\ [LinkNext]_linkVars => LinkInv'
<1> SUFFICES ASSUME LinkInv, [LinkNext]_linkVars PROVE LinkInv'
    OBVIOUS
<1>1. CASE Gate
  BY <1>1, GateStep
<1>2. CASE PollKillsZombie \/ PollHeap
  BY <1>2, PollStep
<1>3. CASE Pump
  BY <1>3, PumpStep
<1>4. CASE Ticks
  BY <1>4, TickStep
<1>5. CASE Activities
  BY <1>5, ActivityStep
<1>6. CASE Host
  BY <1>6, HostStep
<1>7. CASE UNCHANGED linkVars
  BY <1>7 DEF linkVars, LinkInv
<1> QED
  BY <1>1, <1>2, <1>3, <1>4, <1>5, <1>6, <1>7 DEF LinkNext, Main

-----------------------------------------------------------------------------
(* The theorems.                                                           *)

HIDE DEF LinkTypeOK, RadioExclusion, StateTellsRadio, RadioReturned,
         OutcomeIsCurrent, WantedOnItsScreen, InBegin, PastGate, OneIdle,
         Active, ble, jobs, wish, Commands, Finished

\* BlePeripheralManager, the dispatcher and the caches keep the inductive invariant.
THEOREM LinkInvariance == LinkSpec => []LinkInv
  BY LinkInitInv, LinkNextInv, PTL DEF LinkSpec

\* Every variable keeps its type, and a central is only there while the radio is
\* silent: the controller stops advertising on CONNECT_IND.
THEOREM LinkTypeCorrect == LinkSpec => []LinkTypeOK
<1>1. LinkInv => LinkTypeOK
  BY DEF LinkInv
<1> QED
  BY <1>1, LinkInvariance, PTL

\* WiFi and BLE never hold the radio together: every WiFi.mode() that is not
\* WIFI_MODE_NULL finds NimBLE stopped (BleWifiScanCache.cpp:92-107).
THEOREM RadiosExclude == LinkSpec => []RadioExclusion
<1>1. LinkInv => RadioExclusion
  BY DEF LinkInv
<1> QED
  BY <1>1, LinkInvariance, PTL

\* Off and PausedLowMemory mean a stopped stack (BlePeripheralManager.h:34).
THEOREM StateIsHonest == LinkSpec => []StateTellsRadio
<1>1. LinkInv => StateTellsRadio
  BY DEF LinkInv
<1> QED
  BY <1>1, LinkInvariance, PTL

\* A scan never aborts a connection attempt, nor the reverse: the startup gates of
\* requestScan() and requestConnect().
THEOREM JobsExclude == LinkSpec => []CachesExclude
<1>1. LinkInv => CachesExclude
  BY DEF LinkInv, OneIdle, CachesExclude, Busy
<1> QED
  BY <1>1, LinkInvariance, PTL

\* finishScan() and finishConnect() return the radio on every path.
THEOREM JobsReturnRadio == LinkSpec => []RadioReturned
<1>1. LinkInv => RadioReturned
  BY DEF LinkInv
<1> QED
  BY <1>1, LinkInvariance, PTL

\* device.info never reports a connection behind a failed attempt: finishConnect()
\* clears the outcome on every failure path.
THEOREM OutcomeCurrent == LinkSpec => []OutcomeIsCurrent
<1>1. LinkInv => OutcomeIsCurrent
  BY DEF LinkInv
<1> QED
  BY <1>1, LinkInvariance, PTL

\* BluetoothActivity's onEnter() and onExit() are enough to scope BLE to its screen.
THEOREM ScopedToScreen == LinkSpec => []WantedOnItsScreen
<1>1. LinkInv => WantedOnItsScreen
  BY DEF LinkInv
<1> QED
  BY <1>1, LinkInvariance, PTL
=============================================================================
