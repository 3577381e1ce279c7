---------------------------- MODULE ProviderProofs ----------------------------
(***************************************************************************)
(* Proofs about two parts of the provider clients.  DigiMatch, for lists   *)
(* of any length and any input: whatever match() is given, no purchase     *)
(* order is lost or shown twice, nothing that fits is left, and no choice  *)
(* depends in silence on the order the database happened to return.  And   *)
(* ConnectorSetup, which shares no variable with it: what is stored as a   *)
(* credential has been answered by the provider, and what a fetch brings   *)
(* (SyncFetch) is what the provider holds, for lists and pages of any      *)
(* length, whichever way the client pages.                                 *)
(***************************************************************************)
EXTENDS DigiMatch, ConnectorSetup, FiniteSetTheorems, WellFoundedInduction, TLAPS

(* ------------------------- Least and greatest -------------------------- *)

LEMMA LeastNatural ==
    ASSUME NEW S \in SUBSET Nat, S # {}
    PROVE  \E x \in S : \A y \in S : x =< y
<1> DEFINE R == {ss \in Nat \X Nat : ss[1] < ss[2]}
<1>1. IsWellFoundedOn(R, Nat)
  BY NatLessThanWellFounded DEF OpToRel
<1>2. PICK x \in S : \A y \in S : ~(<<y, x>> \in R)
  <2> HIDE DEF R
  <2> QED
    BY <1>1, WFMin
<1>3. ASSUME NEW i \in Nat, NEW j \in Nat, i < j PROVE <<i, j>> \in R
  BY <1>3
<1> HIDE DEF R
<1>4. ASSUME NEW y \in S PROVE x =< y
  <2>1. x \in Nat /\ y \in Nat
    OBVIOUS
  <2>2. ~(<<y, x>> \in R)
    BY <1>2
  <2>3. ~(y < x)
    BY <1>3, <2>1, <2>2
  <2> QED
    BY <2>1, <2>3
<1> QED
  BY <1>4

LEMMA FirstIn ==
    ASSUME NEW S \in SUBSET Nat, S # {}
    PROVE  First(S) \in S
BY LeastNatural DEF First

(* A finite list has an end: were there prefixes with no bound, there      *)
(* would be a shortest one.                                                *)
LEMMA Bounded ==
    ASSUME NEW S \in SUBSET Nat, IsFiniteSet(S)
    PROVE  \E u \in Nat : \A y \in S : y =< u
<1>1. PICK n \in Nat : ExistsBijection(1 .. n, S)
  BY FS_CardinalityType
<1>2. PICK f \in [1 .. n -> S] : \A y \in S : \E i \in 1 .. n : f[i] = y
  BY <1>1 DEF ExistsBijection, Bijection, Injection, Surjection
<1>3. \A i \in 1 .. n : f[i] \in Nat
  OBVIOUS
<1> DEFINE B(k) == \E u \in Nat : \A i \in 1 .. k : f[i] =< u
           K == {k \in Nat : k =< n /\ ~B(k)}
<1>4. K = {}
  <2> SUFFICES ASSUME K # {} PROVE FALSE
    OBVIOUS
  <2>1. PICK k \in K : \A j \in K : k =< j
    <3>1. K \in SUBSET Nat
      OBVIOUS
    <3> HIDE DEF K
    <3> QED
      BY <3>1, LeastNatural
  <2>2. k \in Nat /\ k =< n /\ ~B(k) /\ \A j \in Nat : j =< n /\ ~B(j) => k =< j
    BY <2>1
  <2>3. B(0)
    <3>1. 0 \in Nat /\ \A i \in 1 .. 0 : f[i] =< 0
      OBVIOUS
    <3> QED
      BY <3>1
  <2> HIDE DEF B, K
  <2>4. k \in Nat \ {0}
    BY <2>2, <2>3
  <2>5. k - 1 \in Nat /\ k - 1 =< n /\ ~(k =< k - 1)
    BY <2>2, <2>4
  <2>6. B(k - 1)
    BY <2>2, <2>5
  <2>7. PICK u \in Nat : \A i \in 1 .. k - 1 : f[i] =< u
    BY <2>6 DEF B
  <2>8. f[k] \in Nat
    BY <1>3, <2>2, <2>4
  <2>9. PICK v \in Nat : u =< v /\ f[k] =< v
    BY <2>8
  <2>10. ASSUME NEW i \in 1 .. k PROVE f[i] =< v
    <3>1. f[i] \in Nat
      BY <1>3, <2>2
    <3>2. CASE i = k
      BY <2>9, <3>2
    <3>3. CASE i # k
      <4>1. i \in 1 .. k - 1
        BY <2>2, <3>3
      <4>2. f[i] =< u
        BY <2>7, <4>1
      <4> QED
        BY <2>9, <3>1, <4>2
    <3> QED
      BY <3>2, <3>3
  <2> QED
    BY <2>2, <2>10 DEF B
<1>5. B(n)
  <2> HIDE DEF B, K
  <2>1. n \notin K
    BY <1>4
  <2>2. n \in Nat /\ n =< n
    OBVIOUS
  <2> QED
    BY <2>1, <2>2 DEF K
<1>6. PICK u \in Nat : \A i \in 1 .. n : f[i] =< u
  BY <1>5
<1> QED
  BY <1>2, <1>6

LEMMA GreatestNatural ==
    ASSUME NEW S \in SUBSET Nat, IsFiniteSet(S), S # {}
    PROVE  \E x \in S : \A y \in S : y =< x
<1> DEFINE U == {u \in Nat : \A y \in S : y =< u}
<1>1. PICK u \in U : \A v \in U : u =< v
  <2>1. U \in SUBSET Nat /\ U # {}
    BY Bounded
  <2> HIDE DEF U
  <2> QED
    BY <2>1, LeastNatural
<1>2. u \in Nat /\ \A y \in S : y =< u /\ y \in Nat
  OBVIOUS
<1>3. u \in S
  <2> SUFFICES ASSUME u \notin S PROVE FALSE
    OBVIOUS
  <2>1. \A y \in S : y < u /\ y \in Nat
    BY <1>2
  <2>2. u - 1 \in Nat
    <3>1. PICK y \in S : y < u /\ y \in Nat
      BY <2>1
    <3> QED
      BY <1>2, <3>1
  <2>3. u - 1 \in U
    BY <1>2, <2>1, <2>2
  <2> QED
    BY <1>1, <1>2, <2>2, <2>3
<1> QED
  BY <1>2, <1>3

LEMMA LastIn ==
    ASSUME NEW S \in SUBSET Nat, IsFiniteSet(S), S # {}
    PROVE  LastOf(S) \in S
BY GreatestNatural DEF LastOf

(* -------------------------- The best of several ------------------------ *)

Fitting(b) == {s \in Sales : Candidate(b, s)}
Unbeaten(b, S) == {s \in S : \A t \in S : ~Beats(b, t, s)}

LEMMA Measured ==
    ASSUME in \in InputType, NEW b \in Orders, in.placed[b] # NoDay, NEW s \in Fitting(b)
    PROVE  /\ Gap(b, s) \in Int /\ Size(Gap(b, s)) \in 0 .. 45
           /\ Score(b, s) \in Int /\ Score(b, s) =< 11 /\ -3 =< Score(b, s)
<1>1. in.placed[b] \in Int /\ in.date[s] \in Int /\ in.name[b][s] \in 0 .. 2
  BY MatchAssumption DEF InputType, Fitting, Candidate
<1>2. Gap(b, s) \in Int
  BY <1>1 DEF Gap, DaysSince
<1>3. Size(Gap(b, s)) \in 0 .. 45
  BY <1>2 DEF Fitting, Candidate, DaysAfter, DaysBefore, Size
<1>4. Closeness(Size(Gap(b, s))) \in 0 .. 3
  BY DEF Closeness
<1>5. /\ (IF in.zip[b][s] THEN 3 ELSE 0) \in {0, 3}
      /\ (IF s \in in.bought THEN 1 ELSE 0) \in {0, 1}
      /\ (IF Fulfilled(b, s) THEN 3 ELSE 0) \in {0, 3}
  OBVIOUS
<1>6. Score(b, s) \in Int /\ Score(b, s) =< 11 /\ -3 =< Score(b, s)
  BY <1>1, <1>4, <1>5 DEF Score
<1> QED
  BY <1>2, <1>3, <1>6

LEMMA BestIn ==
    ASSUME in \in InputType, NEW b \in Orders, in.placed[b] # NoDay, Fitting(b) # {}
    PROVE  Best(b, Fitting(b)) \in Unbeaten(b, Fitting(b))
<1> DEFINE Cost(s) == (11 - Score(b, s)) * 100 + Size(Gap(b, s))
           Costs == {Cost(s) : s \in Fitting(b)}
<1>1. \A s \in Fitting(b) : Cost(s) \in Nat
  BY Measured
<1>2. PICK s \in Fitting(b) : \A t \in Fitting(b) : Cost(s) =< Cost(t)
  <2>1. Costs \in SUBSET Nat /\ Costs # {}
    BY <1>1
  <2>2. PICK c \in Costs : \A d \in Costs : c =< d
    <3> HIDE DEF Costs
    <3> QED
      BY <2>1, LeastNatural
  <2> QED
    BY <2>2
<1>3. ASSUME NEW t \in Fitting(b), Beats(b, t, s) PROVE FALSE
  <2>1. /\ Score(b, s) \in Int /\ Score(b, t) \in Int
        /\ Size(Gap(b, s)) \in 0 .. 45 /\ Size(Gap(b, t)) \in 0 .. 45
    BY Measured
  <2>2. Cost(s) =< Cost(t)
    BY <1>2
  <2> QED
    BY <1>3, <2>1, <2>2 DEF Beats
<1>4. Unbeaten(b, Fitting(b)) # {}
  BY <1>3 DEF Unbeaten
<1>5. Unbeaten(b, Fitting(b)) \in SUBSET Nat
  BY MatchAssumption DEF Unbeaten, Fitting
<1> QED
  BY <1>4, <1>5, FirstIn DEF Best, Unbeaten

FittingOrphans(b) == {p \in Orphans : Adoptable(b, p)}

LEMMA BestOrphanIn ==
    ASSUME in \in InputType, NEW b \in Orders, in.placed[b] # NoDay, FittingOrphans(b) # {}
    PROVE  BestOrphan(b, FittingOrphans(b)) \in FittingOrphans(b)
<1> DEFINE Cost(p) == (2 - in.orphanName[b][p]) * 10 + OrphanGap(b, p)
           Costs == {Cost(p) : p \in FittingOrphans(b)}
           Fits == {p \in FittingOrphans(b) : \A q \in FittingOrphans(b) :
                       \/ in.orphanName[b][p] > in.orphanName[b][q]
                       \/ /\ in.orphanName[b][p] = in.orphanName[b][q]
                          /\ OrphanGap(b, p) =< OrphanGap(b, q)}
<1>1. ASSUME NEW p \in FittingOrphans(b)
      PROVE  OrphanGap(b, p) \in 0 .. 3 /\ in.orphanName[b][p] \in 0 .. 2
  <2>1. in.placed[b] \in Int /\ in.orphanDate[p] \in Int /\ in.orphanName[b][p] \in 0 .. 2
    BY MatchAssumption DEF InputType, FittingOrphans, Adoptable
  <2>2. OrphanGap(b, p) \in Nat
    BY <2>1 DEF OrphanGap, Distance, DaysSince, Size
  <2> QED
    BY <2>1, <2>2 DEF FittingOrphans, Adoptable
<1>2. PICK p \in FittingOrphans(b) : \A q \in FittingOrphans(b) : Cost(p) =< Cost(q)
  <2>1. Costs \in SUBSET Nat /\ Costs # {}
    BY <1>1
  <2>2. PICK c \in Costs : \A d \in Costs : c =< d
    <3> HIDE DEF Costs
    <3> QED
      BY <2>1, LeastNatural
  <2> QED
    BY <2>2
<1>3. p \in Fits
  BY <1>1, <1>2
<1>4. Fits \in SUBSET Nat
  BY MatchAssumption DEF FittingOrphans
<1>5. First(Fits) \in Fits
  <2> HIDE DEF Fits
  <2> QED
    BY <1>3, <1>4, FirstIn
<1> QED
  BY <1>5 DEF BestOrphan

(* --------------------------- The invariant ----------------------------- *)

Passes == {"exact", "likely", "orphans", "rows", "done"}

(* What an order has been matched to so far: by name to the best of those  *)
(* that fit, to an orphan only once it is claimed.                         *)
ByName(b) ==
    links[b].how = "name" =>
        /\ pass # "exact" /\ in.placed[b] # NoDay /\ Fitting(b) # {}
        /\ links[b] = LikelyLink(b, Best(b, Fitting(b)), Fitting(b))
Adopted(b) ==
    links[b].to = "orphan" =>
        /\ pass \notin {"exact", "likely"}
        /\ links[b].number \in Orphans /\ <<"orphan", links[b].number>> \in claimed
Alone(b, c) ==
    b # c /\ links[b].to = "orphan" /\ links[c].to = "orphan" => links[b].number # links[c].number

(* What an order that is matched to nothing has been tried for.            *)
Tried(b)  == (pass = "likely" /\ b \in turn) \/ pass \in {"orphans", "rows", "done"}
Looked(b) == (pass = "orphans" /\ b \in turn) \/ pass \in {"rows", "done"}
Loose(b)  == links[b] = Unlinked /\ in.placed[b] # NoDay
Unfit(b)  == Loose(b) => /\ Tried(b) => Fitting(b) = {}
                         /\ Looked(b) => FittingOrphans(b) = {}

(* The rows written so far.                                                *)
RowsNamed ==
    /\ pass \in {"rows", "done"} => used = UNION {Shown(b) : b \in turn}
    /\ pass \notin {"rows", "done"} => used = {}
    /\ pass = "done" => turn = Orders /\ leftOver = PurchaseOrders \ used

MInv ==
    /\ TypeOK
    /\ \A b \in Orders : ByName(b) /\ Adopted(b) /\ Unfit(b)
    /\ \A b, c \in Orders : Alone(b, c)
    /\ RowsNamed

(* Where the number of a link is from.                                     *)
LEMMA Homes ==
    LET home == [none |-> {Nobody}, sale |-> Sales, orphan |-> Orphans]
    IN home["none"] = {Nobody} /\ home["sale"] = Sales /\ home["orphan"] = Orphans
OBVIOUS

LEMMA InputTyped == TypeOK => in \in InputType
BY MatchAssumption DEF TypeOK

LEMMA InitMInv == Init => MInv
<1> SUFFICES ASSUME Init PROVE MInv
  OBVIOUS
<1>1. /\ in \in Inputs /\ pass = "exact" /\ turn = {}
      /\ claimed = {} /\ used = {} /\ leftOver = {}
      /\ links = [b \in Orders |-> Unlinked] /\ hint = [b \in Orders |-> {}]
  BY DEF Init
<1>2. /\ Unlinked \in LinkType /\ Unlinked.to = "none" /\ Unlinked.how = ""
      /\ Unlinked.number = Nobody
  BY DEF Unlinked, LinkType
<1>3. TypeOK
  <2>1. \A b \in Orders : links[b] = Unlinked
    BY <1>1
  <2>2. links \in [Orders -> LinkType]
    BY <1>1, <1>2
  <2>3. \A b \in Orders :
           links[b].number \in [none |-> {Nobody}, sale |-> Sales, orphan |-> Orphans][links[b].to]
    BY <1>2, <2>1, Homes
  <2> QED
    BY <1>1, <2>2, <2>3 DEF TypeOK
<1>4. \A b \in Orders : ByName(b) /\ Adopted(b) /\ Unfit(b)
  BY <1>1, <1>2 DEF ByName, Adopted, Unfit, Tried, Looked
<1>5. \A b, c \in Orders : Alone(b, c)
  BY <1>1, <1>2 DEF Alone
<1>6. RowsNamed
  BY <1>1 DEF RowsNamed
<1> QED
  BY <1>3, <1>4, <1>5, <1>6 DEF MInv

(* Steps that match nothing anew to a High confidence leave every score.   *)
LEMMA SameScores ==
    ASSUME in' = in,
           \A c \in Orders : links[c].confidence = "High" \/ links'[c].confidence = "High" =>
               links'[c] = links[c]
    PROVE  \A b : /\ Fitting(b)' = Fitting(b)
                  /\ Best(b, Fitting(b))' = Best(b, Fitting(b))
                  /\ LikelyLink(b, Best(b, Fitting(b)), Fitting(b))'
                       = LikelyLink(b, Best(b, Fitting(b)), Fitting(b))
<1>1. \A b, s : Fulfilled(b, s)' <=> Fulfilled(b, s)
  BY DEF Fulfilled
<1>2. \A b, s : Gap(b, s)' = Gap(b, s)
  BY DEF Gap
<1>3. \A b : Fitting(b)' = Fitting(b)
  BY <1>2 DEF Fitting, Candidate
<1>4. \A b, s : Score(b, s)' = Score(b, s)
  BY <1>1, <1>2 DEF Score
<1>5. \A b, s, t : Beats(b, s, t)' <=> Beats(b, s, t)
  BY <1>2, <1>4 DEF Beats
<1>6. \A b, S : Best(b, S)' = Best(b, S)
  BY <1>5 DEF Best
<1>7. ASSUME NEW b
      PROVE  LikelyLink(b, Best(b, Fitting(b)), Fitting(b))'
               = LikelyLink(b, Best(b, Fitting(b)), Fitting(b))
  <2>1. \A s, S : LikelyLink(b, s, S)' = LikelyLink(b, s, S)
    BY <1>1, <1>4 DEF LikelyLink
  <2> QED
    BY <1>3, <1>6, <2>1
<1> QED
  BY <1>3, <1>6, <1>7

(* A link that is written is of its type.                                  *)
LEMMA LinkTyped ==
    ASSUME TypeOK, NEW b \in Orders, NEW link \in LinkType, links' = [links EXCEPT ![b] = link],
           link.number \in [none |-> {Nobody}, sale |-> Sales, orphan |-> Orphans][link.to]
    PROVE  /\ links' \in [Orders -> LinkType]
           /\ \A c \in Orders :
                 links'[c].number \in [none |-> {Nobody}, sale |-> Sales, orphan |-> Orphans][links'[c].to]
<1>1. links \in [Orders -> LinkType]
  BY DEF TypeOK
<1>2. links'[b] = link /\ \A c \in Orders \ {b} : links'[c] = links[c]
  BY <1>1
<1> QED
  BY <1>1, <1>2 DEF TypeOK

LEMMA ExactStep ==
    ASSUME MInv, NEW b \in Orders, MatchExactly(b)
    PROVE  MInv'
<1>1. /\ pass = "exact" /\ turn' = turn \cup {b} /\ links' = [links EXCEPT ![b] = ExactLink(b)]
      /\ UNCHANGED <<in, pass, claimed, used, hint, leftOver>> /\ TypeOK /\ links \in [Orders -> LinkType]
  BY DEF MatchExactly, Turn, MInv, TypeOK
<1>2. PICK link : link = ExactLink(b)
  OBVIOUS
<1>3. /\ link \in LinkType /\ link.how # "name" /\ link.to # "orphan"
      /\ link.number \in [none |-> {Nobody}, sale |-> Sales, orphan |-> Orphans][link.to]
  <2>1. in \in InputType
    BY <1>1, InputTyped
  <2>2. CASE in.named[b] # {}
    <3>1. in.named[b] \in SUBSET Nat /\ in.named[b] \subseteq Sales
      BY <2>1, MatchAssumption DEF InputType
    <3>2. First(in.named[b]) \in Sales
      BY <2>2, <3>1, FirstIn
    <3> QED
      BY <1>2, <2>2, <3>2, Homes DEF ExactLink, LinkType
  <2>3. CASE in.named[b] = {} /\ in.tracked[b] # Nobody
    <3>1. in.tracked[b] \in Sales
      BY <2>1, <2>3 DEF InputType
    <3> QED
      BY <1>2, <2>3, <3>1, Homes DEF ExactLink, LinkType
  <2>4. CASE in.named[b] = {} /\ in.tracked[b] = Nobody
    BY <1>2, <2>4, Homes DEF ExactLink, LinkType, Unlinked
  <2> QED
    BY <2>2, <2>3, <2>4
<1>4. links'[b] = link /\ \A c \in Orders \ {b} : links'[c] = links[c]
  BY <1>1, <1>2
<1>5. TypeOK'
  BY <1>1, <1>2, <1>3, LinkTyped DEF TypeOK, PurchaseOrders
<1>6. \A c \in Orders : links'[c].how # "name" /\ links'[c].to # "orphan"
  BY <1>1, <1>3, <1>4 DEF MInv, ByName, Adopted
<1>7. \A c \in Orders : ByName(c)' /\ Adopted(c)' /\ Unfit(c)'
  BY <1>1, <1>6 DEF ByName, Adopted, Unfit, Tried, Looked
<1>8. \A c, d \in Orders : Alone(c, d)'
  BY <1>6 DEF Alone
<1>9. RowsNamed'
  BY <1>1 DEF MInv, RowsNamed
<1> QED
  BY <1>5, <1>7, <1>8, <1>9 DEF MInv

LEMMA UnlinkedIsUnsure == Unlinked.confidence # "High"
BY DEF Unlinked

LEMMA LikelyStep ==
    ASSUME MInv, NEW b \in Orders, MatchLikely(b)
    PROVE  MInv'
<1>1. /\ pass = "likely" /\ turn' = turn \cup {b}
      /\ UNCHANGED <<in, pass, claimed, used, hint, leftOver>> /\ TypeOK /\ links \in [Orders -> LinkType]
  BY DEF MatchLikely, Turn, MInv, TypeOK
<1>2. \A c \in Orders : Looked(c)' <=> FALSE
  BY <1>1 DEF Looked
<1>3. RowsNamed'
  BY <1>1 DEF MInv, RowsNamed
<1>4. CASE links' = links /\ ~(Loose(b) /\ Fitting(b) # {})
  <2>1. TypeOK'
    BY <1>1, <1>4 DEF TypeOK, PurchaseOrders
  <2>2. \A c \in Orders : Fitting(c)' = Fitting(c) /\ (Loose(c)' <=> Loose(c))
    BY <1>1, <1>4 DEF Fitting, Candidate, Gap, Loose
  <2>3. \A c \in Orders : ByName(c)'
    BY <1>1, <1>4, SameScores DEF MInv, ByName
  <2>4. \A c \in Orders : Adopted(c)'
    BY <1>1, <1>4 DEF MInv, Adopted
  <2>5. \A c \in Orders : Unfit(c)'
    BY <1>1, <1>2, <1>4, <2>2 DEF MInv, Unfit, Tried
  <2>6. \A c, d \in Orders : Alone(c, d)'
    BY <1>4 DEF MInv, Alone
  <2> QED
    BY <1>3, <2>1, <2>3, <2>4, <2>5, <2>6 DEF MInv
<1>5. CASE /\ Loose(b) /\ Fitting(b) # {}
           /\ links' = [links EXCEPT ![b] = LikelyLink(b, Best(b, Fitting(b)), Fitting(b))]
  <2>1. PICK link : link = LikelyLink(b, Best(b, Fitting(b)), Fitting(b))
    OBVIOUS
  <2>2. Best(b, Fitting(b)) \in Sales
    BY <1>1, <1>5, InputTyped, BestIn DEF Loose, Unbeaten, Fitting
  <2>3. /\ link \in LinkType /\ link.to = "sale" /\ link.confidence # "High" /\ link # Unlinked
        /\ link.number \in [none |-> {Nobody}, sale |-> Sales, orphan |-> Orphans][link.to]
    BY <2>1, <2>2, Homes DEF LikelyLink, LinkType, Unlinked
  <2>4. links'[b] = link /\ \A c \in Orders \ {b} : links'[c] = links[c]
    BY <1>1, <1>5, <2>1
  <2>5. TypeOK'
    BY <1>1, <1>5, <2>1, <2>3, LinkTyped DEF TypeOK, PurchaseOrders
  <2>6. \A c : /\ Fitting(c)' = Fitting(c)
               /\ LikelyLink(c, Best(c, Fitting(c)), Fitting(c))' = LikelyLink(c, Best(c, Fitting(c)), Fitting(c))
    <3>1. \A c \in Orders : links[c].confidence = "High" \/ links'[c].confidence = "High" =>
              links'[c] = links[c]
      <4>1. links[b].confidence # "High"
        <5>1. links[b] = Unlinked
          BY <1>5 DEF Loose
        <5> QED
          BY <5>1, UnlinkedIsUnsure
      <4>2. links'[b].confidence # "High"
        BY <2>3, <2>4
      <4> QED
        BY <2>4, <4>1, <4>2
    <3> QED
      BY <1>1, <3>1, SameScores
  <2>7. \A c \in Orders : ByName(c)'
    BY <1>1, <1>5, <2>1, <2>4, <2>6 DEF MInv, ByName, Loose
  <2>8. \A c \in Orders : Adopted(c)'
    BY <1>1, <2>3, <2>4 DEF MInv, Adopted
  <2>9. \A c \in Orders : Unfit(c)'
    BY <1>1, <1>2, <2>3, <2>4, <2>6 DEF MInv, Unfit, Tried, Loose
  <2>10. \A c, d \in Orders : Alone(c, d)'
    BY <2>3, <2>4 DEF MInv, Alone
  <2> QED
    BY <1>3, <2>5, <2>7, <2>8, <2>9, <2>10 DEF MInv
<1> QED
  BY <1>4, <1>5 DEF MatchLikely, Fitting, Loose

LEMMA OrphanStep ==
    ASSUME MInv, NEW b \in Orders, MatchOrphan(b)
    PROVE  MInv'
<1>1. /\ pass = "orphans" /\ turn' = turn \cup {b}
      /\ UNCHANGED <<in, pass, used, hint, leftOver>> /\ TypeOK /\ links \in [Orders -> LinkType]
  BY DEF MatchOrphan, Turn, MInv, TypeOK
<1>2. RowsNamed'
  BY <1>1 DEF MInv, RowsNamed
<1>3. \A c \in Orders : Tried(c) /\ (Looked(c)' <=> Looked(c) \/ c = b)
  BY <1>1 DEF Tried, Looked
<1>4. CASE links' = links /\ claimed' = claimed /\ ~(Loose(b) /\ FittingOrphans(b) # {})
  <2>1. TypeOK'
    BY <1>1, <1>4 DEF TypeOK, PurchaseOrders
  <2>2. \A c \in Orders : Fitting(c)' = Fitting(c) /\ FittingOrphans(c)' = FittingOrphans(c) /\ (Loose(c)' <=> Loose(c))
    BY <1>1, <1>4 DEF Fitting, Candidate, Gap, FittingOrphans, Adoptable, OrphanGap, Loose
  <2>3. \A c \in Orders : ByName(c)'
    BY <1>1, <1>4, SameScores DEF MInv, ByName
  <2>4. \A c \in Orders : Adopted(c)'
    BY <1>1, <1>4 DEF MInv, Adopted
  <2>5. \A c \in Orders : Unfit(c)'
    BY <1>3, <1>4, <2>2 DEF MInv, Unfit
  <2>6. \A c, d \in Orders : Alone(c, d)'
    BY <1>4 DEF MInv, Alone
  <2> QED
    BY <1>2, <2>1, <2>3, <2>4, <2>5, <2>6 DEF MInv
<1>5. ASSUME links[b].confidence # "High",
             NEW p \in FittingOrphans(b), links' = [links EXCEPT ![b] = OrphanLink(b, p)],
             claimed' = claimed \cup {<<"orphan", p>>}
      PROVE  MInv'
  <2>1. PICK link : link = OrphanLink(b, p)
    OBVIOUS
  <2>2. p \in Orphans /\ <<"orphan", p>> \notin claimed /\ <<"orphan", p>> \in PurchaseOrders
    BY DEF FittingOrphans, Adoptable, PurchaseOrders
  <2>3. /\ link \in LinkType /\ link.to = "orphan" /\ link.number = p /\ link.confidence # "High"
        /\ link.how # "name" /\ link # Unlinked
        /\ link.number \in [none |-> {Nobody}, sale |-> Sales, orphan |-> Orphans][link.to]
    BY <2>1, <2>2, Homes DEF OrphanLink, LinkType, Unlinked
  <2>4. links'[b] = link /\ \A c \in Orders \ {b} : links'[c] = links[c]
    BY <1>1, <1>5, <2>1
  <2>5. TypeOK'
    BY <1>1, <1>5, <2>1, <2>2, <2>3, LinkTyped DEF TypeOK, PurchaseOrders
  <2>6. \A c : /\ Fitting(c)' = Fitting(c)
               /\ LikelyLink(c, Best(c, Fitting(c)), Fitting(c))' = LikelyLink(c, Best(c, Fitting(c)), Fitting(c))
    <3>1. \A c \in Orders : links[c].confidence = "High" \/ links'[c].confidence = "High" =>
              links'[c] = links[c]
      BY <1>5, <2>3, <2>4
    <3> QED
      BY <1>1, <3>1, SameScores
  <2>7. \A c \in Orders : ByName(c)'
    BY <1>1, <2>3, <2>4, <2>6 DEF MInv, ByName
  <2>8. \A c \in Orders : Adopted(c)'
    BY <1>1, <1>5, <2>2, <2>3, <2>4 DEF MInv, Adopted
  <2>9. \A c : FittingOrphans(c)' \subseteq FittingOrphans(c)
    BY <1>1, <1>5 DEF FittingOrphans, Adoptable, OrphanGap
  <2>10. \A c \in Orders : Unfit(c)'
    BY <1>1, <1>3, <2>3, <2>4, <2>6, <2>9 DEF MInv, Unfit, Loose
  <2>11. \A c, d \in Orders : Alone(c, d)'
    BY <2>2, <2>3, <2>4 DEF MInv, Alone, Adopted
  <2> QED
    BY <1>2, <2>5, <2>7, <2>8, <2>10, <2>11 DEF MInv
<1>6. CASE \/ links[b].confidence = "High" \/ in.placed[b] = NoDay \/ FittingOrphans(b) = {}
           \/ ~GivesWay(b, BestOrphan(b, FittingOrphans(b)))
  <2>1. links' = links /\ claimed' = claimed
    BY <1>6 DEF MatchOrphan, FittingOrphans
  <2>2. ASSUME Loose(b), FittingOrphans(b) # {} PROVE FALSE
    <3>1. links[b] = Unlinked /\ in.placed[b] # NoDay
      BY <2>2 DEF Loose
    <3>2. links[b].confidence # "High"
      BY <3>1, UnlinkedIsUnsure
    <3>3. GivesWay(b, BestOrphan(b, FittingOrphans(b)))
      BY <3>1 DEF GivesWay
    <3> QED
      BY <1>6, <2>2, <3>1, <3>2, <3>3
  <2> QED
    BY <1>4, <2>1, <2>2
<1>7. CASE /\ links[b].confidence # "High" /\ in.placed[b] # NoDay /\ FittingOrphans(b) # {}
           /\ GivesWay(b, BestOrphan(b, FittingOrphans(b)))
  <2>1. BestOrphan(b, FittingOrphans(b)) \in FittingOrphans(b)
    BY <1>1, <1>7, InputTyped, BestOrphanIn
  <2>2. /\ links' = [links EXCEPT ![b] = OrphanLink(b, BestOrphan(b, FittingOrphans(b)))]
        /\ claimed' = claimed \cup {<<"orphan", BestOrphan(b, FittingOrphans(b))>>}
    BY <1>7 DEF MatchOrphan, FittingOrphans
  <2> QED
    BY <1>5, <1>7, <2>1, <2>2
<1> QED
  BY <1>6, <1>7

(* Once the rows are written, nothing is matched any more.                 *)
LEMMA SameLinks ==
    ASSUME MInv, UNCHANGED <<in, links>>, pass # "exact" => pass' # "exact",
           TypeOK', RowsNamed', \A b \in Orders : Adopted(b)' /\ Unfit(b)'
    PROVE  MInv'
<1>1. \A b \in Orders : ByName(b)'
  BY SameScores DEF MInv, ByName
<1>2. \A b, c \in Orders : Alone(b, c)'
  BY DEF MInv, Alone
<1> QED
  BY <1>1, <1>2 DEF MInv

LEMMA RowStep ==
    ASSUME MInv, NEW b \in Orders, WriteRow(b)
    PROVE  MInv'
<1>1. /\ pass = "rows" /\ turn' = turn \cup {b} /\ used' = used \cup Shown(b)
      /\ UNCHANGED <<in, pass, links, claimed, leftOver>> /\ TypeOK
  BY DEF WriteRow, Turn, MInv
<1>2. \A c : Shown(c)' = Shown(c) /\ Shown(c) \subseteq PurchaseOrders
  BY <1>1 DEF Shown, PurchaseOrders
<1>3. hint' \in [Orders -> SUBSET PurchaseOrders]
  <2>1. hint \in [Orders -> SUBSET PurchaseOrders]
    BY <1>1 DEF TypeOK
  <2>2. CASE hint' = hint
    BY <2>1, <2>2
  <2>3. CASE hint' = [hint EXCEPT ![b] = {po \in PurchaseOrders \ used : SameCustomer(b, po)}]
    BY <2>1, <2>3
  <2> QED
    BY <2>2, <2>3 DEF WriteRow
<1>4. TypeOK'
  BY <1>1, <1>2, <1>3 DEF TypeOK, PurchaseOrders
<1>5. RowsNamed'
  <2>1. used = UNION {Shown(c) : c \in turn}
    BY <1>1 DEF MInv, RowsNamed
  <2>2. used' = UNION {Shown(c) : c \in turn'}
    BY <1>1, <2>1
  <2>3. used' = UNION {Shown(c)' : c \in turn'}
    BY <1>2, <2>2
  <2> QED
    BY <1>1, <2>3 DEF RowsNamed
<1>6. \A c \in Orders : Adopted(c)' /\ Unfit(c)'
  BY <1>1 DEF MInv, Adopted, Unfit, Loose, Tried, Looked, Fitting, FittingOrphans, Candidate, Gap,
              Adoptable, OrphanGap
<1> QED
  BY <1>1, <1>4, <1>5, <1>6, SameLinks

LEMMA Follows ==
    /\ Following["exact"] = "likely" /\ Following["likely"] = "orphans"
    /\ Following["orphans"] = "rows" /\ Following["rows"] = "done"
BY DEF Following

LEMMA EndStep ==
    ASSUME MInv, EndPass
    PROVE  MInv'
<1>1. /\ UNCHANGED <<in, links, used, hint>> /\ turn = Orders /\ TypeOK
      /\ pass' = Following[pass] /\ pass \in Passes \ {"done"}
      /\ turn' = IF pass = "rows" THEN Orders ELSE {}
      /\ claimed' = IF pass = "likely" THEN Claims ELSE claimed
      /\ leftOver' = IF pass = "rows" THEN PurchaseOrders \ used ELSE leftOver
  BY DEF EndPass, MInv, TypeOK, Passes
<1>2. Claims \subseteq PurchaseOrders
  BY DEF Claims, PurchaseOrders
<1>3. pass' \in Passes \ {"exact"}
  BY <1>1, Follows DEF Passes
<1>4. TypeOK'
  BY <1>1, <1>2, <1>3 DEF TypeOK, PurchaseOrders, Passes
<1>5. \A b : Fitting(b)' = Fitting(b) /\ (Loose(b)' <=> Loose(b)) /\ Shown(b)' = Shown(b)
  BY <1>1 DEF Fitting, Loose, Candidate, Gap, Shown, PurchaseOrders
<1>6. CASE pass = "exact"
  <2>1. pass' = "likely" /\ turn' = {} /\ claimed' = claimed
    BY <1>1, <1>6, Follows
  <2>2. \A b \in Orders : Adopted(b)' /\ Unfit(b)'
    BY <1>1, <1>6, <2>1 DEF MInv, Adopted, Unfit, Tried, Looked
  <2>3. RowsNamed'
    BY <1>1, <1>6, <2>1 DEF MInv, RowsNamed
  <2> QED
    BY <1>1, <1>3, <1>4, <2>2, <2>3, SameLinks
<1>7. CASE pass = "likely"
  <2>1. pass' = "orphans" /\ turn' = {}
    BY <1>1, <1>7, Follows
  <2>2. \A b \in Orders : Adopted(b)' /\ Unfit(b)'
    BY <1>1, <1>5, <1>7, <2>1 DEF MInv, Adopted, Unfit, Tried, Looked
  <2>3. RowsNamed'
    BY <1>1, <1>7, <2>1 DEF MInv, RowsNamed
  <2> QED
    BY <1>1, <1>3, <1>4, <2>2, <2>3, SameLinks
<1>8. CASE pass \in {"orphans", "rows"}
  <2>1. pass' \in {"rows", "done"} /\ claimed' = claimed
    BY <1>1, <1>8, Follows
  <2>2. \A b : FittingOrphans(b)' = FittingOrphans(b)
    BY <1>1, <2>1 DEF FittingOrphans, Adoptable, OrphanGap
  <2>3. \A b \in Orders : Adopted(b)' /\ Unfit(b)'
    BY <1>1, <1>5, <1>8, <2>1, <2>2 DEF MInv, Adopted, Unfit, Tried, Looked
  <2>4. RowsNamed'
    <3>1. CASE pass = "orphans"
      BY <1>1, <3>1, Follows DEF MInv, RowsNamed
    <3>2. CASE pass = "rows"
      <4>1. used' = UNION {Shown(b)' : b \in turn'}
        BY <1>1, <1>5, <3>2 DEF MInv, RowsNamed
      <4>2. pass' = "done" /\ turn' = Orders /\ leftOver' = PurchaseOrders' \ used'
        BY <1>1, <3>2, Follows DEF PurchaseOrders
      <4> QED
        BY <4>1, <4>2 DEF RowsNamed
    <3> QED
      BY <1>8, <3>1, <3>2
  <2> QED
    BY <1>1, <1>3, <1>4, <2>3, <2>4, SameLinks
<1> QED
  BY <1>1, <1>6, <1>7, <1>8 DEF Passes

LEMMA NextMInv == MInv /\ [Next]_vars => MInv'
<1> SUFFICES ASSUME MInv, [Next]_vars PROVE MInv'
  OBVIOUS
<1>1. CASE UNCHANGED vars
  <2>1. UNCHANGED <<in, pass, turn, links, claimed, used, hint, leftOver>>
    BY <1>1 DEF vars
  <2>2. TypeOK'
    BY <2>1 DEF MInv, TypeOK, PurchaseOrders
  <2>3. RowsNamed'
    <3>1. \A c : Shown(c)' = Shown(c)
      BY <2>1 DEF Shown, PurchaseOrders
    <3> QED
      BY <2>1, <3>1 DEF MInv, RowsNamed, PurchaseOrders
  <2>4. \A c \in Orders : Adopted(c)' /\ Unfit(c)'
    BY <2>1 DEF MInv, Adopted, Unfit, Loose, Tried, Looked, Fitting, FittingOrphans, Candidate, Gap,
                Adoptable, OrphanGap
  <2> QED
    BY <2>1, <2>2, <2>3, <2>4, SameLinks
<1>2. CASE Next
  BY <1>1, <1>2, ExactStep, LikelyStep, OrphanStep, RowStep, EndStep DEF Next, Returned
<1> QED
  BY <1>1, <1>2

LEMMA MatchInvariant == Spec => []MInv
BY InitMInv, NextMInv, PTL DEF Spec

(* Every variable of match() keeps its type: a link's number is one of the *)
(* list it says, for any input.                                            *)
THEOREM MatchTypeCorrect == Spec => []TypeOK
<1>1. MInv => TypeOK
  BY DEF MInv
<1> QED
  BY <1>1, MatchInvariant, PTL

(* The rows match() writes name every purchase order, in the row of the    *)
(* orders it was matched to or in one of its own, and no orphan twice,     *)
(* whatever the queries return.                                            *)
THEOREM EveryPoIsShownOnce == Spec => []EveryPoShownOnce
<1>1. ASSUME MInv PROVE EveryPoShownOnce
  <2>1. ASSUME pass = "done"
        PROVE  leftOver = {po \in PurchaseOrders : \A b \in Orders : po \notin Shown(b)}
    <3>1. used = UNION {Shown(b) : b \in Orders} /\ leftOver = PurchaseOrders \ used
      BY <1>1, <2>1 DEF MInv, RowsNamed
    <3> QED
      BY <3>1
  <2>2. ASSUME NEW b \in Orders, NEW c \in Orders, b # c, links[b].to = "orphan"
        PROVE  Shown(b) # Shown(c)
    <3>1. <<"orphan", links[b].number>> \in Shown(b)
      BY <1>1, <2>2 DEF MInv, Adopted, Shown, PurchaseOrders
    <3>2. <<"orphan", links[b].number>> \notin Shown(c)
      BY <1>1, <2>2 DEF MInv, Alone, Shown
    <3> QED
      BY <3>1, <3>2
  <2> QED
    BY <2>1, <2>2 DEF EveryPoShownOnce
<1> QED
  BY <1>1, MatchInvariant, PTL

(* match() leaves an order unmatched only if no sales order fits it by     *)
(* name and date, and no orphan does that another order has not taken.     *)
THEOREM UnmatchedFitNothing == Spec => []UnmatchedFitsNothing
<1>1. ASSUME MInv PROVE UnmatchedFitsNothing
  <2> SUFFICES ASSUME NEW b \in Orders, pass \in {"rows", "done"}, Loose(b)
               PROVE  (\A s \in Sales : ~Candidate(b, s)) /\ (\A p \in Orphans : ~Adoptable(b, p))
    BY DEF UnmatchedFitsNothing, Loose
  <2>1. Fitting(b) = {} /\ FittingOrphans(b) = {}
    BY <1>1 DEF MInv, Unfit, Tried, Looked
  <2> QED
    BY <2>1 DEF Fitting, FittingOrphans
<1> QED
  BY <1>1, MatchInvariant, PTL

(* The list of sales orders comes from a query without ORDER BY: where its *)
(* order decided which of them an order was matched to by name, the row    *)
(* says that another fits equally well.                                    *)
THEOREM TiesAreTold == Spec => []TieIsTold
<1>1. ASSUME MInv PROVE TieIsTold
  <2> SUFFICES ASSUME NEW b \in Orders, links[b].how = "name",
                      LastOf(Unbeaten(b, Fitting(b))) # links[b].number
               PROVE  "tie" \in links[b].notes
    BY DEF TieIsTold, Unbeaten, Fitting
  <2> DEFINE best == Best(b, Fitting(b))
             other == LastOf(Unbeaten(b, Fitting(b)))
  <2>1. /\ in \in InputType /\ in.placed[b] # NoDay /\ Fitting(b) # {}
        /\ links[b] = LikelyLink(b, best, Fitting(b))
    BY <1>1, InputTyped DEF MInv, ByName
  <2>2. best \in Unbeaten(b, Fitting(b))
    BY <2>1, BestIn
  <2>3. other \in Unbeaten(b, Fitting(b))
    <3>1. Unbeaten(b, Fitting(b)) \in SUBSET Nat /\ Unbeaten(b, Fitting(b)) \in SUBSET Sales
      BY MatchAssumption DEF Unbeaten, Fitting
    <3>2. IsFiniteSet(Unbeaten(b, Fitting(b)))
      BY <3>1, MatchAssumption, FS_Subset
    <3> QED
      BY <2>2, <3>1, <3>2, LastIn
  <2> HIDE DEF best, other
  <2>4. best \in Fitting(b) /\ other \in Fitting(b) /\ ~Beats(b, best, other) /\ ~Beats(b, other, best)
    BY <2>2, <2>3 DEF Unbeaten
  <2>5. Score(b, best) \in Int /\ Score(b, other) \in Int
    BY <2>1, <2>4, Measured
  <2>6. Score(b, other) = Score(b, best)
    BY <2>4, <2>5 DEF Beats
  <2>7. links[b].number = best
    BY <2>1 DEF LikelyLink
  <2>8. other \in Fitting(b) \ {best}
    BY <2>4, <2>7 DEF other
  <2> QED
    BY <2>1, <2>6, <2>8 DEF LikelyLink
<1> QED
  BY <1>1, MatchInvariant, PTL

(* --------------------- The life of a credential ------------------------ *)

Providers == DOMAIN Probes

(* Either the first request of discover() must be answered, and every      *)
(* other can be done without, or any one of them is enough.                *)
LEMMA WaysOfAsking ==
    ASSUME NEW p \in Providers
    PROVE  /\ Len(Probes[p]) \in 1 .. 5 /\ DOMAIN Probes[p] = 1 .. Len(Probes[p])
           /\ \/ Probes[p][1] = "must" /\ \A i \in 2 .. Len(Probes[p]) : Probes[p][i] = "optional"
              \/ \A i \in 1 .. Len(Probes[p]) : Probes[p][i] = "either"
<1>1. CASE p = "meta"
  BY <1>1 DEF Probes
<1>2. CASE p = "shippo"
  BY <1>2 DEF Probes
<1>3. CASE p = "ssactivewear"
  BY <1>3 DEF Probes
<1>4. CASE p = "riin"
  BY <1>4 DEF Probes
<1> QED
  BY <1>1, <1>2, <1>3, <1>4 DEF Providers, Probes

SetupTyped ==
    /\ provider \in Providers /\ valid \subseteq Tokens
    /\ request \in Requests
    /\ stored \in [token : Tokens \cup {NoToken}, found : SUBSET (1 .. 5),
                   accepted : SUBSET Tokens, replaced : BOOLEAN]

(* A discovery that got past the request it cannot do without, or past the *)
(* last of several alternatives, was answered with the token it has now:   *)
(* the exchange comes before the first of them.                            *)
Asked(p, req) ==
    /\ req.exchange => req.next = 1
    /\ req.next > 1 /\ Probes[p][1] = "must" => req.token \in req.accepted
    /\ req.next > Len(Probes[p]) => req.token \in req.accepted

SetupInv == SetupTyped /\ Asked(provider, request) /\ StoredWasAccepted

LEMMA UnaskedIsAsked ==
    ASSUME NEW p \in Providers, NEW req, req.next = 1
    PROVE  Asked(p, req)
<1>1. Len(Probes[p]) \in 1 .. 5
  BY WaysOfAsking
<1>2. ~(1 > 1) /\ \A l \in 1 .. 5 : ~(1 > l)
  OBVIOUS
<1> QED
  BY <1>1, <1>2 DEF Asked

LEMMA NothingIsAsked ==
    ASSUME NEW p \in Providers
    PROVE  Idle \in Requests /\ Idle.next = 1 /\ Asked(p, Idle)
<1>1. Idle \in Requests /\ Idle.next = 1
  BY DEF Idle, Requests
<1> QED
  BY <1>1, UnaskedIsAsked

LEMMA RequestIsAsked ==
    ASSUME NEW p \in Providers, NEW op \in {"discover", "create", "refresh"},
           NEW t \in Tokens \cup {NoToken}, NEW req,
           \/ req = [Idle EXCEPT !.op = op, !.token = t]
           \/ \E exchange \in BOOLEAN : req = [Idle EXCEPT !.op = op, !.token = t, !.exchange = exchange]
    PROVE  req \in Requests /\ Asked(p, req)
<1>1. Idle \in Requests /\ Idle.next = 1
  BY NothingIsAsked
<1>2. req \in Requests /\ req.next = 1
  BY <1>1 DEF Requests
<1> QED
  BY <1>2, UnaskedIsAsked

LEMMA InitSetupInv == SetupInit => SetupInv
<1> SUFFICES ASSUME SetupInit PROVE SetupInv
  OBVIOUS
<1>1. provider \in Providers /\ valid = Tokens /\ request = Idle
      /\ stored = [token |-> NoToken, found |-> {}, accepted |-> {}, replaced |-> FALSE]
  BY DEF SetupInit, Providers
<1>2. stored \in [token : Tokens \cup {NoToken}, found : SUBSET (1 .. 5),
                  accepted : SUBSET Tokens, replaced : BOOLEAN]
  BY <1>1
<1>3. StoredWasAccepted
  BY <1>1 DEF StoredWasAccepted
<1> QED
  BY <1>1, <1>2, <1>3, NothingIsAsked DEF SetupInv, SetupTyped

(* A route under way is asked about; nothing is stored.                    *)
LEMMA AskStep ==
    ASSUME SetupInv, UNCHANGED <<provider, stored>>, valid' \subseteq Tokens,
           request' \in Requests, Asked(provider, request')
    PROVE  SetupInv'
BY DEF SetupInv, SetupTyped, Asked, StoredWasAccepted

LEMMA SubmitStep ==
    ASSUME SetupInv, Submit \/ Refresh \/ Exchange
    PROVE  SetupInv'
<1>1. provider \in Providers /\ valid \subseteq Tokens /\ request \in Requests
      /\ Asked(provider, request) /\ stored.token \in Tokens \cup {NoToken}
      /\ UNCHANGED <<provider, valid, stored>>
  BY DEF SetupInv, SetupTyped, Submit, Refresh, Exchange
<1>2. CASE Submit
  <2>1. PICK op \in {"discover", "create"}, asked4long \in BOOLEAN :
            request' = [Idle EXCEPT !.op = op, !.token = "short",
                                          !.exchange = asked4long /\ provider \in SupportsExchange]
    BY <1>2 DEF Submit
  <2>2. "short" \in Tokens /\ (asked4long /\ provider \in SupportsExchange) \in BOOLEAN
    BY DEF Tokens
  <2>3. \E exchange \in BOOLEAN :
            request' = [Idle EXCEPT !.op = op, !.token = "short", !.exchange = exchange]
    BY <2>1, <2>2
  <2> QED
    BY <1>1, <2>2, <2>3, RequestIsAsked, AskStep
<1>3. CASE Refresh
  <2>1. request' = [Idle EXCEPT !.op = "refresh", !.token = stored.token]
    BY <1>3 DEF Refresh
  <2> QED
    BY <1>1, <2>1, RequestIsAsked, AskStep
<1>4. CASE Exchange
  <2>1. /\ request.exchange /\ request.next = 1
        /\ \/ request' = [request EXCEPT !.token = "long", !.exchange = FALSE]
           \/ request' = [request EXCEPT !.exchange = FALSE]
    BY <1>1, <1>4 DEF Exchange, Asked
  <2>2. request' \in Requests /\ request'.next = 1
    BY <1>1, <2>1 DEF Requests, Tokens
  <2>3. Asked(provider, request')
    BY <1>1, <2>2, UnaskedIsAsked
  <2> QED
    BY <1>1, <2>2, <2>3, AskStep
<1> QED
  BY <1>2, <1>3, <1>4

LEMMA ProbeStep ==
    ASSUME SetupInv, ProbeAnswered \/ ProbeRejected \/ ProbeFailed
    PROVE  SetupInv'
<1> DEFINE ways == Probes[provider]
<1>1. /\ provider \in Providers /\ valid \subseteq Tokens /\ request \in Requests
      /\ Asked(provider, request) /\ UNCHANGED <<provider, valid, stored>>
      /\ Asking
  BY DEF SetupInv, SetupTyped, ProbeAnswered, ProbeRejected, ProbeFailed
<1>2. /\ request.next \in 1 .. Len(ways) /\ ~request.exchange /\ Len(ways) \in 1 .. 5
      /\ \/ ways[1] = "must" /\ \A i \in 2 .. Len(ways) : ways[i] = "optional"
         \/ \A i \in 1 .. Len(ways) : ways[i] = "either"
  BY <1>1, WaysOfAsking DEF Asking
<1>3. CASE request' = Idle
  BY <1>1, <1>3, NothingIsAsked, AskStep
<1>4. CASE ProbeAnswered
  <2>1. /\ request.token \in valid
        /\ \E next \in {Len(ways) + 1, request.next + 1} :
              request' = [request EXCEPT !.found = @ \cup {request.next}, !.accepted = @ \cup {request.token},
                                         !.next = next]
    BY <1>4 DEF ProbeAnswered, Way
  <2>2. request' \in Requests
    <3>1. PICK next \in {Len(ways) + 1, request.next + 1} :
              request' = [request EXCEPT !.found = @ \cup {request.next}, !.accepted = @ \cup {request.token},
                                         !.next = next]
      BY <2>1
    <3>2. next \in 1 .. 6
      <4>1. Len(ways) + 1 \in 1 .. 6 /\ request.next + 1 \in 1 .. 6
        <5>1. Len(ways) \in 1 .. 5
          BY <1>2
        <5>2. \A l \in 1 .. 5 : \A n \in 1 .. l : l + 1 \in 1 .. 6 /\ n + 1 \in 1 .. 6
          OBVIOUS
        <5>3. request.next \in 1 .. Len(ways)
          BY <1>2
        <5> HIDE DEF ways
        <5> QED
          BY <5>1, <5>2, <5>3
      <4> QED
        BY <4>1
    <3>3. request.next \in 1 .. 5 /\ request.token \in Tokens
      BY <1>1, <1>2, <2>1
    <3> QED
      BY <1>1, <3>1, <3>2, <3>3 DEF Requests
  <2>3. request'.token \in request'.accepted /\ ~request'.exchange
    BY <1>1, <1>2, <2>1 DEF Requests
  <2> QED
    BY <1>1, <2>2, <2>3, AskStep DEF Asked
<1>5. CASE /\ request' = [request EXCEPT !.next = @ + 1]
           /\ \/ ways[request.next] = "optional"
              \/ ways[request.next] = "either" /\ request.next < Len(ways)
  <2>1. /\ request' \in Requests /\ request'.next = request.next + 1
        /\ request'.token = request.token /\ request'.accepted = request.accepted /\ ~request'.exchange
    BY <1>1, <1>2, <1>5 DEF Requests
  <2>2. CASE ways[request.next] = "optional"
    <3>1. request.next \in 2 .. Len(ways) /\ ways[1] = "must"
      BY <1>2, <2>2
    <3> QED
      BY <1>1, <2>1, <3>1, AskStep DEF Asked
  <2>3. CASE ways[request.next] = "either" /\ request.next < Len(ways)
    <3>1. ways[1] # "must" /\ ~(request.next + 1 > Len(ways))
      BY <1>2, <2>3
    <3> QED
      BY <1>1, <2>1, <3>1, AskStep DEF Asked
  <2> QED
    BY <1>5, <2>2, <2>3
<1>6. CASE ProbeRejected
  BY <1>3, <1>5, <1>6 DEF ProbeRejected, Refuse, Way
<1>7. CASE ProbeFailed
  <2>1. Way = ways[request.next]
    BY DEF Way
  <2>2. CASE Way = "optional" \/ (Way = "either" /\ request.next < Len(ways))
    BY <1>5, <1>7, <2>1, <2>2 DEF ProbeFailed
  <2>3. CASE ~(Way = "optional" \/ (Way = "either" /\ request.next < Len(ways)))
    BY <1>3, <1>7, <2>3 DEF ProbeFailed, Refuse
  <2> QED
    BY <2>2, <2>3
<1> QED
  BY <1>4, <1>6, <1>7

(* Only a discovery that found something is stored.                        *)
LEMMA StoreStep ==
    ASSUME SetupInv, Store \/ Show \/ ShowRefreshed
    PROVE  SetupInv'
<1>1. /\ provider \in Providers /\ valid \subseteq Tokens /\ request \in Requests
      /\ Asked(provider, request) /\ UNCHANGED <<provider, valid>> /\ request' = Idle
      /\ stored \in [token : Tokens \cup {NoToken}, found : SUBSET (1 .. 5),
                     accepted : SUBSET Tokens, replaced : BOOLEAN]
      /\ request.next > Len(Probes[provider]) /\ StoredWasAccepted
  BY DEF SetupInv, SetupTyped, Store, Show, ShowRefreshed, Found
<1>2. CASE stored' = stored
  BY <1>1, <1>2, NothingIsAsked, AskStep
<1>3. CASE stored' = [token |-> request.token, found |-> request.found,
                      accepted |-> request.accepted, replaced |-> FALSE]
  <2>1. request.token \in request.accepted
    BY <1>1 DEF Asked
  <2>2. stored' \in [token : Tokens \cup {NoToken}, found : SUBSET (1 .. 5),
                     accepted : SUBSET Tokens, replaced : BOOLEAN]
    BY <1>1, <1>3 DEF Requests
  <2>3. StoredWasAccepted'
    BY <1>3, <2>1 DEF StoredWasAccepted
  <2> QED
    BY <1>1, <2>2, <2>3, NothingIsAsked DEF SetupInv, SetupTyped
<1>4. CASE stored' = [stored EXCEPT !.found = request.found]
  <2>1. /\ stored' \in [token : Tokens \cup {NoToken}, found : SUBSET (1 .. 5),
                        accepted : SUBSET Tokens, replaced : BOOLEAN]
        /\ StoredWasAccepted'
    BY <1>1, <1>4 DEF Requests, StoredWasAccepted
  <2> QED
    BY <1>1, <2>1, NothingIsAsked DEF SetupInv, SetupTyped
<1> QED
  BY <1>2, <1>3, <1>4 DEF Store, Show, ShowRefreshed

LEMMA OtherSetupStep ==
    ASSUME SetupInv, \/ Replace \/ Expire \/ Add \/ Fetch \/ Shift
                     \/ UNCHANGED clientVars
    PROVE  SetupInv'
<1>1. /\ valid \subseteq Tokens /\ request \in Requests /\ Asked(provider, request)
      /\ stored \in [token : Tokens \cup {NoToken}, found : SUBSET (1 .. 5),
                     accepted : SUBSET Tokens, replaced : BOOLEAN]
  BY DEF SetupInv, SetupTyped
<1>2. CASE Replace
  <2>1. stored' = [stored EXCEPT !.token = "other", !.replaced = TRUE] /\ UNCHANGED <<provider, valid, request>>
    BY <1>2 DEF Replace
  <2>2. /\ stored' \in [token : Tokens \cup {NoToken}, found : SUBSET (1 .. 5),
                        accepted : SUBSET Tokens, replaced : BOOLEAN]
        /\ StoredWasAccepted'
    BY <1>1, <2>1 DEF Tokens, StoredWasAccepted
  <2> QED
    BY <2>1, <2>2 DEF SetupInv, SetupTyped, Asked
<1>3. CASE Expire
  BY <1>1, <1>3, AskStep DEF Expire
<1>4. CASE UNCHANGED <<provider, valid, request, stored>>
  BY <1>1, <1>4, AskStep
<1> QED
  BY <1>2, <1>3, <1>4 DEF Add, Fetch, Shift, setupVars, clientVars

LEMMA NextSetupInv == SetupInv /\ [SetupNext]_clientVars => SetupInv'
BY SubmitStep, ProbeStep, StoreStep, OtherSetupStep DEF SetupNext, SetupStep

(* create_connector stores what discover() has been answered with, by any  *)
(* provider and in whatever way it answers: whether the token was          *)
(* exchanged or the exchange failed, whichever requests fail, and whenever *)
(* a token expires.                                                        *)
THEOREM StoredWorked == SetupSpec => []StoredWasAccepted
<1>1. SetupInv => StoredWasAccepted
  BY DEF SetupInv
<1> QED
  BY <1>1, InitSetupInv, NextSetupInv, PTL DEF SetupSpec

(* ------------------------- The list of a provider ---------------------- *)

LEMMA PlaceTyped ==
    ASSUME NEW S \in SUBSET Nat, IsFiniteSet(S), NEW r
    PROVE  /\ Place(S, r) \in Nat /\ Place(S, r) =< Cardinality(S)
           /\ r \in S => Place(S, r) >= 1
           /\ Cardinality(S) \in Nat
<1> DEFINE U == {q \in S : q >= r}
<1>1. U \in SUBSET S
  OBVIOUS
<1>2. IsFiniteSet(U) /\ Cardinality(U) =< Cardinality(S)
  BY <1>1, FS_Subset
<1>3. Cardinality(U) \in Nat /\ Cardinality(S) \in Nat
  BY <1>2, FS_CardinalityType
<1>4. ASSUME r \in S PROVE Cardinality(U) # 0
  <2>1. r \in U
    BY <1>4
  <2> QED
    BY <1>2, <2>1, FS_EmptySet
<1> HIDE DEF U
<1>5. Cardinality(U) = Place(S, r)
  BY DEF U, Place
<1> QED
  BY <1>2, <1>3, <1>4, <1>5

(* More records, a later place.                                            *)
LEMMA PlaceGrows ==
    ASSUME NEW T \in SUBSET Nat, IsFiniteSet(T), NEW S \in SUBSET T, NEW r
    PROVE  Place(S, r) =< Place(T, r)
<1>1. {q \in S : q >= r} \in SUBSET {q \in T : q >= r}
  OBVIOUS
<1>2. IsFiniteSet({q \in T : q >= r})
  <2>1. {q \in T : q >= r} \in SUBSET T
    OBVIOUS
  <2> QED
    BY <2>1, FS_Subset
<1> QED
  BY <1>1, <1>2, FS_Subset DEF Place

LEMMA NewestFirst ==
    ASSUME NEW S \in SUBSET Nat, IsFiniteSet(S), NEW n \in Nat,
           NEW r \in Newest(S, n), NEW q \in S \ Newest(S, n)
    PROVE  r > q
<1> SUFFICES ASSUME q >= r PROVE FALSE
  BY DEF Newest
<1>1. r \in Nat /\ q \in Nat /\ r \in S
  BY DEF Newest
<1>2. {x \in S : x >= q} \in SUBSET {x \in S : x >= r}
  <2>1. \A x \in S : x \in Nat /\ (x >= q => x >= r)
    BY <1>1
  <2> QED
    BY <2>1
<1>3. {x \in S : x >= r} \in SUBSET S
  OBVIOUS
<1>4. IsFiniteSet({x \in S : x >= r})
  BY <1>3, FS_Subset
<1>5. Place(S, q) =< Place(S, r)
  BY <1>2, <1>4, FS_Subset DEF Place
<1>6. Place(S, q) \in Nat /\ Place(S, r) \in Nat
  BY PlaceTyped
<1> QED
  BY <1>5, <1>6 DEF Newest

LEMMA NewestPart ==
    ASSUME NEW S \in SUBSET Nat, IsFiniteSet(S), NEW n \in Nat
    PROVE  /\ Newest(S, n) \in SUBSET S /\ IsFiniteSet(Newest(S, n))
           /\ Cardinality(Newest(S, n)) \in Nat
<1>1. Newest(S, n) \in SUBSET S
  BY DEF Newest
<1> QED
  BY <1>1, FS_Subset, FS_CardinalityType

(* A page has no more than was asked for; with fewer it is the last.       *)
LEMMA NewestCount ==
    ASSUME NEW S \in SUBSET Nat, IsFiniteSet(S), NEW n \in Nat
    PROVE  /\ Cardinality(Newest(S, n)) =< n
           /\ Cardinality(Newest(S, n)) < n => Newest(S, n) = S
<1> DEFINE F == Newest(S, n)
           From(x) == {q \in S : q >= x}
<1>1. F \in SUBSET S /\ IsFiniteSet(F) /\ Cardinality(F) \in Nat /\ F \in SUBSET Nat
  BY NewestPart
<1>2. \A r \in S : Place(S, r) \in Nat /\ (Place(S, r) =< n <=> r \in F)
  BY PlaceTyped DEF Newest
<1>3. \A x : IsFiniteSet(From(x)) /\ Cardinality(From(x)) = Place(S, x)
  <2>1. \A x : From(x) \in SUBSET S
    OBVIOUS
  <2> QED
    BY <2>1, FS_Subset DEF Place
<1>4. \A r \in F : \A q \in S \ F : r > q
  BY NewestFirst
<1> HIDE DEF F
<1>5. Cardinality(F) =< n
  <2>1. CASE F = {}
    BY <2>1, FS_EmptySet
  <2>2. CASE F # {}
    <3>1. PICK x \in F : \A y \in F : x =< y
      BY <1>1, <2>2, LeastNatural
    <3>2. F \in SUBSET From(x)
      BY <1>1, <3>1
    <3>3. Cardinality(F) =< Cardinality(From(x))
      BY <1>3, <3>2, FS_Subset
    <3> QED
      BY <1>1, <1>2, <1>3, <3>1, <3>3
  <2> QED
    BY <2>1, <2>2
<1>6. ASSUME Cardinality(F) < n, F # S PROVE FALSE
  <2>1. S \ F \in SUBSET Nat /\ S \ F # {} /\ IsFiniteSet(S \ F)
    BY <1>1, <1>6, FS_Difference
  <2>2. PICK x \in S \ F : \A y \in S \ F : y =< x
    BY <2>1, GreatestNatural
  <2>3. From(x) \in SUBSET (F \cup {x})
    <3>1. ASSUME NEW q \in S, q >= x, q \notin F PROVE q = x
      BY <2>2, <3>1
    <3> QED
      BY <3>1
  <2>4. IsFiniteSet(F \cup {x}) /\ Cardinality(F \cup {x}) = Cardinality(F) + 1
    BY <1>1, FS_AddElement
  <2>5. Cardinality(From(x)) =< Cardinality(F) + 1
    BY <2>3, <2>4, FS_Subset
  <2>6. Place(S, x) =< n
    BY <1>1, <1>2, <1>3, <1>6, <2>5
  <2> QED
    BY <1>2, <2>6
<1> QED
  BY <1>5, <1>6 DEF F

LEMMA AllIsNewest ==
    ASSUME NEW S \in SUBSET Nat, IsFiniteSet(S), NEW n \in Nat, Cardinality(S) =< n
    PROVE  Newest(S, n) = S
<1>1. \A r \in S : Place(S, r) \in Nat /\ Cardinality(S) \in Nat /\ Place(S, r) =< Cardinality(S)
  BY PlaceTyped
<1>2. \A r \in S : Place(S, r) =< n
  BY <1>1
<1> QED
  BY <1>2 DEF Newest

LEMMA NoneIsNewest ==
    ASSUME NEW S \in SUBSET Nat, IsFiniteSet(S)
    PROVE  Newest(S, 0) = {}
<1>1. \A r \in S : Place(S, r) \in Nat /\ Place(S, r) >= 1
  BY PlaceTyped
<1>2. \A r \in S : ~(Place(S, r) =< 0)
  BY <1>1
<1> QED
  BY <1>2 DEF Newest

(* The page that begins where another ends goes on where it ended.         *)
LEMMA PageFollows ==
    ASSUME NEW S \in SUBSET Nat, IsFiniteSet(S), NEW k \in Nat, NEW n \in Nat
    PROVE  Newest(S, k + n) = Newest(S, k) \cup Newest(S \ Newest(S, k), n)
<1> DEFINE F == Newest(S, k)
           R == S \ F
<1>1. F \in SUBSET S /\ IsFiniteSet(F) /\ Cardinality(F) \in Nat /\ F \in SUBSET Nat
  BY NewestPart
<1>2. R \in SUBSET Nat /\ IsFiniteSet(R)
  BY FS_Difference
<1>3. \A r \in S : Place(S, r) \in Nat /\ (Place(S, r) =< k <=> r \in F)
  BY PlaceTyped DEF Newest
<1>4. \A r \in F : r \in Newest(S, k + n)
  BY <1>1, <1>3 DEF Newest
<1>5. CASE F = S
  BY <1>4, <1>5 DEF Newest
<1>6. CASE F # S
  <2>1. Cardinality(F) = k
    BY <1>1, <1>6, NewestCount
  <2>2. ASSUME NEW r \in R PROVE Place(S, r) = k + Place(R, r) /\ Place(R, r) \in Nat
    <3> DEFINE V == {q \in R : q >= r}
    <3>1. \A q \in F : q > r
      BY NewestFirst
    <3>2. {q \in S : q >= r} = F \cup V
      BY <1>1, <3>1
    <3>3. IsFiniteSet(V) /\ F \cap V = {}
      <4>1. V \in SUBSET R /\ F \cap V = {}
        OBVIOUS
      <4> HIDE DEF V, F, R
      <4> QED
        BY <1>2, <4>1, FS_Subset
    <3>4. Cardinality(V) = Place(R, r)
      BY DEF Place
    <3>5. Place(R, r) \in Nat
      BY <1>2, PlaceTyped
    <3>6. Cardinality(F \cup V) = Cardinality(F) + Cardinality(V) - 0
      <4> HIDE DEF V, F, R
      <4> QED
        BY <1>1, <3>3, FS_Union, FS_EmptySet
    <3>7. Place(S, r) = Cardinality(F \cup V)
      BY <3>2 DEF Place
    <3> HIDE DEF V, F, R
    <3> QED
      BY <2>1, <3>4, <3>5, <3>6, <3>7
  <2>3. \A r \in R : r \in Newest(S, k + n) <=> r \in Newest(R, n)
    <3>1. \A r \in R : Place(S, r) =< k + n <=> Place(R, r) =< n
      <4> HIDE DEF F, R
      <4> QED
        BY <2>2
    <3> QED
      BY <3>1 DEF Newest
  <2> QED
    <3>1. Newest(S, k + n) \subseteq S /\ Newest(R, n) \subseteq R
      BY DEF Newest
    <3> QED
      BY <1>1, <1>4, <2>3, <3>1
<1> QED
  BY <1>5, <1>6

(* ------------------------- The rows of a page -------------------------- *)

RowNumbers == Nat \X Nat

UpToRow(X, row) == {x \in X : x[1] > row[1] \/ (x[1] = row[1] /\ x[2] =< row[2])}

LEMMA RowPlaceTyped ==
    ASSUME NEW X \in SUBSET RowNumbers, IsFiniteSet(X), NEW row
    PROVE  /\ UpToRow(X, row) \in SUBSET X /\ IsFiniteSet(UpToRow(X, row))
           /\ RowPlace(X, row) = Cardinality(UpToRow(X, row))
           /\ RowPlace(X, row) \in Nat
           /\ row \in X => RowPlace(X, row) \in 1 .. Cardinality(X)
           /\ Cardinality(X) \in Nat
<1>1. UpToRow(X, row) \in SUBSET X
  BY DEF UpToRow
<1>2. RowPlace(X, row) = Cardinality(UpToRow(X, row))
  BY DEF RowPlace, UpToRow
<1>3. IsFiniteSet(UpToRow(X, row)) /\ Cardinality(UpToRow(X, row)) =< Cardinality(X)
  BY <1>1, FS_Subset
<1>4. Cardinality(UpToRow(X, row)) \in Nat /\ Cardinality(X) \in Nat
  BY <1>3, FS_CardinalityType
<1>5. ASSUME row \in X PROVE Cardinality(UpToRow(X, row)) # 0
  <2>1. row[1] \in Nat /\ row[2] \in Nat
    BY <1>5 DEF RowNumbers
  <2>2. row \in UpToRow(X, row)
    BY <1>5, <2>1 DEF UpToRow
  <2> QED
    BY <1>3, <2>2, FS_EmptySet
<1> QED
  BY <1>1, <1>2, <1>3, <1>4, <1>5

LEMMA SameSequence ==
    ASSUME NEW T, NEW u \in Seq(T), NEW v \in Seq(T), Len(u) = Len(v),
           \A i \in 1 .. Len(u) : u[i] = v[i]
    PROVE  u = v
<1>1. u = [i \in 1 .. Len(u) |-> u[i]] /\ v = [i \in 1 .. Len(v) |-> v[i]]
  OBVIOUS
<1> QED
  BY <1>1

(* Every place is that of one row.                                         *)
LEMMA InOrderIs ==
    ASSUME NEW X \in SUBSET RowNumbers, IsFiniteSet(X)
    PROVE  /\ InOrder(X) \in Seq(RowNumbers) /\ Len(InOrder(X)) = Cardinality(X)
           /\ \A n \in 1 .. Cardinality(X) :
                 InOrder(X)[n] \in X /\ RowPlace(X, InOrder(X)[n]) = n
           /\ \A x \in X : InOrder(X)[RowPlace(X, x)] = x
<1> DEFINE c == Cardinality(X)
           f == [x \in X |-> RowPlace(X, x)]
<1>1. c \in Nat /\ \A x \in X : RowPlace(X, x) \in 1 .. c
  BY RowPlaceTyped
<1>2. ASSUME NEW x \in X, NEW y \in X, x[1] > y[1] \/ (x[1] = y[1] /\ x[2] < y[2])
      PROVE  RowPlace(X, x) # RowPlace(X, y)
  <2>1. x[1] \in Nat /\ x[2] \in Nat /\ y[1] \in Nat /\ y[2] \in Nat
    BY DEF RowNumbers
  <2>2. UpToRow(X, x) \in SUBSET UpToRow(X, y)
    <3>1. \A z \in X : z[1] \in Nat /\ z[2] \in Nat
      BY DEF RowNumbers
    <3>2. ASSUME NEW z \in X, z[1] > x[1] \/ (z[1] = x[1] /\ z[2] =< x[2])
          PROVE  z[1] > y[1] \/ (z[1] = y[1] /\ z[2] =< y[2])
      BY <1>2, <2>1, <3>1, <3>2
    <3> QED
      BY <3>2 DEF UpToRow
  <2>3. y \in UpToRow(X, y) /\ y \notin UpToRow(X, x)
    BY <1>2, <2>1 DEF UpToRow
  <2>4. IsFiniteSet(UpToRow(X, y))
    BY RowPlaceTyped
  <2>5. Cardinality(UpToRow(X, x)) # Cardinality(UpToRow(X, y))
    BY <2>2, <2>3, <2>4, FS_Subset
  <2> QED
    BY <2>5, RowPlaceTyped
<1>3. \A x, y \in X : RowPlace(X, x) = RowPlace(X, y) => x = y
  <2> SUFFICES ASSUME NEW x \in X, NEW y \in X, x # y PROVE RowPlace(X, x) # RowPlace(X, y)
    OBVIOUS
  <2>1. x[1] \in Nat /\ x[2] \in Nat /\ y[1] \in Nat /\ y[2] \in Nat
    BY DEF RowNumbers
  <2>2. x[1] # y[1] \/ x[2] # y[2]
    BY DEF RowNumbers
  <2>3. \/ x[1] > y[1] \/ (x[1] = y[1] /\ x[2] < y[2])
        \/ y[1] > x[1] \/ (y[1] = x[1] /\ y[2] < x[2])
    BY <2>1, <2>2
  <2> QED
    BY <1>2, <2>3
<1>4. f \in Injection(X, 1 .. c)
  <2>1. f \in [X -> 1 .. c] /\ \A x \in X : f[x] = RowPlace(X, x)
    BY <1>1
  <2>2. \A x, y \in X : f[x] = f[y] => x = y
    BY <1>3, <2>1
  <2> HIDE DEF f, c
  <2> QED
    BY <2>1, <2>2 DEF Injection, IsInjective
<1>5. IsFiniteSet(1 .. c) /\ Cardinality(1 .. c) = c
  BY <1>1, FS_Interval
<1>6. f \in Surjection(X, 1 .. c)
  <2> HIDE DEF f
  <2> QED
    BY <1>4, <1>5, FS_Injection
<1>7. \A n \in 1 .. c : \E x \in X : RowPlace(X, x) = n
  BY <1>6 DEF Surjection
<1>8. \A n \in 1 .. c : InOrder(X)[n] \in X /\ RowPlace(X, InOrder(X)[n]) = n
  BY <1>7 DEF InOrder
<1>9. \A x \in X : InOrder(X)[RowPlace(X, x)] = x
  <2> HIDE DEF f
  <2> QED
    BY <1>1, <1>3, <1>8
<1>10. InOrder(X) \in Seq(RowNumbers) /\ Len(InOrder(X)) = c
  <2>1. InOrder(X) = [n \in 1 .. c |-> InOrder(X)[n]]
    BY DEF InOrder
  <2> DEFINE g == InOrder(X)
  <2>2. g = [n \in 1 .. c |-> g[n]] /\ \A n \in 1 .. c : g[n] \in RowNumbers
    BY <1>8, <2>1
  <2> HIDE DEF g, c, f
  <2>3. g \in Seq(RowNumbers) /\ Len(g) = c
    BY <1>1, <2>2
  <2> QED
    BY <2>3 DEF g
<1> QED
  BY <1>8, <1>9, <1>10

(* Rows of newer records come before all rows of older ones.               *)
LEMMA InOrderJoins ==
    ASSUME NEW A \in SUBSET RowNumbers, IsFiniteSet(A),
           NEW B \in SUBSET RowNumbers, IsFiniteSet(B),
           \A a \in A, b \in B : a[1] > b[1]
    PROVE  InOrder(A \cup B) = InOrder(A) \o InOrder(B)
<1> DEFINE X == A \cup B
           m == Cardinality(A)
           n == Cardinality(B)
           s == InOrder(A)
           t == InOrder(B)
           u == InOrder(X)
<1>1. \A x \in X : x[1] \in Nat /\ x[2] \in Nat
  BY DEF RowNumbers
<1>2. A \cap B = {}
  <2>1. ASSUME NEW a \in A, a \in B PROVE FALSE
    <3>1. a[1] > a[1] /\ a[1] \in Nat
      BY <1>1, <2>1
    <3> QED
      BY <3>1
  <2> QED
    BY <2>1
<1>3. m \in Nat /\ n \in Nat /\ X \in SUBSET RowNumbers /\ IsFiniteSet(X)
  BY FS_CardinalityType, FS_Union
<1>4. Cardinality(X) = m + n
  <2> HIDE DEF m, n
  <2>1. Cardinality(X) = Cardinality(A) + Cardinality(B) - Cardinality(A \cap B)
    BY FS_Union
  <2>2. Cardinality(A \cap B) = 0
    BY <1>2, FS_EmptySet
  <2>3. Cardinality(A) = m /\ Cardinality(B) = n
    BY DEF m, n
  <2> QED
    BY <1>3, <2>1, <2>2, <2>3
<1>5. ASSUME NEW a \in A PROVE RowPlace(X, a) = RowPlace(A, a)
  <2>1. \A b \in B : b \notin UpToRow(X, a)
    <3>1. \A b \in B : ~(b[1] > a[1]) /\ b[1] # a[1]
      <4>1. \A b \in B : a[1] > b[1] /\ a[1] \in Nat /\ b[1] \in Nat
        BY <1>1
      <4> QED
        BY <4>1
    <3> QED
      BY <3>1 DEF UpToRow
  <2>2. UpToRow(X, a) = UpToRow(A, a)
    BY <2>1 DEF UpToRow
  <2> QED
    BY <1>3, <2>2, RowPlaceTyped
<1>6. ASSUME NEW b \in B PROVE RowPlace(X, b) = m + RowPlace(B, b)
  <2>1. UpToRow(X, b) = A \cup UpToRow(B, b)
    BY DEF UpToRow
  <2>2. IsFiniteSet(UpToRow(B, b)) /\ UpToRow(B, b) \in SUBSET B
        /\ RowPlace(B, b) = Cardinality(UpToRow(B, b)) /\ RowPlace(B, b) \in Nat
    BY RowPlaceTyped
  <2>3. A \cap UpToRow(B, b) = {}
    BY <1>2, <2>2
  <2>4. Cardinality(A \cup UpToRow(B, b)) = Cardinality(A) + Cardinality(UpToRow(B, b)) - 0
    BY <2>2, <2>3, FS_Union, FS_EmptySet
  <2>5. RowPlace(X, b) = Cardinality(A \cup UpToRow(B, b))
    BY <1>3, <2>1, RowPlaceTyped
  <2>6. m = Cardinality(A)
    OBVIOUS
  <2> HIDE DEF X, m
  <2> QED
    BY <1>3, <2>2, <2>4, <2>5, <2>6
<1>7. s \in Seq(RowNumbers) /\ Len(s) = m /\ t \in Seq(RowNumbers) /\ Len(t) = n
      /\ u \in Seq(RowNumbers) /\ Len(u) = m + n
  BY <1>3, <1>4, InOrderIs
<1>8. /\ \A i \in 1 .. m : s[i] \in A /\ RowPlace(A, s[i]) = i
      /\ \A i \in 1 .. n : t[i] \in B /\ RowPlace(B, t[i]) = i
      /\ \A x \in X : u[RowPlace(X, x)] = x
  BY <1>3, InOrderIs
<1>9. \A i \in 1 .. m : u[i] = s[i]
  <2> HIDE DEF m, n, s, t, u
  <2> QED
    BY <1>5, <1>8
<1>10. \A i \in 1 .. n : u[m + i] = t[i]
  <2> HIDE DEF m, n, s, t, u
  <2> QED
    BY <1>6, <1>8
<1>11. u = s \o t
  <2> HIDE DEF m, n, s, t, u
  <2>1. s \o t \in Seq(RowNumbers) /\ Len(s \o t) = m + n
    BY <1>3, <1>7
  <2>2. \A i \in 1 .. m + n : u[i] = (s \o t)[i]
    <3>1. ASSUME NEW i \in 1 .. m + n PROVE u[i] = (s \o t)[i]
      <4>1. CASE i =< m
        BY <1>3, <1>7, <1>9, <4>1
      <4>2. CASE i > m
        <5>1. i - m \in 1 .. n /\ i = m + (i - m)
          BY <1>3, <4>2
        <5>2. u[i] = t[i - m]
          BY <1>10, <5>1
        <5> QED
          BY <1>3, <1>7, <4>2, <5>2
      <4>3. i =< m \/ i > m
        BY <1>3
      <4> QED
        BY <4>1, <4>2, <4>3
    <3> QED
      BY <3>1
  <2> QED
    BY <1>7, <2>1, <2>2, SameSequence
<1> QED
  BY <1>11

LEMMA RowsTyped ==
    ASSUME NEW page \in SUBSET Records, NEW nested \in BOOLEAN
    PROVE  /\ page \in SUBSET Nat /\ IsFiniteSet(page)
           /\ RowsOf(page, nested) \in SUBSET RowNumbers /\ IsFiniteSet(RowsOf(page, nested))
           /\ \A row \in RowsOf(page, nested) : row[1] \in page
           /\ \A r \in page : <<r, 1>> \in RowsOf(page, nested)
<1> DEFINE upper(r) == IF nested /\ Entries[r] # 0 THEN Entries[r] ELSE 1
           of(r) == {r} \X (1 .. upper(r))
           sets == {of(r) : r \in page}
<1>1. page \in SUBSET Nat /\ IsFiniteSet(page)
  BY FetchAssumption, FS_Subset DEF FetchAssumption
<1>2. \A r \in page : upper(r) \in Nat /\ upper(r) >= 1
  BY FetchAssumption DEF FetchAssumption
<1> HIDE DEF upper
<1>3. \A r \in page : IsFiniteSet(of(r))
  <2>1. ASSUME NEW r \in page PROVE IsFiniteSet(of(r))
    <3>1. IsFiniteSet({r})
      BY FS_Singleton
    <3>2. upper(r) \in Int /\ 1 \in Int
      BY <1>2
    <3>3. IsFiniteSet(1 .. upper(r))
      BY <3>2, FS_Interval
    <3> QED
      BY <3>1, <3>3, FS_Product
  <2> QED
    BY <2>1
<1>4. IsFiniteSet(sets)
  <2> DEFINE g == [r \in page |-> of(r)]
  <2>1. g \in Surjection(page, sets)
    BY DEF Surjection
  <2> HIDE DEF g, sets
  <2> QED
    BY <1>1, <2>1, FS_Surjection
<1>5. IsFiniteSet(UNION sets)
  <2>1. \A T \in sets : IsFiniteSet(T)
    <3>1. \A T \in sets : \E r \in page : T = of(r)
      OBVIOUS
    <3> HIDE DEF sets, of
    <3> QED
      BY <1>3, <3>1
  <2> HIDE DEF sets
  <2> QED
    BY <1>4, <2>1, FS_UNION
<1>6. RowsOf(page, nested) = UNION sets
  BY DEF RowsOf, upper
<1>7. \A row \in UNION sets : row \in RowNumbers /\ row[1] \in page
  <2>1. ASSUME NEW r \in page, NEW row \in of(r) PROVE row \in RowNumbers /\ row[1] \in page
    BY <1>1, <1>2, <2>1 DEF RowNumbers
  <2> QED
    BY <2>1
<1>8. \A r \in page : <<r, 1>> \in UNION sets
  BY <1>2
<1> QED
  BY <1>1, <1>5, <1>6, <1>7, <1>8

LEMMA AsRowsIs ==
    ASSUME NEW page \in SUBSET Records, NEW nested \in BOOLEAN
    PROVE  /\ AsRows(page, nested) \in Seq(RowNumbers)
           /\ {row[1] : row \in Range(AsRows(page, nested))} = page
           /\ \A i, j \in DOMAIN AsRows(page, nested) :
                 i # j => AsRows(page, nested)[i] # AsRows(page, nested)[j]
<1> DEFINE X == RowsOf(page, nested)
           u == AsRows(page, nested)
<1>1. /\ X \in SUBSET RowNumbers /\ IsFiniteSet(X)
      /\ \A row \in X : row[1] \in page
      /\ \A r \in page : <<r, 1>> \in X
  BY RowsTyped
<1>2. /\ u \in Seq(RowNumbers) /\ DOMAIN u = 1 .. Cardinality(X)
      /\ \A n \in DOMAIN u : u[n] \in X /\ RowPlace(X, u[n]) = n
      /\ \A x \in X : u[RowPlace(X, x)] = x /\ RowPlace(X, x) \in DOMAIN u
  <2>1. u = InOrder(X)
    BY DEF AsRows
  <2>2. \A x \in X : RowPlace(X, x) \in 1 .. Cardinality(X)
    BY <1>1, RowPlaceTyped
  <2>3. u \in Seq(RowNumbers) /\ Len(u) = Cardinality(X)
    BY <1>1, <2>1, InOrderIs
  <2>4. DOMAIN u = 1 .. Cardinality(X)
    BY <2>3
  <2> HIDE DEF u, X
  <2> QED
    BY <1>1, <2>1, <2>2, <2>3, <2>4, InOrderIs
<1> HIDE DEF u, X
<1>3. Range(u) = X
  BY <1>2 DEF Range
<1>4. {row[1] : row \in X} = page
  <2>1. ASSUME NEW r \in page PROVE \E row \in X : r = row[1]
    <3>1. <<r, 1>>[1] = r
      OBVIOUS
    <3> QED
      BY <1>1, <3>1
  <2>2. page \subseteq {row[1] : row \in X}
    BY <2>1
  <2>3. {row[1] : row \in X} \subseteq page
    BY <1>1
  <2> QED
    BY <2>2, <2>3
<1>5. \A i, j \in DOMAIN u : i # j => u[i] # u[j]
  BY <1>2
<1> QED
  BY <1>2, <1>3, <1>4, <1>5 DEF u

LEMMA AsRowsJoins ==
    ASSUME NEW A \in SUBSET Records, NEW B \in SUBSET Records,
           \A a \in A, b \in B : a > b, NEW nested \in BOOLEAN
    PROVE  AsRows(A \cup B, nested) = AsRows(A, nested) \o AsRows(B, nested)
<1>1. RowsOf(A \cup B, nested) = RowsOf(A, nested) \cup RowsOf(B, nested)
  BY DEF RowsOf
<1>2. \A a \in RowsOf(A, nested), b \in RowsOf(B, nested) : a[1] > b[1]
  BY RowsTyped
<1>3. /\ RowsOf(A, nested) \in SUBSET RowNumbers /\ IsFiniteSet(RowsOf(A, nested))
      /\ RowsOf(B, nested) \in SUBSET RowNumbers /\ IsFiniteSet(RowsOf(B, nested))
  BY RowsTyped
<1>4. InOrder(RowsOf(A, nested) \cup RowsOf(B, nested))
        = InOrder(RowsOf(A, nested)) \o InOrder(RowsOf(B, nested))
  BY <1>2, <1>3, InOrderJoins
<1> QED
  BY <1>1, <1>4 DEF AsRows

LEMMA NoRows ==
    ASSUME NEW nested \in BOOLEAN
    PROVE  AsRows({}, nested) = << >>
<1>1. RowsOf({}, nested) = {}
  BY DEF RowsOf
<1>2. Cardinality({}) = 0
  BY FS_EmptySet
<1>3. 1 .. 0 = {}
  OBVIOUS
<1>4. InOrder({}) = << >>
  BY <1>2, <1>3 DEF InOrder
<1> QED
  BY <1>1, <1>4 DEF AsRows

(* --------------------------- A page of a walk -------------------------- *)

(* What of the list S is behind a walk whose next page begins at `at`.     *)
WalkAt(style, at) ==
    IF at = 0 THEN 0 ELSE IF style = "offset" THEN at ELSE PageSize * (at - 1)
Passed(style, at, S) ==
    IF style = "after" THEN {r \in S : at # 0 /\ r >= at} ELSE Newest(S, WalkAt(style, at))

LEMMA WalkAtTyped ==
    ASSUME NEW style, NEW at \in Nat
    PROVE  WalkAt(style, at) \in Nat /\ PageSize \in Nat \ {0}
<1>1. PageSize \in Nat \ {0}
  BY FetchAssumption DEF FetchAssumption
<1>2. ASSUME at # 0 PROVE PageSize * (at - 1) \in Nat
  <2>1. at - 1 \in Nat
    BY <1>2
  <2> QED
    BY <1>1, <2>1
<1> QED
  BY <1>1, <1>2 DEF WalkAt

LEMMA PageGoesOn ==
    ASSUME list \in SUBSET Records, ~stubborn,
           NEW style \in Paged, NEW at \in Nat
    PROVE  LET page == Answer(style, at)
               next == NextCursor(style, at, page)
               F    == Passed(style, at, list)
           IN /\ F \in SUBSET list /\ page \in SUBSET list
              /\ \A f \in F, p \in page : f > p
              /\ next \in Nat
              /\ next # 0 => Passed(style, next, list) = F \cup page
              /\ next = 0 => F \cup page = list
              /\ style = "after" => \A p \in page : (at # 0 => p < at) /\ next =< p
              /\ style = "after" => next = 0 \/ at = 0 \/ next =< at
<1> DEFINE page == Answer(style, at)
           next == NextCursor(style, at, page)
           F    == Passed(style, at, list)
           R    == list \ F
<1>1. list \in SUBSET Nat /\ IsFiniteSet(list) /\ 0 \notin list
  BY FetchAssumption, FS_Subset DEF FetchAssumption
<1>2. PageSize \in Nat \ {0} /\ WalkAt(style, at) \in Nat
  BY WalkAtTyped
<1>3. F \in SUBSET list
  BY DEF Passed, Newest
<1>4. page = Newest(R, PageSize)
  <2>1. CASE style = "after"
    BY <2>1 DEF Answer, Passed
  <2>2. CASE style = "offset"
    BY <2>2 DEF Answer, Passed, WalkAt
  <2>3. CASE style \in {"number", "index"}
    <3>1. PageSize * 0 = 0
      BY <1>2
    <3> QED
      BY <2>3, <3>1 DEF Answer, Passed, WalkAt
  <2> QED
    BY <2>1, <2>2, <2>3 DEF Paged
<1> HIDE DEF F, page, next
<1>5. R \in SUBSET Nat /\ IsFiniteSet(R) /\ R \in SUBSET list
  BY <1>1, <1>3, FS_Subset
<1>6. page \in SUBSET R /\ IsFiniteSet(page) /\ Cardinality(page) \in Nat
  BY <1>2, <1>4, <1>5, NewestPart
<1>7. Cardinality(page) =< PageSize /\ (Cardinality(page) < PageSize => page = R)
  BY <1>2, <1>4, <1>5, NewestCount
<1>8. \A f \in F, p \in page : f > p
  <2>1. ASSUME NEW f \in F, NEW p \in R PROVE f > p
    <3>1. CASE style = "after"
      <4>1. f \in Nat /\ p \in Nat
        BY <1>1, <1>3, <1>5
      <4>2. at # 0 /\ f >= at /\ ~(p >= at)
        BY <3>1, <1>5 DEF F, Passed
      <4> QED
        BY <4>1, <4>2
    <3>2. CASE style # "after"
      <4>1. F = Newest(list, WalkAt(style, at))
        BY <3>2 DEF F, Passed
      <4> QED
        BY <1>1, <1>2, <1>5, <4>1, NewestFirst
    <3> QED
      BY <3>1, <3>2
  <2> QED
    BY <1>6, <2>1
<1>9. ASSUME style # "after"
      PROVE  Newest(list, WalkAt(style, at) + PageSize) = F \cup page
  BY <1>1, <1>2, <1>4, <1>9, PageFollows DEF F, Passed
<1>10. ASSUME Cardinality(page) < PageSize PROVE F \cup page = list
  BY <1>3, <1>7, <1>10
<1>11. CASE style = "after"
  <2>1. \A p \in R : p \in Nat /\ p # 0 /\ (at # 0 => p < at)
    <3>1. \A p \in R : p \in Nat /\ p # 0 /\ ~(at # 0 /\ p >= at)
      BY <1>1, <1>5, <1>11 DEF F, Passed
    <3> QED
      BY <3>1
  <2>2. CASE page = {}
    <3>1. Cardinality(page) = 0
      BY <2>2, FS_EmptySet
    <3>2. ~HasNext(style, at, page)
      BY <1>11, <2>2 DEF HasNext
    <3>3. next = 0
      BY <1>11, <3>2 DEF next, NextCursor
    <3> QED
      BY <1>2, <1>3, <1>6, <1>10, <1>8, <2>2, <3>1, <3>3 DEF page, next, F
  <2>3. CASE page # {}
    <3>1. Oldest(page) \in page /\ \A q \in page : Oldest(page) =< q
      <4>1. \E r \in page : \A q \in page : r =< q
        BY <1>5, <1>6, <2>3, LeastNatural
      <4> QED
        BY <4>1 DEF Oldest
    <3>2. CASE HasNext(style, at, page)
      <4>1. next = Oldest(page)
        BY <1>11, <2>3, <3>2 DEF next, NextCursor, AfterOf
      <4>2. next # 0 /\ next \in Nat
        BY <1>6, <2>1, <3>1, <4>1
      <4>3. Passed(style, next, list) = F \cup page
        <5>1. ASSUME NEW r \in list PROVE r >= next <=> r \in F \cup page
          <6>1. CASE r \in F
            <7>1. r > next
              BY <1>8, <3>1, <4>1, <6>1
            <7> QED
              BY <1>1, <4>2, <6>1, <7>1
          <6>2. CASE r \in page
            BY <1>1, <3>1, <4>1, <4>2, <6>2
          <6>3. CASE r \in R \ page
            <7>1. next > r
              BY <1>2, <1>4, <1>5, <3>1, <4>1, <6>3, NewestFirst
            <7> QED
              BY <1>1, <4>2, <6>3, <7>1
          <6> QED
            BY <6>1, <6>2, <6>3
        <5> QED
          BY <1>3, <1>5, <1>6, <1>11, <4>2, <5>1 DEF Passed
      <4>4. at # 0 => next =< at
        <5>1. next \in R
          BY <1>6, <3>1, <4>1
        <5> QED
          BY <2>1, <5>1
      <4> QED
        BY <1>3, <1>5, <1>6, <1>8, <2>1, <3>1, <4>1, <4>2, <4>3, <4>4 DEF page, next, F
    <3>3. CASE ~HasNext(style, at, page)
      <4>1. next = 0
        BY <1>11, <3>3 DEF next, NextCursor
      <4>2. \A r \in list : ~(r < Oldest(page))
        BY <1>11, <2>3, <3>3 DEF HasNext
      <4>3. R \ page = {}
        <5>1. ASSUME NEW r \in R \ page PROVE FALSE
          <6>1. Oldest(page) > r
            BY <1>2, <1>4, <1>5, <3>1, <5>1, NewestFirst
          <6>2. Oldest(page) \in Nat /\ r \in Nat
            BY <1>5, <1>6, <3>1
          <6> QED
            BY <1>5, <4>2, <6>1, <6>2
        <5> QED
          BY <5>1
      <4>4. F \cup page = list
        BY <1>3, <1>6, <4>3
      <4> QED
        BY <1>3, <1>5, <1>6, <1>8, <2>1, <4>1, <4>4 DEF page, next, F
    <3> QED
      BY <3>2, <3>3
  <2> QED
    BY <2>2, <2>3
<1>12. CASE style # "after"
  <2> DEFINE num == IF at = 0 THEN 1 ELSE at
  <2>1. num \in Nat /\ num # 0
    OBVIOUS
  <2>2. ASSUME style \in {"number", "index"}
        PROVE  /\ WalkAt(style, num + 1) = WalkAt(style, at) + PageSize
               /\ PageSize * num = WalkAt(style, at) + PageSize
    <3>1. CASE at = 0
      BY <1>2, <2>2, <3>1 DEF WalkAt
    <3>2. CASE at # 0
      <4>1. PageSize * (at - 1) + PageSize = PageSize * at
        BY <1>2
      <4>2. WalkAt(style, at) = PageSize * (at - 1) /\ WalkAt(style, at + 1) = PageSize * ((at + 1) - 1)
        BY <2>2, <3>2 DEF WalkAt
      <4>3. (at + 1) - 1 = at
        OBVIOUS
      <4> QED
        BY <3>2, <4>1, <4>2, <4>3
    <3> QED
      BY <3>1, <3>2
  <2> HIDE DEF num
  <2>3. /\ next \in Nat
        /\ next # 0 => WalkAt(style, next) = WalkAt(style, at) + PageSize
        /\ next = 0 => F \cup page = list
    <3>1. CASE style = "offset"
      <4>1. next = IF Cardinality(page) >= PageSize THEN at + Cardinality(page) ELSE 0
        BY <3>1 DEF next, NextCursor
      <4>2. CASE Cardinality(page) >= PageSize
        <5>1. next = at + PageSize /\ next # 0
          BY <1>2, <1>6, <1>7, <4>1, <4>2
        <5> QED
          BY <1>2, <3>1, <5>1 DEF WalkAt
      <4>3. CASE ~(Cardinality(page) >= PageSize)
        <5>1. next = 0 /\ Cardinality(page) < PageSize
          BY <1>2, <1>6, <4>1, <4>3
        <5> QED
          BY <1>10, <5>1
      <4> QED
        BY <4>2, <4>3
    <3>2. CASE style = "index"
      <4>1. next = IF Cardinality(page) >= PageSize THEN num + 1 ELSE 0
        BY <3>2 DEF next, NextCursor, num
      <4>2. CASE Cardinality(page) >= PageSize
        BY <2>1, <2>2, <3>2, <4>1, <4>2
      <4>3. CASE ~(Cardinality(page) >= PageSize)
        <5>1. next = 0 /\ Cardinality(page) < PageSize
          BY <1>2, <1>6, <4>1, <4>3
        <5> QED
          BY <1>10, <5>1
      <4> QED
        BY <4>2, <4>3
    <3>3. CASE style = "number"
      <4>1. next = IF Cardinality(list) > PageSize * num THEN num + 1 ELSE 0
        BY <3>3 DEF next, NextCursor, HasNext, NumberOf, num
      <4>2. CASE Cardinality(list) > PageSize * num
        BY <2>1, <2>2, <3>3, <4>1, <4>2
      <4>3. CASE ~(Cardinality(list) > PageSize * num)
        <5>1. next = 0
          BY <4>1, <4>3
        <5>2. Cardinality(list) \in Nat
          BY <1>1, FS_CardinalityType
        <5>3. Cardinality(list) =< WalkAt(style, at) + PageSize
          BY <1>2, <2>2, <3>3, <4>3, <5>2
        <5>4. Newest(list, WalkAt(style, at) + PageSize) = list
          BY <1>1, <1>2, <5>3, AllIsNewest
        <5> QED
          BY <1>9, <1>12, <5>1, <5>4
      <4> QED
        BY <4>2, <4>3
    <3> QED
      BY <1>12, <3>1, <3>2, <3>3 DEF Paged
  <2>4. next # 0 => Passed(style, next, list) = F \cup page
    BY <1>9, <1>12, <2>3 DEF Passed
  <2> QED
    BY <1>3, <1>5, <1>6, <1>8, <1>12, <2>3, <2>4 DEF page, next, F
<1> QED
  BY <1>11, <1>12

(* ---------------------------- Rows that are kept ----------------------- *)

FetchedOf(seq) == {row[1] : row \in Range(seq)}
NoDoubles(seq) == \A i, j \in DOMAIN seq : i # j => seq[i] # seq[j]

LEMMA RowsAppended ==
    ASSUME NEW s \in Seq(RowNumbers), NEW t \in Seq(RowNumbers)
    PROVE  /\ s \o t \in Seq(RowNumbers)
           /\ FetchedOf(s \o t) = FetchedOf(s) \cup FetchedOf(t)
           /\ NoDoubles(s) /\ NoDoubles(t) /\ FetchedOf(s) \cap FetchedOf(t) = {}
                 => NoDoubles(s \o t)
<1> DEFINE m == Len(s)
           n == Len(t)
           u == s \o t
<1>1. /\ m \in Nat /\ n \in Nat /\ u \in Seq(RowNumbers) /\ Len(u) = m + n
      /\ DOMAIN s = 1 .. m /\ DOMAIN t = 1 .. n /\ DOMAIN u = 1 .. m + n
  OBVIOUS
<1>2. \A i \in 1 .. m : u[i] = s[i] /\ i \in DOMAIN u
  OBVIOUS
<1>3. \A i \in 1 .. n : u[m + i] = t[i] /\ m + i \in DOMAIN u
  OBVIOUS
<1> HIDE DEF u, m, n
<1>4. \A k \in DOMAIN u : k \in 1 .. m \/ \E i \in 1 .. n : k = m + i
  <2>1. ASSUME NEW k \in DOMAIN u, k \notin 1 .. m PROVE \E i \in 1 .. n : k = m + i
    <3>1. k - m \in 1 .. n /\ k = m + (k - m)
      BY <1>1, <2>1
    <3> QED
      BY <3>1
  <2> QED
    BY <2>1
<1>5. Range(u) = Range(s) \cup Range(t)
  <2>1. \A k \in DOMAIN u : u[k] \in Range(s) \cup Range(t)
    BY <1>1, <1>2, <1>3, <1>4 DEF Range
  <2>2. \A i \in DOMAIN s : s[i] \in Range(u)
    BY <1>1, <1>2 DEF Range
  <2>3. \A i \in DOMAIN t : t[i] \in Range(u)
    BY <1>1, <1>3 DEF Range
  <2> QED
    BY <2>1, <2>2, <2>3 DEF Range
<1>6. FetchedOf(u) = FetchedOf(s) \cup FetchedOf(t)
  BY <1>5 DEF FetchedOf
<1>7. ASSUME NoDoubles(s), NoDoubles(t), FetchedOf(s) \cap FetchedOf(t) = {}
      PROVE  NoDoubles(u)
  <2>1. \A i \in 1 .. m, j \in 1 .. n : s[i] # t[j]
    <3>1. \A i \in 1 .. m : s[i][1] \in FetchedOf(s)
      BY <1>1 DEF FetchedOf, Range
    <3>2. \A j \in 1 .. n : t[j][1] \in FetchedOf(t)
      BY <1>1 DEF FetchedOf, Range
    <3> QED
      BY <1>7, <3>1, <3>2
  <2>2. ASSUME NEW i \in DOMAIN u, NEW j \in DOMAIN u, i # j PROVE u[i] # u[j]
    <3>1. CASE i \in 1 .. m /\ j \in 1 .. m
      BY <1>1, <1>2, <1>7, <2>2, <3>1 DEF NoDoubles
    <3>2. CASE i \in 1 .. m /\ j \notin 1 .. m
      BY <1>2, <1>3, <1>4, <2>1, <3>2
    <3>3. CASE i \notin 1 .. m /\ j \in 1 .. m
      BY <1>2, <1>3, <1>4, <2>1, <3>3
    <3>4. CASE i \notin 1 .. m /\ j \notin 1 .. m
      <4>1. PICK k \in 1 .. n : i = m + k
        BY <1>4, <3>4
      <4>2. PICK l \in 1 .. n : j = m + l
        BY <1>4, <3>4
      <4>3. k # l
        BY <2>2, <4>1, <4>2
      <4> QED
        BY <1>1, <1>3, <1>7, <4>1, <4>2, <4>3 DEF NoDoubles
    <3> QED
      BY <3>1, <3>2, <3>3, <3>4
  <2> QED
    BY <2>2 DEF NoDoubles
<1> QED
  BY <1>1, <1>6, <1>7 DEF u

LEMMA TakeKeeps ==
    ASSUME rows \in Seq(RowNumbers), NEW new \in Seq(RowNumbers),
           NEW more \in BOOLEAN, Take(new, more)
    PROVE  /\ rows' \in Seq(RowNumbers) /\ Len(rows') =< MaxRows
           /\ status' \in {"limited", "asking", "done"}
           /\ status' # "limited" =>
                 rows' = rows \o new /\ status' = IF more THEN "asking" ELSE "done"
<1> DEFINE all == rows \o new
<1>1. all \in Seq(RowNumbers) /\ Len(all) \in Nat
  OBVIOUS
<1>2. MaxRows \in Nat \ {0}
  BY FetchAssumption DEF FetchAssumption
<1>3. /\ rows' = IF Len(all) > MaxRows THEN SubSeq(all, 1, MaxRows) ELSE all
      /\ status' = IF Len(all) >= MaxRows THEN "limited" ELSE IF more THEN "asking" ELSE "done"
  BY DEF Take, End
<1> HIDE DEF all
<1>4. Len(all) > MaxRows =>
         SubSeq(all, 1, MaxRows) \in Seq(RowNumbers) /\ Len(SubSeq(all, 1, MaxRows)) = MaxRows
  BY <1>1, <1>2
<1>5. status' # "limited" => ~(Len(all) >= MaxRows) /\ ~(Len(all) > MaxRows)
  BY <1>1, <1>2, <1>3
<1>6. rows' \in Seq(RowNumbers) /\ Len(rows') =< MaxRows
  BY <1>1, <1>2, <1>3, <1>4
<1> QED
  BY <1>3, <1>5, <1>6 DEF all

(* ---------------------------- The invariant ---------------------------- *)

FetchTyped ==
    /\ dataset \in Datasets
    /\ status \in {"none", "idle", "asking", "done", "limited", "failed"}
    /\ list \in SUBSET Records /\ steady \in SUBSET Records
    /\ asked \in SUBSET Records /\ ids \in SUBSET asked /\ Cardinality(asked) =< MaxIds
    /\ stubborn \in BOOLEAN /\ cursor \in Nat
    /\ rows \in Seq(RowNumbers)
    /\ moved \in [{"added", "removed"} -> Nat]

(* A fetch begins with nothing.                                            *)
Unread ==
    status \in {"none", "idle"} => cursor = 0 /\ rows = << >> /\ asked = {} /\ steady = {}

(* In the middle of a walk by pages: what is behind the cursor F is what   *)
(* the rows are of; where pages are counted from the start, F tells about  *)
(* them only as much as the list has not moved in the one or other way.    *)
Walked(style, at, S, constant, move, seq) ==
    LET F == Passed(style, at, S) IN
    /\ move = Still => seq = AsRows(F, FALSE)
    /\ style = "after" \/ move["removed"] = 0 => constant \cap F \subseteq FetchedOf(seq)
    /\ style = "after" \/ move["added"] = 0 => NoDoubles(seq) /\ FetchedOf(seq) \cap S \subseteq F
    /\ style = "after" => \A r \in FetchedOf(seq) : r \in Nat /\ at # 0 /\ r >= at

PageWalk ==
    status = "asking" =>
        /\ steady \subseteq list
        /\ dataset.style \in Paged /\ ~stubborn =>
              Walked(dataset.style, cursor, list, steady, moved, rows)

(* In the middle of the batches of identifiers: those that are left are    *)
(* older than the others, about which the rows are.                        *)
Answered == asked \ ids
KeyWalk ==
    status = "asking" =>
        /\ dataset.style = "keyed" =>
              /\ \A a \in Answered, b \in ids : a > b
              /\ moved = Still => rows = AsRows(Answered \cap list, dataset.nested)
        /\ dataset.style = "census" => ids = asked /\ rows = << >>
        /\ dataset.style = "whole" => rows = << >>

FetchInv ==
    /\ FetchTyped /\ Unread /\ PageWalk /\ KeyWalk
    /\ WholeUnlessCut /\ ShiftNeedsCause

Styles == {"after", "whole", "number", "offset", "index", "keyed", "census", "fixed", "query"}

LEMMA DatasetIs ==
    ASSUME NEW d \in Datasets
    PROVE  /\ d.style \in Styles /\ d.nested \in BOOLEAN
           /\ d.style # "keyed" => ~d.nested
<1> DEFINE Plain == \E style \in Styles : \E asPage \in BOOLEAN : d = Dataset(style, asPage, FALSE)
           Exploded == Dataset("keyed", FALSE, TRUE)
<1>1. PICK p \in {"meta", "shippo", "ssactivewear", "riin"} : d \in Offered[p]
  BY DEF Datasets, Offered
<1>2. \A style \in Styles : \A asPage \in BOOLEAN : d = Dataset(style, asPage, FALSE) => Plain
  OBVIOUS
<1>3. Plain \/ d = Exploded
  <2> HIDE DEF Plain, Exploded
  <2>1. CASE p = "meta"
    <3>1. Offered[p] = {Dataset("after", FALSE, FALSE), Dataset("after", TRUE, FALSE), Dataset("whole", TRUE, FALSE)}
      BY <2>1 DEF Offered
    <3> QED
      BY <1>1, <1>2, <3>1 DEF Styles
  <2>2. CASE p = "shippo"
    <3>1. Offered[p] = {Dataset("number", FALSE, FALSE)}
      BY <2>2 DEF Offered
    <3> QED
      BY <1>1, <1>2, <3>1 DEF Styles
  <2>3. CASE p = "ssactivewear"
    <3>1. Offered[p] = {Dataset("offset", FALSE, FALSE)}
      BY <2>3 DEF Offered
    <3> QED
      BY <1>1, <1>2, <3>1 DEF Styles
  <2>4. CASE p = "riin"
    <3>1. Offered[p] = {Dataset("index", FALSE, FALSE), Dataset("whole", FALSE, FALSE),
                        Dataset("keyed", FALSE, FALSE), Dataset("keyed", FALSE, TRUE),
                        Dataset("census", FALSE, FALSE), Dataset("fixed", FALSE, FALSE),
                        Dataset("query", FALSE, FALSE)}
      BY <2>4 DEF Offered
    <3> QED
      BY <1>1, <1>2, <3>1 DEF Styles, Exploded
  <2> QED
    BY <1>1, <2>1, <2>2, <2>3, <2>4
<1>4. CASE Plain
  <2>1. PICK style \in Styles, asPage \in BOOLEAN : d = Dataset(style, asPage, FALSE)
    BY <1>4
  <2>2. d.style = style /\ d.nested = FALSE
    BY <2>1 DEF Dataset
  <2> QED
    BY <2>2
<1>5. CASE d = Exploded
  <2>1. d.style = "keyed" /\ d.nested = TRUE
    BY <1>5 DEF Dataset
  <2> QED
    BY <2>1 DEF Styles
<1> HIDE DEF Plain, Exploded
<1> QED
  BY <1>3, <1>4, <1>5

(* A walk that ended in anything but the end of the list says nothing.     *)
LEMMA CutShort ==
    ASSUME FetchTyped', status' \in {"limited", "failed"}
    PROVE  FetchInv'
BY DEF FetchInv, Unread, PageWalk, KeyWalk, WholeUnlessCut, ShiftNeedsCause, Exhausted

LEMMA Untouched ==
    ASSUME FetchInv, UNCHANGED fetchVars
    PROVE  FetchInv'
BY DEF FetchInv, FetchTyped, Unread, PageWalk, KeyWalk, Answered, WholeUnlessCut, ShiftNeedsCause,
       Exhausted, Expected, CensusOf, Fetched, Doubled, fetchVars, Walked, Passed

LEMMA FetchBegins == SetupInit => FetchInv
<1> SUFFICES ASSUME SetupInit PROVE FetchInv
  OBVIOUS
<1>1. FetchInit
  BY DEF SetupInit
<1>2. Dataset("fixed", FALSE, FALSE) \in Datasets
  <2>1. "riin" \in DOMAIN Offered /\ Dataset("fixed", FALSE, FALSE) \in Offered["riin"]
    BY DEF Offered
  <2> QED
    BY <2>1 DEF Datasets
<1>3. Cardinality({}) = 0
  BY FS_EmptySet
<1>4. MaxIds \in Nat
  BY FetchAssumption DEF FetchAssumption
<1>5. FetchTyped
  <2>1. Still \in [{"added", "removed"} -> Nat]
    BY DEF Still
  <2>2. << >> \in Seq(RowNumbers)
    OBVIOUS
  <2> QED
    <3>1. dataset \in Datasets /\ stubborn \in BOOLEAN /\ moved \in [{"added", "removed"} -> Nat]
      BY <1>1, <1>2, <2>1 DEF FetchInit
    <3>2. list = {} /\ steady = {} /\ asked = {} /\ ids = {} /\ cursor = 0 /\ rows = << >> /\ status = "none"
      BY <1>1 DEF FetchInit
    <3>3. Cardinality(asked) =< MaxIds /\ cursor \in Nat
      BY <1>3, <1>4, <3>2
    <3> QED
      BY <2>2, <3>1, <3>2, <3>3 DEF FetchTyped
<1>6. status = "none"
  BY <1>1 DEF FetchInit
<1> QED
  BY <1>1, <1>5, <1>6 DEF FetchInit, FetchInv, Unread, PageWalk, KeyWalk, WholeUnlessCut,
     ShiftNeedsCause, Exhausted

LEMMA ExpectedIs ==
    ASSUME dataset \in Datasets, list \in SUBSET Records
    PROVE  /\ dataset.style \notin {"keyed", "census"} => Expected = AsRows(list, FALSE)
           /\ dataset.style = "keyed" => Expected = AsRows(asked \cap list, dataset.nested)
           /\ dataset.style = "census" => Expected = CensusOf(asked)
<1>1. dataset.style \in Styles /\ (dataset.style # "keyed" => dataset.nested = FALSE)
  BY DatasetIs
<1> QED
  BY <1>1 DEF Expected, Styles

LEMMA AddStep ==
    ASSUME FetchInv, SetupInv, Add
    PROVE  FetchInv'
<1>1. dataset' \in Datasets
  <2>1. provider \in DOMAIN Offered /\ dataset' \in Offered[provider]
    BY DEF SetupInv, SetupTyped, Providers, Probes, Offered, Add, AddDataset
  <2> QED
    BY <2>1 DEF Datasets
<1>2. /\ status = "none" /\ status' = "idle"
      /\ list' \in SUBSET Records /\ stubborn' \in BOOLEAN
      /\ UNCHANGED <<ids, cursor, pages, token, rows, asked, steady, moved>>
  BY FetchAssumption DEF Add, AddDataset, FetchAssumption
<1>3. FetchTyped' /\ Unread'
  BY <1>1, <1>2 DEF FetchInv, FetchTyped, Unread
<1> QED
  BY <1>2, <1>3 DEF FetchInv, PageWalk, KeyWalk, WholeUnlessCut, ShiftNeedsCause, Exhausted

(* Begun and ended in one step: what was copied or queried is what there is.*)
LEMMA AtOnceStep ==
    ASSUME FetchInv, CopyFixed \/ RunQuery
    PROVE  FetchInv'
<1>1. /\ dataset \in Datasets /\ dataset.style \in {"fixed", "query"}
      /\ status = "idle" /\ cursor = 0 /\ list \in SUBSET Records
      /\ UNCHANGED <<dataset, list, stubborn, cursor, pages, token, ids, asked>>
      /\ steady' = list /\ moved' = Still /\ rows = << >>
  BY DEF CopyFixed, RunQuery, Start, FetchInv, FetchTyped, Unread
<1>2. \/ status' = "done" /\ rows' = AsRows(list, FALSE)
      \/ status' = "failed" /\ rows' = rows
  BY DEF CopyFixed, RunQuery, Start, End
<1>3. Still \in [{"added", "removed"} -> Nat]
  BY DEF Still
<1>4. AsRows(list, FALSE) \in Seq(RowNumbers)
  BY <1>1, AsRowsIs
<1>5. FetchTyped'
  BY <1>1, <1>2, <1>3, <1>4 DEF FetchInv, FetchTyped
<1>6. CASE status' = "failed"
  BY <1>5, <1>6, CutShort
<1>7. CASE status' = "done" /\ rows' = AsRows(list, FALSE)
  <2>1. Expected' = AsRows(list, FALSE)
    <3>1. Expected = AsRows(list, FALSE)
      BY <1>1, ExpectedIs
    <3>2. Expected' = Expected
      BY <1>1 DEF Expected, CensusOf
    <3> QED
      BY <3>1, <3>2
  <2>2. dataset'.style \notin Paged
    BY <1>1 DEF Paged
  <2> QED
    BY <1>5, <1>7, <2>1, <2>2
       DEF FetchInv, Unread, PageWalk, KeyWalk, WholeUnlessCut, ShiftNeedsCause
<1> QED
  BY <1>2, <1>6, <1>7

LEMMA NothingPassed ==
    ASSUME NEW style, NEW S \in SUBSET Records
    PROVE  Passed(style, 0, S) = {}
<1>1. S \in SUBSET Nat /\ IsFiniteSet(S)
  BY FetchAssumption, FS_Subset DEF FetchAssumption
<1>2. Newest(S, 0) = {}
  BY <1>1, NoneIsNewest
<1> QED
  BY <1>2 DEF Passed, WalkAt

LEMMA AskingStep ==
    ASSUME FetchInv, ReadIdentifiers \/ AskProvider
    PROVE  FetchInv'
<1>1. /\ status = "idle" /\ cursor = 0 /\ rows = << >> /\ asked = {} /\ ids = {}
      /\ list \in SUBSET Records /\ dataset \in Datasets
      /\ UNCHANGED <<dataset, list, stubborn, cursor, pages, token, rows>>
      /\ steady' = list /\ moved' = Still
      /\ status' \in {"asking", "failed"}
  BY DEF ReadIdentifiers, AskProvider, Start, End, FetchInv, FetchTyped, Unread
<1>2. /\ ids' = asked' /\ asked' \in SUBSET Records /\ Cardinality(asked') =< MaxIds
      /\ dataset.style \in Keyed \/ asked' = {}
  <2>1. CASE ReadIdentifiers
    <3>1. PICK recorded \in Recorded : \E found \in SUBSET recorded :
                 /\ Cardinality(found) = Min({MaxIds, Cardinality(recorded)})
                 /\ ids' = found /\ asked' = found
      BY <2>1 DEF ReadIdentifiers
    <3>2. recorded \in SUBSET Records /\ IsFiniteSet(recorded) /\ MaxIds \in Nat
      BY FetchAssumption, FS_Subset DEF FetchAssumption
    <3>3. Cardinality(recorded) \in Nat
      BY <3>2, FS_CardinalityType
    <3>4. Min({MaxIds, Cardinality(recorded)}) =< MaxIds
      <4>1. \E x \in {MaxIds, Cardinality(recorded)} :
               \A y \in {MaxIds, Cardinality(recorded)} : x =< y
        BY <3>2, <3>3
      <4> QED
        BY <4>1 DEF Min
    <3> QED
      BY <2>1, <3>1, <3>2, <3>4 DEF ReadIdentifiers
  <2>2. CASE AskProvider
    BY <1>1, <2>2 DEF AskProvider, FetchInv, FetchTyped
  <2> QED
    BY <2>1, <2>2
<1>3. Still \in [{"added", "removed"} -> Nat]
  BY DEF Still
<1>4. FetchTyped'
  BY <1>1, <1>2, <1>3 DEF FetchInv, FetchTyped
<1>5. CASE status' = "failed"
  BY <1>4, <1>5, CutShort
<1>6. CASE status' = "asking"
  <2>1. \A nested \in BOOLEAN : AsRows({}, nested) = << >>
    BY NoRows
  <2>2. Passed(dataset.style, 0, list) = {}
    BY <1>1, NothingPassed
  <2>3. FetchedOf(<< >>) = {} /\ NoDoubles(<< >>)
    BY DEF FetchedOf, NoDoubles, Range
  <2>4. Walked(dataset.style, 0, list, list, Still, << >>)
    BY <2>1, <2>2, <2>3 DEF Walked
  <2>5. PageWalk'
    BY <1>1, <2>4 DEF PageWalk
  <2>6. Answered' = {} /\ dataset'.nested \in BOOLEAN
    BY <1>1, <1>2, DatasetIs DEF Answered
  <2>7. AsRows(Answered' \cap list', dataset'.nested) = << >>
    BY <2>1, <2>6
  <2>8. KeyWalk'
    BY <1>1, <1>2, <2>6, <2>7 DEF KeyWalk
  <2> QED
    BY <1>4, <1>6, <2>5, <2>8
       DEF FetchInv, Unread, WholeUnlessCut, ShiftNeedsCause, Exhausted
<1> QED
  BY <1>1, <1>5, <1>6

LEMMA TokenStep ==
    ASSUME FetchInv, PageToken
    PROVE  FetchInv'
<1>1. /\ status = "asking" /\ status' \in {"asking", "failed"}
      /\ UNCHANGED <<dataset, list, stubborn, ids, cursor, pages, rows, asked, steady, moved>>
  BY DEF PageToken, End
<1>2. FetchTyped'
  BY <1>1 DEF FetchInv, FetchTyped
<1>3. CASE status' = "failed"
  BY <1>2, <1>3, CutShort
<1>4. CASE status' = "asking"
  <2>1. PageWalk' /\ KeyWalk'
    BY <1>1 DEF FetchInv, PageWalk, KeyWalk, Answered, Walked, Passed
  <2> QED
    BY <1>2, <1>4, <2>1
       DEF FetchInv, Unread, WholeUnlessCut, ShiftNeedsCause, Exhausted
<1> QED
  BY <1>1, <1>3, <1>4

LEMMA FailureStep ==
    ASSUME FetchInv, RequestFails
    PROVE  FetchInv'
<1>1. status' = "failed" /\ rows' = << >>
      /\ UNCHANGED <<dataset, list, stubborn, ids, cursor, pages, token, asked, steady, moved>>
  BY DEF RequestFails, End
<1>2. FetchTyped'
  BY <1>1 DEF FetchInv, FetchTyped
<1> QED
  BY <1>1, <1>2, CutShort

(* What a page adds to what is known of the rows.                          *)
LEMMA WalkGoesOn ==
    ASSUME NEW style \in Paged, NEW at \in Nat, list \in SUBSET Records, ~stubborn,
           NEW constant \in SUBSET list, NEW move \in [{"added", "removed"} -> Nat],
           NEW seq \in Seq(RowNumbers),
           Walked(style, at, list, constant, move, seq)
    PROVE  LET page == Answer(style, at)
               next == NextCursor(style, at, page)
               F    == Passed(style, at, list) \cup page
               all  == seq \o AsRows(page, FALSE)
           IN /\ next \in Nat
              /\ next # 0 => Walked(style, next, list, constant, move, all)
              /\ next = 0 =>
                    /\ move = Still => all = AsRows(list, FALSE)
                    /\ style = "after" \/ move["removed"] = 0 => constant \subseteq FetchedOf(all)
                    /\ style = "after" \/ move["added"] = 0 => NoDoubles(all)
<1> DEFINE page == Answer(style, at)
           next == NextCursor(style, at, page)
           P    == Passed(style, at, list)
           new  == AsRows(page, FALSE)
           all  == seq \o new
<1>1. /\ P \in SUBSET list /\ page \in SUBSET list
      /\ \A f \in P, p \in page : f > p
      /\ next \in Nat
      /\ next # 0 => Passed(style, next, list) = P \cup page
      /\ next = 0 => P \cup page = list
      /\ style = "after" => \A p \in page : (at # 0 => p < at) /\ next =< p
      /\ style = "after" => next = 0 \/ at = 0 \/ next =< at
  BY PageGoesOn
<1>2. /\ move = Still => seq = AsRows(P, FALSE)
      /\ style = "after" \/ move["removed"] = 0 => constant \cap P \subseteq FetchedOf(seq)
      /\ style = "after" \/ move["added"] = 0 => NoDoubles(seq) /\ FetchedOf(seq) \cap list \subseteq P
      /\ style = "after" => \A r \in FetchedOf(seq) : r \in Nat /\ at # 0 /\ r >= at
  BY DEF Walked
<1> HIDE DEF page, next, P
<1>3. Records \subseteq Nat /\ P \in SUBSET Records /\ page \in SUBSET Records /\ page \in SUBSET Nat
  BY <1>1, FetchAssumption DEF FetchAssumption
<1>4. new \in Seq(RowNumbers) /\ FetchedOf(new) = page /\ NoDoubles(new)
  BY <1>3, AsRowsIs DEF FetchedOf, NoDoubles
<1>5. AsRows(P \cup page, FALSE) = AsRows(P, FALSE) \o new
  BY <1>1, <1>3, AsRowsJoins
<1> HIDE DEF new
<1>6. /\ FetchedOf(all) = FetchedOf(seq) \cup page
      /\ NoDoubles(seq) /\ FetchedOf(seq) \cap page = {} => NoDoubles(all)
  BY <1>4, RowsAppended
<1>7. move = Still => all = AsRows(P \cup page, FALSE)
  BY <1>2, <1>5
<1>8. ASSUME style = "after" \/ move["removed"] = 0
      PROVE  constant \cap (P \cup page) \subseteq FetchedOf(all)
  BY <1>2, <1>6, <1>8
<1>9. P \cap page = {}
  <2>1. ASSUME NEW p \in P, p \in page PROVE FALSE
    <3>1. p > p /\ p \in Nat
      BY <1>1, <1>3, <2>1
    <3> QED
      BY <3>1
  <2> QED
    BY <2>1
<1>10. ASSUME style = "after" \/ move["added"] = 0
       PROVE  NoDoubles(all) /\ FetchedOf(all) \cap list \subseteq P \cup page
  <2>1. NoDoubles(seq) /\ FetchedOf(seq) \cap list \subseteq P
    BY <1>2, <1>10
  <2>2. FetchedOf(seq) \cap page = {}
    BY <1>1, <1>9, <2>1
  <2> QED
    BY <1>6, <2>1, <2>2
<1>11. ASSUME style = "after", next # 0
       PROVE  \A r \in FetchedOf(all) : r \in Nat /\ next # 0 /\ r >= next
  <2>1. ASSUME NEW r \in FetchedOf(seq) PROVE r \in Nat /\ r >= next
    <3>1. r \in Nat /\ at # 0 /\ r >= at
      BY <1>2, <1>11, <2>1
    <3>2. next =< at
      BY <1>1, <1>11, <3>1
    <3> QED
      BY <1>1, <3>1, <3>2
  <2>2. ASSUME NEW r \in page PROVE r \in Nat /\ r >= next
    BY <1>1, <1>3, <1>11, <2>2
  <2> QED
    BY <1>6, <1>11, <2>1, <2>2
<1> HIDE DEF all
<1>12. next # 0 => Walked(style, next, list, constant, move, all)
  BY <1>1, <1>7, <1>8, <1>10, <1>11 DEF Walked
<1>13. next = 0 =>
          /\ move = Still => all = AsRows(list, FALSE)
          /\ style = "after" \/ move["removed"] = 0 => constant \subseteq FetchedOf(all)
          /\ style = "after" \/ move["added"] = 0 => NoDoubles(all)
  <2>1. ASSUME next = 0 PROVE P \cup page = list /\ constant \cap list = constant
    BY <1>1, <2>1
  <2> QED
    BY <1>7, <1>8, <1>10, <2>1
<1> QED
  BY <1>1, <1>12, <1>13 DEF all, new, page, next, P

LEMMA PageStep ==
    ASSUME FetchInv, RequestPage
    PROVE  FetchInv'
<1> DEFINE page == Answer(dataset.style, cursor)
           new  == AsRows(page, dataset.nested)
           next == NextCursor(dataset.style, cursor, page)
           more == next # 0 /\ pages + 1 < MaxPages
<1>1. /\ status = "asking" /\ dataset.style \in Paged
      /\ cursor' = next /\ Take(new, more)
      /\ UNCHANGED <<dataset, list, stubborn, ids, token, asked, steady, moved>>
  BY DEF RequestPage, Ready
<1>2. FetchTyped /\ dataset \in Datasets /\ cursor \in Nat /\ rows \in Seq(RowNumbers)
      /\ list \in SUBSET Records /\ moved \in [{"added", "removed"} -> Nat]
  BY DEF FetchInv, FetchTyped
<1>3. dataset.nested = FALSE /\ dataset.style \in Styles /\ dataset.style \notin {"keyed", "census", "whole"}
  BY <1>1, <1>2, DatasetIs DEF Paged
<1>4. list \in SUBSET Nat /\ PageSize \in Nat
  BY <1>2, FetchAssumption DEF FetchAssumption
<1>5. page \in SUBSET list
  BY DEF Answer, Newest
<1>6. new \in Seq(RowNumbers)
  BY <1>2, <1>3, <1>5, AsRowsIs
<1>7. next \in Nat
  <2>1. Cardinality(page) \in Nat
    <3>1. IsFiniteSet(list)
      BY <1>2, FetchAssumption, FS_Subset DEF FetchAssumption
    <3> QED
      BY <1>5, <3>1, FS_Subset, FS_CardinalityType
  <2>2. page # {} => Oldest(page) \in Nat
    <3>1. page # {} => \E r \in page : \A q \in page : r =< q
      BY <1>4, <1>5, LeastNatural
    <3> QED
      BY <1>4, <1>5, <3>1 DEF Oldest
  <2> HIDE DEF page
  <2> QED
    BY <1>1, <1>2, <2>1, <2>2 DEF NextCursor, AfterOf, NumberOf, Paged
<1> HIDE DEF new, page, next
<1>8. /\ rows' \in Seq(RowNumbers) /\ status' \in {"limited", "asking", "done"}
      /\ status' # "limited" => rows' = rows \o new /\ status' = IF more THEN "asking" ELSE "done"
  BY <1>1, <1>2, <1>6, TakeKeeps
<1>9. FetchTyped'
  BY <1>1, <1>2, <1>7, <1>8 DEF FetchTyped
<1>10. CASE status' = "limited"
  BY <1>9, <1>10, CutShort
<1>11. CASE stubborn
  BY <1>1, <1>3, <1>8, <1>9, <1>11
     DEF FetchInv, Unread, PageWalk, KeyWalk, WholeUnlessCut, ShiftNeedsCause
<1>12. CASE status' # "limited" /\ ~stubborn
  <2> DEFINE all == rows \o new
  <2>1. steady \in SUBSET list /\ Walked(dataset.style, cursor, list, steady, moved, rows)
    BY <1>1, <1>12 DEF FetchInv, PageWalk
  <2>2. /\ next # 0 => Walked(dataset.style, next, list, steady, moved, all)
        /\ next = 0 =>
              /\ moved = Still => all = AsRows(list, FALSE)
              /\ dataset.style = "after" \/ moved["removed"] = 0 => steady \subseteq FetchedOf(all)
              /\ dataset.style = "after" \/ moved["added"] = 0 => NoDoubles(all)
    BY <1>1, <1>2, <1>3, <1>12, <2>1, WalkGoesOn DEF new, page, next
  <2> HIDE DEF all
  <2>3. rows' = all /\ (status' = "asking" => next # 0)
    BY <1>8, <1>12 DEF all
  <2>4. Unread' /\ KeyWalk'
    BY <1>1, <1>3, <1>8 DEF Unread, KeyWalk
  <2>5. PageWalk'
    BY <1>1, <2>1, <2>2, <2>3 DEF PageWalk
  <2>6. WholeUnlessCut'
    <3>1. Expected' = AsRows(list, FALSE)
      <4>1. Expected = AsRows(list, FALSE)
        BY <1>2, <1>3, ExpectedIs
      <4>2. Expected' = Expected
        BY <1>1 DEF Expected, CensusOf
      <4> QED
        BY <4>1, <4>2
    <3> QED
      BY <1>1, <2>2, <2>3, <3>1 DEF WholeUnlessCut, Exhausted
  <2>7. ShiftNeedsCause'
    <3>1. Fetched' = FetchedOf(all)
      BY <2>3 DEF Fetched, FetchedOf
    <3>2. Doubled' => ~NoDoubles(all)
      BY <2>3 DEF Doubled, NoDoubles
    <3>3. dataset.style # "after" => dataset.style \in Shifting
      BY <1>1 DEF Paged, Shifting
    <3>4. moved["removed"] \in Nat /\ moved["added"] \in Nat
      BY <1>2
    <3> QED
      BY <1>1, <2>2, <3>1, <3>2, <3>3, <3>4 DEF ShiftNeedsCause, Exhausted
  <2> QED
    BY <1>9, <2>4, <2>5, <2>6, <2>7 DEF FetchInv
<1> QED
  BY <1>10, <1>11, <1>12

LEMMA WholeStep ==
    ASSUME FetchInv, RequestWhole
    PROVE  FetchInv'
<1> DEFINE new == AsRows(list, dataset.nested)
<1>1. /\ status = "asking" /\ dataset.style = "whole" /\ Take(new, FALSE)
      /\ UNCHANGED <<dataset, list, stubborn, ids, cursor, token, asked, steady, moved>>
  BY DEF RequestWhole, Ready
<1>2. FetchTyped /\ dataset \in Datasets /\ rows = << >> /\ list \in SUBSET Records
  BY <1>1 DEF FetchInv, FetchTyped, KeyWalk
<1>3. dataset.nested = FALSE
  BY <1>1, <1>2, DatasetIs
<1>4. new \in Seq(RowNumbers)
  BY <1>2, <1>3, AsRowsIs
<1> HIDE DEF new
<1>5. /\ rows' \in Seq(RowNumbers) /\ status' \in {"limited", "asking", "done"}
      /\ status' # "limited" => rows' = rows \o new /\ status' = "done"
  <2>1. rows \in Seq(RowNumbers)
    BY <1>2
  <2> QED
    BY <1>1, <1>4, <2>1, TakeKeeps
<1>6. FetchTyped'
  BY <1>1, <1>2, <1>5 DEF FetchTyped
<1>7. CASE status' = "limited"
  BY <1>6, <1>7, CutShort
<1>8. CASE status' = "done"
  <2>1. rows' = AsRows(list, FALSE)
    <3>1. rows' = new
      BY <1>2, <1>4, <1>5, <1>8
    <3> QED
      BY <1>3, <3>1 DEF new
  <2>2. Expected' = AsRows(list, FALSE)
    <3>1. Expected = AsRows(list, FALSE)
      BY <1>1, <1>2, ExpectedIs
    <3>2. Expected' = Expected
      BY <1>1 DEF Expected, CensusOf
    <3> QED
      BY <3>1, <3>2
  <2>3. dataset'.style \notin Paged
    BY <1>1 DEF Paged
  <2> QED
    BY <1>6, <1>8, <2>1, <2>2, <2>3
       DEF FetchInv, Unread, PageWalk, KeyWalk, WholeUnlessCut, ShiftNeedsCause
<1> QED
  BY <1>5, <1>7, <1>8

LEMMA CensusTyped ==
    ASSUME NEW keys
    PROVE  CensusOf(keys) \in Seq(RowNumbers)
<1> DEFINE n == 5 + (IF keys # {} THEN 3 ELSE 0) + (IF list # {} THEN 1 ELSE 0)
<1>1. n \in Nat
  OBVIOUS
<1>2. CensusOf(keys) = [i \in 1 .. n |-> <<i, 1>>]
  BY DEF CensusOf
<1> HIDE DEF n
<1>3. \A i \in 1 .. n : <<i, 1>> \in RowNumbers
  BY <1>1 DEF RowNumbers
<1> QED
  BY <1>1, <1>2, <1>3

LEMMA BatchStep ==
    ASSUME FetchInv, RequestBatch
    PROVE  FetchInv'
<1> DEFINE keys == Newest(ids, Batch)
           of   == Newest(keys, BatchSize) \cap list
           new  == IF dataset.style = "census" THEN CensusOf(keys) ELSE AsRows(of, dataset.nested)
           more == ids' # {}
<1>1. /\ status = "asking" /\ dataset.style \in Keyed /\ ids' = ids \ keys
      /\ Take(new, more)
      /\ UNCHANGED <<dataset, list, stubborn, cursor, pages, token, asked, steady, moved>>
  BY DEF RequestBatch, Ready, KeyedAnswer
<1>2. /\ FetchTyped /\ dataset \in Datasets /\ rows \in Seq(RowNumbers)
      /\ list \in SUBSET Records /\ asked \in SUBSET Records /\ ids \in SUBSET asked
      /\ Cardinality(asked) =< MaxIds /\ dataset.nested \in BOOLEAN
  BY DatasetIs DEF FetchInv, FetchTyped
<1>3. ids \in SUBSET Nat /\ IsFiniteSet(ids) /\ Records \subseteq Nat
  BY <1>2, FetchAssumption, FS_Subset DEF FetchAssumption
<1>4. Batch \in Nat /\ BatchSize \in Nat /\ MaxIds \in Nat
  BY FetchAssumption DEF FetchAssumption, Batch
<1>5. keys \in SUBSET ids /\ IsFiniteSet(keys) /\ keys \in SUBSET Nat
  BY <1>3, <1>4, NewestPart
<1>6. \A a \in keys : \A b \in ids \ keys : a > b
  BY <1>3, <1>4, NewestFirst
<1>7. ASSUME dataset.style = "keyed" PROVE of = keys \cap list
  <2>1. Batch = BatchSize
    BY <1>7 DEF Batch
  <2>2. Cardinality(keys) =< BatchSize
    BY <1>3, <1>4, <2>1, NewestCount
  <2>3. Newest(keys, BatchSize) = keys
    BY <1>4, <1>5, <2>2, AllIsNewest
  <2> QED
    BY <2>3
<1>8. ASSUME dataset.style = "census" PROVE keys = ids
  <2>1. Batch = MaxIds
    BY <1>8 DEF Batch
  <2>2. IsFiniteSet(asked)
    BY <1>2, FetchAssumption, FS_Subset DEF FetchAssumption
  <2>3. Cardinality(ids) =< Cardinality(asked) /\ Cardinality(asked) \in Nat /\ Cardinality(ids) \in Nat
    BY <1>2, <1>3, <2>2, FS_Subset, FS_CardinalityType
  <2>4. Cardinality(ids) =< MaxIds
    BY <1>2, <1>4, <2>3
  <2> QED
    BY <1>3, <1>4, <2>1, <2>4, AllIsNewest
<1>9. CensusOf(keys) \in Seq(RowNumbers)
  BY CensusTyped
<1>10. AsRows(of, dataset.nested) \in Seq(RowNumbers)
  <2>1. of \in SUBSET Records
    BY <1>2
  <2> HIDE DEF of
  <2> QED
    BY <1>2, <2>1, AsRowsIs
<1>11. new \in Seq(RowNumbers)
  BY <1>9, <1>10
<1> HIDE DEF new, of, keys
<1>12. /\ rows' \in Seq(RowNumbers) /\ status' \in {"limited", "asking", "done"}
       /\ status' # "limited" =>
             rows' = rows \o new /\ status' = IF ids' # {} THEN "asking" ELSE "done"
  BY <1>1, <1>2, <1>11, TakeKeeps
<1>13. FetchTyped'
  BY <1>1, <1>2, <1>12 DEF FetchTyped
<1>14. CASE status' = "limited"
  BY <1>13, <1>14, CutShort
<1>15. dataset'.style \notin Paged
  BY <1>1 DEF Keyed, Paged
<1>16. CASE status' # "limited" /\ dataset.style = "census"
  <2>1. ids = asked /\ rows = << >>
    BY <1>1, <1>16 DEF FetchInv, KeyWalk
  <2>2. ids' = {} /\ status' = "done"
    BY <1>1, <1>8, <1>12, <1>16
  <2>3. rows' = new /\ new = CensusOf(asked)
    <3>1. rows' = << >> \o new
      BY <1>12, <1>16, <2>1
    <3>2. rows' = new
      BY <1>11, <3>1
    <3> QED
      BY <1>8, <1>16, <2>1, <3>2 DEF new
  <2>4. Expected' = CensusOf(asked)
    <3>1. Expected = CensusOf(asked)
      BY <1>2, <1>16, ExpectedIs
    <3>2. Expected' = Expected
      BY <1>1 DEF Expected, CensusOf
    <3> QED
      BY <3>1, <3>2
  <2> QED
    BY <1>13, <1>15, <2>2, <2>3, <2>4
       DEF FetchInv, Unread, PageWalk, KeyWalk, WholeUnlessCut, ShiftNeedsCause
<1>17. CASE status' # "limited" /\ dataset.style # "census"
  <2>1. dataset.style = "keyed"
    BY <1>1, <1>17 DEF Keyed
  <2>2. /\ \A a \in Answered, b \in ids : a > b
        /\ moved = Still => rows = AsRows(Answered \cap list, dataset.nested)
    BY <1>1, <2>1 DEF FetchInv, KeyWalk
  <2>3. Answered' = Answered \cup keys
    BY <1>1, <1>2, <1>5 DEF Answered
  <2>4. \A a \in Answered', b \in ids' : a > b
    BY <1>1, <1>6, <2>2, <2>3
  <2>5. ASSUME moved = Still PROVE rows' = AsRows(Answered' \cap list, dataset.nested)
    <3> DEFINE A == Answered \cap list
               B == keys \cap list
    <3>1. A \in SUBSET Records /\ B \in SUBSET Records /\ \A a \in A, b \in B : a > b
      BY <1>2, <1>5, <2>2
    <3>2. AsRows(A \cup B, dataset.nested) = AsRows(A, dataset.nested) \o AsRows(B, dataset.nested)
      <4> HIDE DEF A, B
      <4> QED
        BY <1>2, <3>1, AsRowsJoins
    <3>3. Answered' \cap list = A \cup B
      BY <2>3
    <3>4. new = AsRows(B, dataset.nested)
      BY <1>7, <2>1 DEF new
    <3> QED
      BY <1>12, <1>17, <2>2, <2>5, <3>2, <3>3, <3>4
  <2>6. KeyWalk'
    BY <1>1, <2>1, <2>4, <2>5 DEF KeyWalk
  <2>7. PageWalk'
    <3>1. status' = "asking" => steady \subseteq list
      BY <1>1 DEF FetchInv, PageWalk
    <3> QED
      BY <1>1, <1>15, <3>1 DEF PageWalk
  <2>8. WholeUnlessCut'
    <3> SUFFICES ASSUME status' = "done", moved = Still PROVE rows' = Expected'
      BY <1>1 DEF WholeUnlessCut, Exhausted
    <3>1. ids' = {}
      BY <1>12
    <3>2. Answered' = asked
      BY <1>1, <3>1 DEF Answered
    <3>3. Expected' = AsRows(asked \cap list, dataset.nested)
      <4>1. Expected = AsRows(asked \cap list, dataset.nested)
        BY <1>2, <2>1, ExpectedIs
      <4>2. Expected' = Expected
        BY <1>1 DEF Expected, CensusOf
      <4> QED
        BY <4>1, <4>2
    <3> QED
      BY <2>5, <3>2, <3>3
  <2> QED
    BY <1>12, <1>13, <1>15, <2>6, <2>7, <2>8 DEF FetchInv, Unread, ShiftNeedsCause
<1> QED
  BY <1>14, <1>16, <1>17

LEMMA AddedStep ==
    ASSUME FetchInv, Added
    PROVE  FetchInv'
<1>1. PICK r \in Records \ list : list' = list \cup {r}
  BY DEF Added
<1>2. /\ status = "asking" /\ moved' = [moved EXCEPT !["added"] = @ + 1]
      /\ UNCHANGED <<dataset, status, stubborn, ids, cursor, pages, token, rows, asked, steady>>
  BY DEF Added, Changes
<1>3. /\ FetchTyped /\ moved \in [{"added", "removed"} -> Nat] /\ cursor \in Nat
      /\ list \in SUBSET Records
  BY DEF FetchInv, FetchTyped
<1>4. /\ moved' \in [{"added", "removed"} -> Nat]
      /\ moved'["added"] # 0 /\ moved'["removed"] = moved["removed"]
  BY <1>2, <1>3
<1>5. moved' # Still
  BY <1>4 DEF Still
<1>6. FetchTyped'
  BY <1>1, <1>2, <1>3, <1>4 DEF FetchTyped
<1>7. list' \in SUBSET Nat /\ IsFiniteSet(list') /\ list' \in SUBSET Records
  <2>1. list' \in SUBSET Records
    BY <1>1, <1>3
  <2> QED
    BY <2>1, FetchAssumption, FS_Subset DEF FetchAssumption
<1>8. ASSUME NEW q \in list, q \in Passed(dataset.style, cursor, list')
      PROVE  q \in Passed(dataset.style, cursor, list)
  <2>1. CASE dataset.style = "after"
    BY <1>8, <2>1 DEF Passed
  <2>2. CASE dataset.style # "after"
    <3> DEFINE k == WalkAt(dataset.style, cursor)
    <3>1. k \in Nat
      BY <1>3, WalkAtTyped
    <3>2. Place(list', q) =< k
      BY <1>8, <2>2 DEF Passed, Newest
    <3>3. Place(list, q) =< Place(list', q)
      <4>1. list \in SUBSET list'
        BY <1>1
      <4> QED
        BY <1>7, <4>1, PlaceGrows
    <3>4. Place(list, q) \in Nat /\ Place(list', q) \in Nat
      <4>1. list \in SUBSET Nat /\ IsFiniteSet(list)
        BY <1>3, FetchAssumption, FS_Subset DEF FetchAssumption
      <4> QED
        BY <1>7, <4>1, PlaceTyped
    <3> HIDE DEF k
    <3>5. Place(list, q) =< k
      BY <3>1, <3>2, <3>3, <3>4
    <3> QED
      BY <1>8, <2>2, <3>5 DEF Passed, Newest, k
  <2> QED
    BY <2>1, <2>2
<1>9. steady \subseteq list
  BY <1>2 DEF FetchInv, PageWalk
<1>10. ASSUME dataset.style \in Paged, ~stubborn
       PROVE  Walked(dataset.style, cursor, list', steady, moved', rows)
  <2>1. Walked(dataset.style, cursor, list, steady, moved, rows)
    BY <1>2, <1>10 DEF FetchInv, PageWalk
  <2>2. ASSUME dataset.style = "after" \/ moved'["removed"] = 0
        PROVE  steady \cap Passed(dataset.style, cursor, list') \subseteq FetchedOf(rows)
    <3>1. steady \cap Passed(dataset.style, cursor, list) \subseteq FetchedOf(rows)
      BY <1>4, <2>1, <2>2 DEF Walked
    <3> QED
      BY <1>8, <1>9, <3>1
  <2>3. ASSUME dataset.style = "after"
        PROVE  /\ NoDoubles(rows) /\ FetchedOf(rows) \cap list' \subseteq Passed(dataset.style, cursor, list')
               /\ \A q \in FetchedOf(rows) : q \in Nat /\ cursor # 0 /\ q >= cursor
    BY <2>1, <2>3 DEF Walked, Passed
  <2> QED
    BY <1>4, <1>5, <2>2, <2>3 DEF Walked
<1>11. PageWalk'
  BY <1>1, <1>2, <1>9, <1>10 DEF PageWalk
<1>12. KeyWalk'
  BY <1>2, <1>5 DEF FetchInv, KeyWalk, Answered
<1> QED
  BY <1>2, <1>6, <1>11, <1>12 DEF FetchInv, Unread, WholeUnlessCut, ShiftNeedsCause, Exhausted

LEMMA RemovedStep ==
    ASSUME FetchInv, Removed
    PROVE  FetchInv'
<1>1. PICK r \in list : list' = list \ {r} /\ steady' = steady \ {r}
  BY DEF Removed
<1>2. /\ status = "asking" /\ moved' = [moved EXCEPT !["removed"] = @ + 1]
      /\ UNCHANGED <<dataset, status, stubborn, ids, cursor, pages, token, rows, asked>>
  BY DEF Removed, Changes
<1>3. /\ FetchTyped /\ moved \in [{"added", "removed"} -> Nat] /\ cursor \in Nat
      /\ list \in SUBSET Records
  BY DEF FetchInv, FetchTyped
<1>4. /\ moved' \in [{"added", "removed"} -> Nat]
      /\ moved'["removed"] # 0 /\ moved'["added"] = moved["added"]
  BY <1>2, <1>3
<1>5. moved' # Still
  BY <1>4 DEF Still
<1>6. FetchTyped'
  BY <1>1, <1>2, <1>3, <1>4 DEF FetchTyped
<1>7. list \in SUBSET Nat /\ IsFiniteSet(list) /\ list' \in SUBSET list
  BY <1>1, <1>3, FetchAssumption, FS_Subset DEF FetchAssumption
<1>8. ASSUME NEW q \in list', q \in Passed(dataset.style, cursor, list)
      PROVE  q \in Passed(dataset.style, cursor, list')
  <2>1. CASE dataset.style = "after"
    BY <1>8, <2>1 DEF Passed
  <2>2. CASE dataset.style # "after"
    <3> DEFINE k == WalkAt(dataset.style, cursor)
    <3>1. k \in Nat
      BY <1>3, WalkAtTyped
    <3>2. Place(list, q) =< k
      BY <1>8, <2>2 DEF Passed, Newest
    <3>3. Place(list', q) =< Place(list, q)
      BY <1>7, PlaceGrows
    <3>4. Place(list, q) \in Nat /\ Place(list', q) \in Nat
      <4>1. list' \in SUBSET Nat /\ IsFiniteSet(list')
        BY <1>7, FS_Subset
      <4> QED
        BY <1>7, <4>1, PlaceTyped
    <3> HIDE DEF k
    <3>5. Place(list', q) =< k
      BY <3>1, <3>2, <3>3, <3>4
    <3> QED
      BY <1>8, <2>2, <3>5 DEF Passed, Newest, k
  <2> QED
    BY <2>1, <2>2
<1>9. steady \subseteq list
  BY <1>2 DEF FetchInv, PageWalk
<1>10. ASSUME dataset.style \in Paged, ~stubborn
       PROVE  Walked(dataset.style, cursor, list', steady', moved', rows)
  <2>1. Walked(dataset.style, cursor, list, steady, moved, rows)
    BY <1>2, <1>10 DEF FetchInv, PageWalk
  <2>2. ASSUME dataset.style = "after"
        PROVE  /\ steady' \cap Passed(dataset.style, cursor, list') \subseteq FetchedOf(rows)
               /\ \A q \in FetchedOf(rows) : q \in Nat /\ cursor # 0 /\ q >= cursor
    <3>1. steady \cap Passed(dataset.style, cursor, list) \subseteq FetchedOf(rows)
      BY <2>1, <2>2 DEF Walked
    <3>2. Passed(dataset.style, cursor, list') \subseteq Passed(dataset.style, cursor, list)
      BY <1>1, <2>2 DEF Passed
    <3>3. \A q \in FetchedOf(rows) : q \in Nat /\ cursor # 0 /\ q >= cursor
      BY <2>1, <2>2 DEF Walked
    <3> QED
      BY <1>1, <3>1, <3>2, <3>3
  <2>3. ASSUME dataset.style = "after" \/ moved'["added"] = 0
        PROVE  NoDoubles(rows) /\ FetchedOf(rows) \cap list' \subseteq Passed(dataset.style, cursor, list')
    <3>1. NoDoubles(rows) /\ FetchedOf(rows) \cap list \subseteq Passed(dataset.style, cursor, list)
      BY <1>4, <2>1, <2>3 DEF Walked
    <3> QED
      BY <1>7, <1>8, <3>1
  <2> QED
    BY <1>4, <1>5, <2>2, <2>3 DEF Walked
<1>11. PageWalk'
  BY <1>1, <1>2, <1>9, <1>10 DEF PageWalk
<1>12. KeyWalk'
  BY <1>2, <1>5 DEF FetchInv, KeyWalk, Answered
<1> QED
  BY <1>2, <1>6, <1>11, <1>12 DEF FetchInv, Unread, WholeUnlessCut, ShiftNeedsCause, Exhausted

LEMMA NextFetchInv == FetchInv /\ SetupInv /\ [SetupNext]_clientVars => FetchInv'
<1> SUFFICES ASSUME FetchInv, SetupInv, [SetupNext]_clientVars PROVE FetchInv'
  OBVIOUS
<1>1. CASE SetupStep \/ UNCHANGED clientVars
  <2>1. UNCHANGED fetchVars
    BY <1>1 DEF SetupStep, Submit, Refresh, Exchange, ProbeAnswered, ProbeRejected, ProbeFailed,
       Store, Show, ShowRefreshed, Replace, Expire, clientVars
  <2> QED
    BY <2>1, Untouched
<1>2. CASE Add
  BY <1>2, AddStep
<1>3. CASE Fetch
  BY <1>3, AtOnceStep, AskingStep, TokenStep, PageStep, WholeStep, BatchStep, FailureStep
     DEF Fetch, FetchStep
<1>4. CASE Shift
  BY <1>4, AddedStep, RemovedStep DEF Shift
<1> QED
  BY <1>1, <1>2, <1>3, <1>4 DEF SetupNext

LEMMA FetchInvariant == SetupSpec => []FetchInv
<1>1. SetupInit => FetchInv /\ SetupInv
  BY FetchBegins, InitSetupInv
<1>2. FetchInv /\ SetupInv /\ [SetupNext]_clientVars => FetchInv' /\ SetupInv'
  BY NextFetchInv, NextSetupInv
<1> QED
  BY <1>1, <1>2, PTL DEF SetupSpec

(* "Every row of one dataset" (_fetch_all), for lists and pages of any     *)
(* length: unless the list moved while it was read or a limit cut the      *)
(* walk, what is stored is what the provider holds, each record once and   *)
(* in its order, whichever way the client pages.                           *)
THEOREM FetchIsWhole == SetupSpec => []WholeUnlessCut
<1>1. FetchInv => WholeUnlessCut
  BY DEF FetchInv
<1> QED
  BY <1>1, FetchInvariant, PTL

(* However often the list moves under a walk: it costs a record that was   *)
(* there all the time only if pages are counted from the start and         *)
(* something was removed, and brings one twice only if something was       *)
(* added; a walk that follows cursors does neither.                        *)
THEOREM ShiftsHaveCauses == SetupSpec => []ShiftNeedsCause
<1>1. FetchInv => ShiftNeedsCause
  BY DEF FetchInv
<1> QED
  BY <1>1, FetchInvariant, PTL

(* ------------------------------- Its limits ---------------------------- *)

(* A walk that goes on has requests left.                                  *)
LimitInv ==
    /\ FetchTypeOK
    /\ status \in {"none", "idle"} => pages = 0
    /\ status = "asking" => pages < MaxPages

LEMMA PlainRows ==
    ASSUME NEW page \in SUBSET Records
    PROVE  Len(AsRows(page, FALSE)) = Cardinality(page)
<1> DEFINE X == RowsOf(page, FALSE)
           f == [r \in page |-> <<r, 1>>]
<1>1. IsFiniteSet(page) /\ X \in SUBSET RowNumbers /\ IsFiniteSet(X)
  BY RowsTyped
<1>2. X = UNION {{r} \X (1 .. 1) : r \in page}
  BY DEF RowsOf
<1>3. \A x : x \in X <=> \E r \in page : x = <<r, 1>>
  <2>1. \A r \in page : {r} \X (1 .. 1) = {<<r, 1>>}
    OBVIOUS
  <2> HIDE DEF X
  <2> QED
    BY <1>2, <2>1
<1>4. f \in Bijection(page, X)
  <2> HIDE DEF X
  <2>1. f \in [page -> X] /\ \A r \in page : f[r] = <<r, 1>>
    BY <1>3
  <2>2. \A r, q \in page : f[r] = f[q] => r = q
    BY <2>1
  <2>3. \A x \in X : \E r \in page : f[r] = x
    BY <1>3, <2>1
  <2> HIDE DEF f
  <2> QED
    BY <2>1, <2>2, <2>3 DEF Bijection, Injection, Surjection, IsInjective
<1> HIDE DEF f, X
<1>5. Cardinality(X) = Cardinality(page)
  BY <1>1, <1>4, FS_Bijection DEF ExistsBijection
<1>6. Len(InOrder(X)) = Cardinality(X)
  BY <1>1, InOrderIs
<1> QED
  BY <1>5, <1>6 DEF AsRows, X

LEMMA FewIdentifiers ==
    ASSUME NEW all \in SUBSET Records, Cardinality(all) =< MaxIds, NEW left \in SUBSET all
    PROVE  Cardinality(left) =< MaxIds
<1>1. IsFiniteSet(all) /\ IsFiniteSet(left) /\ MaxIds \in Nat
  BY FetchAssumption, FS_Subset DEF FetchAssumption
<1>2. Cardinality(left) =< Cardinality(all) /\ Cardinality(left) \in Nat /\ Cardinality(all) \in Nat
  BY <1>1, FS_Subset, FS_CardinalityType
<1> QED
  BY <1>1, <1>2

LEMMA LimitsBegin == SetupInit => LimitInv
<1> SUFFICES ASSUME SetupInit PROVE LimitInv
  OBVIOUS
<1>1. FetchInit
  BY DEF SetupInit
<1>2. MaxPages \in Nat /\ MaxRows \in Nat /\ MaxChanges \in Nat
  BY FetchAssumption DEF FetchAssumption
<1>3. FetchTyped
  BY FetchBegins DEF FetchInv
<1>4. Len(<< >>) = 0 /\ Still \in [{"added", "removed"} -> 0 .. MaxChanges]
  BY <1>2 DEF Still
<1>5. token = "unasked" /\ pages = 0 /\ rows = << >> /\ moved = Still /\ status = "none"
  BY <1>1 DEF FetchInit
<1>6. FetchTypeOK
  BY <1>2, <1>3, <1>4, <1>5, FewIdentifiers DEF FetchTyped, FetchTypeOK, RowNumbers
<1> QED
  BY <1>5, <1>6 DEF LimitInv

LEMMA NextLimitInv ==
    ASSUME LimitInv, FetchInv, FetchInv', [SetupNext]_clientVars
    PROVE  LimitInv'
<1> DEFINE Counts == /\ token' \in {"unasked", "own", "none"} /\ pages' \in 0 .. MaxPages
                     /\ dataset'.style # "fixed" => Len(rows') =< MaxRows
                     /\ moved' \in [{"added", "removed"} -> 0 .. MaxChanges]
                     /\ status' \in {"none", "idle"} => pages' = 0
                     /\ status' = "asking" => pages' < MaxPages
<1>1. MaxPages \in Nat \ {0} /\ MaxRows \in Nat \ {0} /\ MaxChanges \in Nat
  BY FetchAssumption DEF FetchAssumption
<1>2. /\ token \in {"unasked", "own", "none"} /\ pages \in 0 .. MaxPages
      /\ dataset.style # "fixed" => Len(rows) =< MaxRows
      /\ moved \in [{"added", "removed"} -> 0 .. MaxChanges]
      /\ status \in {"none", "idle"} => pages = 0
      /\ status = "asking" => pages < MaxPages
  BY DEF LimitInv, FetchTypeOK
<1>3. FetchTyped /\ FetchTyped' /\ Unread
  BY DEF FetchInv
<1>4. SUFFICES Counts
  BY <1>3, FewIdentifiers DEF LimitInv, FetchTyped, FetchTypeOK, RowNumbers
<1>5. CASE SetupStep \/ UNCHANGED clientVars
  <2>1. UNCHANGED fetchVars
    BY <1>5 DEF SetupStep, Submit, Refresh, Exchange, ProbeAnswered, ProbeRejected, ProbeFailed,
       Store, Show, ShowRefreshed, Replace, Expire, clientVars
  <2> QED
    BY <1>2, <2>1 DEF fetchVars
<1>6. CASE Add
  <2>1. status = "none" /\ status' = "idle" /\ UNCHANGED <<pages, token, rows, moved>>
    BY <1>6 DEF Add, AddDataset
  <2>2. rows = << >>
    BY <1>3, <2>1 DEF Unread
  <2> QED
    BY <1>1, <1>2, <2>1, <2>2
<1>7. CASE CopyFixed \/ RunQuery \/ ReadIdentifiers \/ AskProvider
  <2>1. /\ status = "idle" /\ moved' = Still /\ UNCHANGED <<dataset, pages, token>>
        /\ status' \in {"done", "failed", "asking"}
    BY <1>7 DEF CopyFixed, RunQuery, ReadIdentifiers, AskProvider, Start, End
  <2>2. Still \in [{"added", "removed"} -> 0 .. MaxChanges]
    BY <1>1 DEF Still
  <2>3. dataset.style # "fixed" => Len(rows') =< MaxRows
    <3>1. CASE CopyFixed
      BY <3>1 DEF CopyFixed
    <3>2. CASE RunQuery
      <4>1. rows' = rows \/ (rows' = AsRows(list, FALSE) /\ Cardinality(list) =< MaxRows)
        BY <3>2 DEF RunQuery
      <4>2. Len(AsRows(list, FALSE)) = Cardinality(list)
        BY <1>3, PlainRows DEF FetchTyped
      <4> QED
        BY <1>2, <4>1, <4>2
    <3>3. CASE ReadIdentifiers \/ AskProvider
      BY <1>2, <3>3 DEF ReadIdentifiers, AskProvider
    <3> QED
      BY <1>7, <3>1, <3>2, <3>3
  <2> QED
    BY <1>1, <1>2, <2>1, <2>2, <2>3
<1>8. CASE PageToken
  <2>1. /\ status = "asking" /\ status' \in {"asking", "failed"}
        /\ token' \in {"own", "none"} /\ UNCHANGED <<dataset, pages, rows, moved>>
    BY <1>8 DEF PageToken, End
  <2> QED
    BY <1>2, <2>1
<1>9. CASE RequestPage
  <2>1. PICK new, more :
           /\ Take(new, more) /\ more \in BOOLEAN /\ (more => pages + 1 < MaxPages)
           /\ new = AsRows(Answer(dataset.style, cursor), dataset.nested)
    <3> DEFINE page == Answer(dataset.style, cursor)
    <3>1. Take(AsRows(page, dataset.nested), cursor' # 0 /\ pages + 1 < MaxPages)
      BY <1>9 DEF RequestPage
    <3> QED
      BY <3>1
  <2>2. /\ status = "asking" /\ pages' = pages + 1 /\ UNCHANGED <<dataset, token, moved>>
    BY <1>9 DEF RequestPage, Ready
  <2>3. new \in Seq(RowNumbers) /\ rows \in Seq(RowNumbers)
    <3>1. Answer(dataset.style, cursor) \in SUBSET Records
      BY <1>3 DEF FetchTyped, Answer, Newest
    <3>2. dataset.nested \in BOOLEAN
      BY <1>3, DatasetIs DEF FetchTyped
    <3> QED
      BY <1>3, <2>1, <3>1, <3>2, AsRowsIs DEF FetchTyped
  <2>4. Len(rows') =< MaxRows /\ status' \in {"limited", "asking", "done"} /\ (status' = "asking" => more)
    BY <2>1, <2>3, TakeKeeps
  <2> QED
    BY <1>1, <1>2, <2>1, <2>2, <2>4
<1>10. CASE RequestWhole
  <2>1. /\ status = "asking" /\ pages' = pages + 1 /\ UNCHANGED <<dataset, token, moved>>
        /\ Take(AsRows(list, dataset.nested), FALSE)
    BY <1>10 DEF RequestWhole, Ready
  <2>2. AsRows(list, dataset.nested) \in Seq(RowNumbers) /\ rows \in Seq(RowNumbers)
    BY <1>3, DatasetIs, AsRowsIs DEF FetchTyped
  <2>3. Len(rows') =< MaxRows /\ status' \in {"limited", "done"}
    BY <2>1, <2>2, TakeKeeps
  <2> QED
    BY <1>1, <1>2, <2>1, <2>3
<1>11. CASE RequestBatch
  <2> DEFINE keys == Newest(ids, Batch)
             of   == KeyedAnswer(keys)
             new  == IF dataset.style = "census" THEN CensusOf(keys) ELSE AsRows(of, dataset.nested)
  <2>1. /\ status = "asking" /\ UNCHANGED <<dataset, pages, token, moved>>
        /\ Take(new, ids' # {})
    BY <1>11 DEF RequestBatch, Ready
  <2>2. of \in SUBSET Records
    BY <1>3 DEF FetchTyped, KeyedAnswer
  <2> HIDE DEF keys, of
  <2>3. new \in Seq(RowNumbers)
    <3>1. AsRows(of, dataset.nested) \in Seq(RowNumbers)
      BY <1>3, <2>2, DatasetIs, AsRowsIs DEF FetchTyped
    <3>2. CensusOf(keys) \in Seq(RowNumbers)
      BY CensusTyped
    <3> QED
      BY <3>1, <3>2
  <2> HIDE DEF new
  <2>4. Len(rows') =< MaxRows /\ status' \in {"limited", "asking", "done"}
    BY <1>3, <2>1, <2>3, TakeKeeps DEF FetchTyped
  <2> QED
    BY <1>1, <1>2, <2>1, <2>4
<1>12. CASE RequestFails
  <2>1. /\ status' = "failed" /\ rows' = << >> /\ UNCHANGED <<dataset, pages, token, moved>>
    BY <1>12 DEF RequestFails, End
  <2> QED
    BY <1>1, <1>2, <2>1
<1>13. CASE Shift
  <2>1. /\ status = "asking" /\ moved["added"] + moved["removed"] < MaxChanges
        /\ UNCHANGED <<dataset, status, pages, token, rows>>
        /\ \/ moved' = [moved EXCEPT !["added"] = @ + 1]
           \/ moved' = [moved EXCEPT !["removed"] = @ + 1]
    BY <1>13 DEF Shift, Added, Removed, Changes
  <2>2. moved' \in [{"added", "removed"} -> 0 .. MaxChanges]
    BY <1>1, <1>2, <2>1
  <2> QED
    BY <1>2, <2>1, <2>2
<1> QED
  BY <1>5, <1>6, <1>7, <1>8, <1>9, <1>10, <1>11, <1>12, <1>13 DEF SetupNext, Fetch, FetchStep

(* However large a provider's list is: a fetch makes at most MAX_PAGES     *)
(* requests for pages, asks about at most MAX_IDENTIFIERS and brings at    *)
(* most MAX_ROWS_PER_SYNC rows, unless they are defined in code.           *)
THEOREM FetchTypeCorrect == SetupSpec => []FetchTypeOK
<1>1. SetupInit => LimitInv /\ FetchInv /\ SetupInv
  BY LimitsBegin, FetchBegins, InitSetupInv
<1>2. LimitInv /\ FetchInv /\ SetupInv /\ [SetupNext]_clientVars => LimitInv' /\ FetchInv' /\ SetupInv'
  BY NextFetchInv, NextSetupInv, NextLimitInv
<1>3. LimitInv => FetchTypeOK
  BY DEF LimitInv
<1> QED
  BY <1>1, <1>2, <1>3, PTL DEF SetupSpec
=============================================================================
