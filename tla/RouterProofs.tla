----------------------------- MODULE RouterProofs -----------------------------
(***************************************************************************)
(* Theorems about the two components that serve pages of router.py:        *)
(* Settings, for every set of keys, bounds, inputs, lists of suggestions   *)
(* and pages; and Report, for every finite set of tickers, all percentages, *)
(* costs, capitals, days, limits and grains, however many trades.          *)
(***************************************************************************)
EXTENDS Settings, Report, FiniteSetTheorems, WellFoundedInduction, TLAPS

-------------------------------------------------------------------------------
(* Settings: the invariant.                                                  *)

USE BoundsAssumption, ValuesAssumption, SuggestionsAssumption, FallbackAssumption

Values == Int \cup {Bad, None}
Suggestion == [param : STRING, value : Values]
Recommendation == [param : STRING, value : Values, status : Status]

(* What the file may hold, and what may be saved into it.                   *)
Sound(k, v) == v \in Int /\ (k \in Bounded => v \in Lo[k] .. Hi[k])
\* What the loop may run with: the same, or what the environment gave.
Runs(k, v) == Sound(k, v) \/ v = Default[k]

StoreInv ==
    /\ file \in [Keys -> Int \cup {None}] /\ running \in [Keys -> Int]
    /\ \A k \in Keys : file[k] # None => Sound(k, file[k])
    /\ \A k \in Keys : Runs(k, running[k]) /\ (file[k] # None => Sound(k, running[k]))
    /\ fileIs = "absent" => file = Empty
    /\ RunningIsStored

RecsInv == recs \in Seq(Recommendation)

(* Of the lists on their way to a linked page the last that is not empty    *)
(* will be shown; without one, the list shown stays.  Unless half a list    *)
(* was taken over, it is the server's, if that has one.                     *)
Matches(list) ==
    /\ Len(list) = Len(recs)
    /\ \A i \in 1 .. Len(recs) : list[i].param = recs[i].param /\ list[i].value = recs[i].value

Shows(b) ==
    /\ \A i \in 1 .. Len(mail[b]) :
          (mail[b][i] # <<>> /\ \A j \in i + 1 .. Len(mail[b]) : mail[b][j] = <<>>)
              => Matches(mail[b][i])
    /\ (shown[b] # <<>> /\ \A i \in 1 .. Len(mail[b]) : mail[b][i] = <<>>)
          => Matches(shown[b])

PagesInv ==
    /\ lastResult \in Seq(Suggestion) \cup {None}
    /\ linked \in SUBSET Browsers
    /\ mail \in [Browsers -> Seq(Seq(Suggestion))]
    /\ shown \in [Browsers -> Seq(Recommendation)]
    /\ (~garbled /\ recs # <<>>) =>
          /\ (lastResult # None /\ lastResult # <<>>) => Matches(lastResult)
          /\ \A b \in linked : Shows(b)

Inv == StoreInv /\ RecsInv /\ PagesInv

-------------------------------------------------------------------------------
(* Saving.                                                                   *)

LEMMA LoadIsSound ==
  ASSUME StoreInv
  PROVE  /\ Load \in [Keys -> Int]
         /\ \A k \in Keys : Runs(k, Load[k]) /\ (file[k] # None => Sound(k, Load[k]))
BY DEF StoreInv, Load, Sound, Runs

(* Whatever is saved, the file and the loop get bounded integers.           *)
LEMMA SaveIsSound ==
  ASSUME NEW data \in [Keys -> Values], Save(data)
  PROVE  StoreInv'
<1>1. \A k \in Keys : Safe(data)[k] # None => Sound(k, Safe(data)[k])
  BY DEF Safe, Guarded, Sound, Values
<1>2. Safe(data) \in [Keys -> Int \cup {None}]
  BY DEF Safe, Guarded, Values
<1>3. \A k \in Keys : Sound(k, Reloaded(Safe(data))[k])
  BY <1>1 DEF Reloaded, Sound
<1>4. Reloaded(Safe(data)) \in [Keys -> Int]
  BY <1>2 DEF Reloaded
<1>5. RunningIsStored'
  BY <1>2 DEF Save, RunningIsStored, Reloaded, Load
<1> QED BY <1>1, <1>2, <1>3, <1>4, <1>5 DEF Save, StoreInv, Runs

LEMMA TornIsSound == StoreInv /\ Torn => StoreInv'
BY DEF StoreInv, Torn, Empty, RunningIsStored

LEMMA WithIsData ==
  ASSUME StoreInv, NEW rec \in Recommendation
  PROVE  With(rec) \in [Keys -> Values]
<1> DEFINE p == rec.param
           v == rec.value
<1>1. Load \in [Keys -> Values] /\ v \in Values
  BY LoadIsSound DEF Recommendation, Values
<1>2. With(rec) = IF p \in Keys THEN [Load EXCEPT ![p] = v] ELSE Load
  BY DEF With
<1> HIDE DEF p, v
<1>3. CASE p \in Keys
  BY <1>1, <1>2, <1>3
<1>4. CASE p \notin Keys
  BY <1>1, <1>2, <1>4
<1> QED BY <1>3, <1>4

(* A set of indices has a greatest: n minus it is the least of the rest.    *)
LEMMA GreatestIndex ==
  ASSUME NEW n \in Nat, NEW S \in SUBSET (1 .. n), S # {}
  PROVE  \E i \in S : \A j \in S : j <= i
<1> DEFINE T == {n - i : i \in S}
<1>1. T \subseteq Nat /\ T # {}
  <2>1. \A i \in S : i \in 1 .. n
    OBVIOUS
  <2>2. \A i \in S : n - i \in Nat
    BY <2>1
  <2> QED BY <2>2
<1>2. PICK x \in T : \A y \in T : <<y, x>> \notin OpToRel(<, Nat)
  <2> DEFINE R == OpToRel(<, Nat)
  <2>1. IsWellFoundedOn(R, Nat)
    BY NatLessThanWellFounded
  <2> HIDE DEF T, R
  <2>2. \E x \in T : \A y \in T : ~(<<y, x>> \in R)
    BY <1>1, <2>1, WFMin
  <2> QED BY <2>2 DEF R
<1>3. \A y \in T : x <= y
  <2> SUFFICES ASSUME NEW y \in T PROVE x <= y
    OBVIOUS
  <2>1. x \in Nat /\ y \in Nat
    BY <1>1
  <2> HIDE DEF T
  <2>2. ~(y < x)
    BY <1>2, <2>1 DEF OpToRel
  <2> QED BY <2>1, <2>2
<1>4. PICK i \in S : x = n - i
  OBVIOUS
<1>5. \A j \in S : n - j \in T
  OBVIOUS
<1> HIDE DEF T
<1>6. ASSUME NEW j \in S PROVE j <= i
  <2>1. n - i <= n - j
    BY <1>3, <1>4, <1>5
  <2>2. i \in Int /\ j \in Int
    OBVIOUS
  <2> QED BY <2>1, <2>2
<1> QED BY <1>6

LEMMA WithAllIsData ==
  ASSUME StoreInv, RecsInv
  PROVE  WithAll \in [Keys -> Values]
<1> SUFFICES ASSUME NEW k \in Keys PROVE WithAll[k] \in Values
  BY DEF WithAll
<1>1. Load[k] \in Values
  BY LoadIsSound DEF Values
<1>2. ASSUME Wanted(k) # {}
      PROVE  recs[CHOOSE i \in Wanted(k) : \A j \in Wanted(k) : j <= i].value \in Values
  <2>1. Wanted(k) \in SUBSET (1 .. Len(recs)) /\ Len(recs) \in Nat
    BY DEF Wanted, RecsInv
  <2>2. \E i \in Wanted(k) : \A j \in Wanted(k) : j <= i
    BY <1>2, <2>1, GreatestIndex
  <2>3. (CHOOSE i \in Wanted(k) : \A j \in Wanted(k) : j <= i) \in 1 .. Len(recs)
    <3> DEFINE W == Wanted(k)
    <3>1. W \in SUBSET (1 .. Len(recs)) /\ \E i \in W : \A j \in W : j <= i
      BY <2>1, <2>2
    <3> HIDE DEF W
    <3>2. (CHOOSE i \in W : \A j \in W : j <= i) \in W
      BY <3>1
    <3> QED BY <3>1, <3>2 DEF W
  <2> DEFINE c == CHOOSE i \in Wanted(k) : \A j \in Wanted(k) : j <= i
  <2>4. c \in 1 .. Len(recs)
    BY <2>3
  <2> HIDE DEF c
  <2>5. recs[c] \in Recommendation
    BY <2>4 DEF RecsInv
  <2>6. recs[c].value \in Values
    BY <2>5 DEF Recommendation
  <2> QED BY <2>6 DEF c
<1> QED BY <1>1, <1>2 DEF WithAll

-------------------------------------------------------------------------------
(* The list of recommendations, and the pages.                               *)

LEMMA PendingList ==
  ASSUME NEW list \in Seq(Suggestion)
  PROVE  /\ Pending(list) \in Seq(Recommendation)
         /\ Len(Pending(list)) = Len(list)
         /\ \A i \in 1 .. Len(list) : Pending(list)[i].param = list[i].param
                                    /\ Pending(list)[i].value = list[i].value
<1> DEFINE Item(i) == [param |-> list[i].param, value |-> list[i].value, status |-> "pending"]
<1>1. Len(list) \in Nat /\ \A i \in 1 .. Len(list) : list[i] \in Suggestion
  OBVIOUS
<1>2. \A i \in 1 .. Len(list) :
        /\ Item(i) \in Recommendation
        /\ Item(i).param = list[i].param /\ Item(i).value = list[i].value
  BY <1>1 DEF Suggestion, Recommendation, Status
<1>3. Pending(list) = [i \in 1 .. Len(list) |-> Item(i)]
  BY DEF Pending
<1> HIDE DEF Item
<1> QED BY <1>1, <1>2, <1>3

LEMMA AnswersAreLists == Answers \subseteq Seq(Suggestion) /\ Suggestions \subseteq Seq(Suggestion)
<1>1. Suggestions \subseteq Seq(Suggestion)
  BY DEF Suggestion, Values
<1>2. <<>> \in Seq(Suggestion)
  OBVIOUS
<1> QED BY ONLY <1>1, <1>2 DEF Answers

(* Giving items another status changes nothing else.                        *)
SameItems(new, old) ==
  /\ new \in Seq(Recommendation) /\ Len(new) = Len(old)
  /\ \A i \in 1 .. Len(old) : new[i].param = old[i].param /\ new[i].value = old[i].value

LEMMA StatusAlone ==
  ASSUME NEW list \in Seq(Recommendation), NEW i \in 1 .. Len(list), NEW st \in Status
  PROVE  SameItems([list EXCEPT ![i].status = st], list)
<1> DEFINE item == [list[i] EXCEPT !.status = st]
           new  == [list EXCEPT ![i].status = st]
<1>1. \A j \in 1 .. Len(list) : list[j] \in Recommendation
  OBVIOUS
<1>2. item \in Recommendation /\ item.param = list[i].param /\ item.value = list[i].value
  BY <1>1 DEF Recommendation
<1>3. \A j \in 1 .. Len(list) : new[j] = IF j = i THEN item ELSE list[j]
  OBVIOUS
<1>4. new = [j \in 1 .. Len(list) |-> IF j = i THEN item ELSE list[j]]
  <2>1. DOMAIN list = 1 .. Len(list)
    OBVIOUS
  <2> HIDE DEF item
  <2>2. [list EXCEPT ![i] = item] = [j \in 1 .. Len(list) |-> IF j = i THEN item ELSE list[j]]
    BY <2>1
  <2>3. new = [list EXCEPT ![i] = item]
    BY DEF item
  <2> QED BY <2>2, <2>3
<1> HIDE DEF item, new
<1>5. new \in Seq(Recommendation) /\ Len(new) = Len(list)
  BY <1>1, <1>2, <1>4
<1> QED BY <1>2, <1>3, <1>5 DEF SameItems, new, item

LEMMA MarkedAlone ==
  ASSUME NEW list \in Seq(Recommendation), NEW I, NEW st \in Status
  PROVE  SameItems(Marked(list, I, st), list)
<1> DEFINE Item(j) == [list[j] EXCEPT !.status = st]
<1>1. Len(list) \in Nat /\ \A j \in 1 .. Len(list) : list[j] \in Recommendation
  OBVIOUS
<1>2. \A j \in 1 .. Len(list) :
        Item(j) \in Recommendation /\ Item(j).param = list[j].param /\ Item(j).value = list[j].value
  BY <1>1 DEF Recommendation
<1>3. Marked(list, I, st) =
        [j \in 1 .. Len(list) |->
            IF j \in I /\ list[j].status = "pending" THEN Item(j) ELSE list[j]]
  BY DEF Marked
<1> HIDE DEF Item
<1> QED BY <1>1, <1>2, <1>3 DEF SameItems

LEMMA SameIsSame ==
  ASSUME NEW list \in Seq(Recommendation) PROVE SameItems(list, list)
BY DEF SameItems

(* A change of status, in the list or on a page, disturbs nobody.           *)
LEMMA RelabelPages ==
  ASSUME RecsInv, PagesInv, SameItems(recs', recs),
         UNCHANGED <<garbled, lastResult, linked, mail>>,
         shown' \in [Browsers -> Seq(Recommendation)],
         \A b \in Browsers : SameItems(shown'[b], shown[b])
  PROVE  RecsInv' /\ PagesInv'
<1>1. RecsInv' /\ Len(recs') = Len(recs)
  BY DEF SameItems, RecsInv
<1>2. ASSUME NEW old, NEW new, Len(new) = Len(old), Matches(old),
             \A i \in 1 .. Len(old) : new[i].param = old[i].param /\ new[i].value = old[i].value
      PROVE  Len(new) = Len(recs') /\ \A i \in 1 .. Len(recs') :
                 new[i].param = recs'[i].param /\ new[i].value = recs'[i].value
  BY <1>1, <1>2 DEF Matches, SameItems
<1>3. ASSUME ~garbled', recs' # <<>>
      PROVE  /\ (lastResult' # None /\ lastResult' # <<>>) => Matches(lastResult)'
             /\ \A b \in linked' : Shows(b)'
  <2>1. recs # <<>> /\ ~garbled
    BY <1>1, <1>3 DEF RecsInv
  <2>2. (lastResult' # None /\ lastResult' # <<>>) => Matches(lastResult)'
    BY <1>2, <2>1 DEF PagesInv, Matches
  <2>3. ASSUME NEW b \in linked' PROVE Shows(b)'
    <3>1. Shows(b) /\ b \in Browsers /\ mail' = mail
      BY <2>1, <2>3 DEF PagesInv
    <3>2. ASSUME NEW i \in 1 .. Len(mail'[b]), mail'[b][i] # <<>>,
                 \A j \in i + 1 .. Len(mail'[b]) : mail'[b][j] = <<>>
          PROVE  Matches(mail[b][i])'
      <4>a. /\ i \in 1 .. Len(mail[b]) /\ mail[b][i] # <<>>
            /\ \A j \in i + 1 .. Len(mail[b]) : mail[b][j] = <<>>
        BY <3>1, <3>2
      <4>1. Matches(mail[b][i])
        BY <3>1, <4>a DEF Shows
      <4> DEFINE list == mail[b][i]
      <4>2. mail'[b][i] = list /\ Matches(list)
        BY <3>1, <4>1
      <4> HIDE DEF list
      <4>3. Len(list) = Len(recs') /\ \A k \in 1 .. Len(recs') :
              list[k].param = recs'[k].param /\ list[k].value = recs'[k].value
        BY <1>2, <4>2
      <4> QED BY <4>2, <4>3 DEF Matches
    <3>3. ASSUME shown'[b] # <<>>, \A i \in 1 .. Len(mail'[b]) : mail'[b][i] = <<>>
          PROVE  Matches(shown[b])'
      <4>1. SameItems(shown'[b], shown[b]) /\ shown[b] \in Seq(Recommendation)
        BY <3>1 DEF PagesInv
      <4>2. shown[b] # <<>>
        BY <3>3, <4>1 DEF SameItems
      <4>3. Matches(shown[b])
        BY <3>1, <3>3, <4>2 DEF Shows
      <4> QED BY <1>2, <4>1, <4>3 DEF Matches, SameItems
    <3> QED BY <3>2, <3>3 DEF Shows
  <2> QED BY <2>2, <2>3
<1> QED BY <1>1, <1>3 DEF PagesInv

(* What is pushed reaches every linked page, after all that is on its way.  *)
LEMMA PushedLists ==
  ASSUME PagesInv, NEW list \in Seq(Suggestion), Push(list)
  PROVE  /\ mail' \in [Browsers -> Seq(Seq(Suggestion))]
         /\ \A b \in linked : mail'[b] = Append(mail[b], list)
<1>1. \A b \in Browsers : mail[b] \in Seq(Seq(Suggestion))
  BY DEF PagesInv
<1>2. \A b \in Browsers : Append(mail[b], list) \in Seq(Seq(Suggestion))
  BY <1>1
<1>3. \A b \in linked : b \in Browsers
  BY DEF PagesInv
<1> QED BY <1>1, <1>2, <1>3 DEF Push

LEMMA InitInv == Init => Inv
<1> SUFFICES ASSUME Init PROVE Inv
  OBVIOUS
<1>1. StoreInv
  BY DEF Init, StoreInv, Runs, Sound, Empty, RunningIsStored, Load
<1>2. RecsInv
  BY DEF Init, RecsInv
<1>3. PagesInv
  BY DEF Init, PagesInv
<1> QED BY <1>1, <1>2, <1>3 DEF Inv

LEMMA RunOptimizerInv ==
  ASSUME Inv, NEW list \in Answers, RunOptimizer(list)
  PROVE  Inv'
<1>1. list \in Seq(Suggestion)
  BY AnswersAreLists
<1>2. StoreInv'
  BY DEF Inv, RunOptimizer, storeVars, StoreInv, Runs, Sound, RunningIsStored, Load, Empty
<1>3. RecsInv'
  BY <1>1, PendingList DEF Inv, RunOptimizer, RecsInv
<1>4. /\ mail' \in [Browsers -> Seq(Seq(Suggestion))]
      /\ \A b \in linked : mail'[b] = Append(mail[b], list)
  BY <1>1, PushedLists DEF Inv, RunOptimizer
<1>5. ASSUME ~garbled', recs' # <<>>
      PROVE  /\ (lastResult' # None /\ lastResult' # <<>>) => Matches(lastResult)'
             /\ \A b \in linked' : Shows(b)'
  <2>1. CASE list = <<>>
    <3>1. /\ recs' = recs /\ lastResult' = <<>> /\ linked' = linked /\ shown' = shown
          /\ \A b \in linked : Shows(b) /\ mail[b] \in Seq(Seq(Suggestion))
      BY <1>5, <2>1 DEF RunOptimizer, Inv, PagesInv
    <3>2. ASSUME NEW b \in linked PROVE Shows(b)'
      <4>1. /\ Len(mail'[b]) = Len(mail[b]) + 1 /\ Len(mail[b]) \in Nat
            /\ mail'[b][Len(mail[b]) + 1] = <<>>
            /\ \A i \in 1 .. Len(mail[b]) : mail'[b][i] = mail[b][i]
        BY <1>1, <1>4, <2>1, <3>1
      <4>2. ASSUME NEW i \in 1 .. Len(mail'[b]), mail'[b][i] # <<>>,
                   \A j \in i + 1 .. Len(mail'[b]) : mail'[b][j] = <<>>
            PROVE  Matches(mail[b][i])'
        <5>a. i # Len(mail[b]) + 1 /\ i \in 1 .. Len(mail[b]) + 1
          BY <4>1, <4>2
        <5>b. i \in 1 .. Len(mail[b])
          BY <4>1, <5>a
        <5>c. ASSUME NEW j \in i + 1 .. Len(mail[b]) PROVE mail[b][j] = <<>>
          <6>1. j \in i + 1 .. Len(mail'[b]) /\ j \in 1 .. Len(mail[b])
            BY <4>1, <5>b
          <6> QED BY <4>1, <4>2, <6>1
        <5>1. i \in 1 .. Len(mail[b]) /\ \A j \in i + 1 .. Len(mail[b]) : mail[b][j] = <<>>
          BY <5>b, <5>c
        <5>2. Matches(mail[b][i]) /\ mail'[b][i] = mail[b][i]
          BY <3>1, <4>1, <4>2, <5>1 DEF Shows
        <5> QED BY <3>1, <5>2 DEF Matches
      <4>3. ASSUME shown'[b] # <<>>, \A i \in 1 .. Len(mail'[b]) : mail'[b][i] = <<>>
            PROVE  Matches(shown[b])'
        <5>1. ASSUME NEW i \in 1 .. Len(mail[b]) PROVE mail[b][i] = <<>>
          <6>1. i \in 1 .. Len(mail'[b])
            BY <4>1
          <6> QED BY <4>1, <4>3, <6>1
        <5>2. Matches(shown[b])
          BY <3>1, <4>3, <5>1 DEF Shows
        <5> QED BY <3>1, <5>2 DEF Matches
      <4> QED BY <4>2, <4>3 DEF Shows
    <3> QED BY <3>1, <3>2
  <2>2. CASE list # <<>>
    <3>1. recs' = Pending(list) /\ lastResult' = list /\ linked' = linked
      BY <2>2 DEF RunOptimizer
    <3>2. Len(list) = Len(recs') /\ \A i \in 1 .. Len(recs') :
            list[i].param = recs'[i].param /\ list[i].value = recs'[i].value
      BY <1>1, <3>1, PendingList
    <3>3. ASSUME NEW b \in linked PROVE Shows(b)'
      <4>1. /\ Len(mail'[b]) = Len(mail[b]) + 1 /\ Len(mail[b]) \in Nat
            /\ mail'[b][Len(mail[b]) + 1] = list
        BY <1>1, <1>4 DEF Inv, PagesInv
      <4>2. ASSUME NEW i \in 1 .. Len(mail'[b]),
                   \A j \in i + 1 .. Len(mail'[b]) : mail'[b][j] = <<>>
            PROVE  mail'[b][i] = list
        BY <2>2, <4>1, <4>2
      <4>3. ~ \A i \in 1 .. Len(mail'[b]) : mail'[b][i] = <<>>
        BY <2>2, <4>1
      <4> QED BY <3>2, <4>2, <4>3 DEF Shows, Matches
    <3> QED BY <3>1, <3>2, <3>3 DEF Matches
  <2> QED BY <2>1, <2>2
<1>6. PagesInv'
  BY <1>1, <1>4, <1>5 DEF PagesInv, Inv, RunOptimizer
<1> QED BY <1>2, <1>3, <1>6 DEF Inv

LEMMA RunOptimizerRaisesInv ==
  ASSUME Inv, NEW list \in Suggestions, NEW n \in 0 .. Len(list) - 1, RunOptimizerRaises(list, n)
  PROVE  Inv'
<1>1. Pending(list) \in Seq(Recommendation) /\ Len(Pending(list)) = Len(list) /\ Len(list) \in Nat
  BY AnswersAreLists, PendingList
<1>2. SubSeq(Pending(list), 1, n) \in Seq(Recommendation)
  BY <1>1
<1>3. mail' \in [Browsers -> Seq(Seq(Suggestion))]
  <2>1. <<>> \in Seq(Suggestion)
    OBVIOUS
  <2>2. PagesInv /\ Push(<<>>)
    BY DEF Inv, RunOptimizerRaises
  <2> QED BY <2>1, <2>2, PushedLists
<1>4. StoreInv'
  BY DEF Inv, RunOptimizerRaises, storeVars, StoreInv, Runs, Sound, RunningIsStored, Load, Empty
<1> QED BY <1>2, <1>3, <1>4 DEF Inv, RecsInv, PagesInv, RunOptimizerRaises

(* Clicks.                                                                  *)
LEMMA ApprovedInv ==
  ASSUME Inv, NEW i \in 1 .. Len(recs), Approved(i)
  PROVE  StoreInv' /\ SameItems(recs', recs)
<1>1. recs[i] \in Recommendation /\ recs \in Seq(Recommendation)
  BY DEF Inv, RecsInv
<1>2. StoreInv'
  <2>1. CASE Save(With(recs[i]))
    BY <1>1, <2>1, WithIsData, SaveIsSound DEF Inv
  <2>2. CASE UNCHANGED storeVars
    BY <2>2 DEF Inv, storeVars, StoreInv, Runs, Sound, RunningIsStored, Load, Empty
  <2> QED BY <2>1, <2>2 DEF Approved
<1>3. SameItems(recs', recs)
  BY <1>1, StatusAlone DEF Approved, Status
<1> QED BY <1>2, <1>3

(* A page gives one of its rows another status.                             *)
LEMMA RowAlone ==
  ASSUME PagesInv, NEW b \in Browsers, NEW i \in 1 .. Len(shown[b]), NEW st \in Status,
         shown' = [shown EXCEPT ![b][i].status = st]
  PROVE  /\ shown' \in [Browsers -> Seq(Recommendation)]
         /\ \A c \in Browsers : SameItems(shown'[c], shown[c])
<1>1. shown \in [Browsers -> Seq(Recommendation)]
  BY DEF PagesInv
<1> DEFINE new == [shown[b] EXCEPT ![i].status = st]
<1>2. SameItems(new, shown[b])
  BY <1>1, StatusAlone
<1>3. shown' = [shown EXCEPT ![b] = new]
  OBVIOUS
<1> HIDE DEF new
<1>4. \A c \in Browsers : shown'[c] = IF c = b THEN new ELSE shown[c]
  BY <1>1, <1>3
<1>5. new \in Seq(Recommendation)
  BY <1>2 DEF SameItems
<1>6. shown' \in [Browsers -> Seq(Recommendation)]
  BY <1>1, <1>3, <1>5
<1>7. \A c \in Browsers : SameItems(shown'[c], shown[c])
  BY <1>1, <1>2, <1>4, SameIsSame
<1> QED BY <1>6, <1>7

LEMMA AllRowsAlone ==
  ASSUME PagesInv, NEW b \in Browsers, NEW st \in Status, shown' = AllShown(b, st)
  PROVE  /\ shown' \in [Browsers -> Seq(Recommendation)]
         /\ \A c \in Browsers : SameItems(shown'[c], shown[c])
<1>1. shown \in [Browsers -> Seq(Recommendation)]
  BY DEF PagesInv
<1> DEFINE new == Marked(shown[b], DOMAIN shown[b], st)
<1>2. SameItems(new, shown[b])
  BY <1>1, MarkedAlone
<1>3. shown' = [shown EXCEPT ![b] = new]
  BY DEF AllShown
<1> HIDE DEF new
<1>4. new \in Seq(Recommendation) /\ \A c \in Browsers : shown'[c] = IF c = b THEN new ELSE shown[c]
  BY <1>1, <1>2, <1>3 DEF SameItems
<1> QED BY <1>1, <1>2, <1>3, <1>4, SameIsSame

LEMMA SameShown ==
  ASSUME PagesInv, UNCHANGED shown
  PROVE  /\ shown' \in [Browsers -> Seq(Recommendation)]
         /\ \A c \in Browsers : SameItems(shown'[c], shown[c])
BY SameIsSame DEF PagesInv

LEMMA ApproveInv ==
  ASSUME Inv, NEW b \in Browsers, NEW i \in 1 .. Len(shown[b]), Approve(b, i)
  PROVE  Inv'
<1>a. PagesInv /\ RecsInv /\ UNCHANGED <<garbled, lastResult, linked, mail>>
  BY DEF Inv, Approve
<1>1. CASE i <= Len(recs)
  <2>1. i \in 1 .. Len(recs)
    BY <1>1, <1>a DEF PagesInv, RecsInv
  <2>2. Approved(i) /\ shown' = [shown EXCEPT ![b][i].status = "approved"]
    BY <1>1 DEF Approve
  <2>3. StoreInv' /\ SameItems(recs', recs)
    BY <2>1, <2>2, ApprovedInv
  <2>4. /\ shown' \in [Browsers -> Seq(Recommendation)]
        /\ \A c \in Browsers : SameItems(shown'[c], shown[c])
    BY <1>a, <2>2, RowAlone DEF Status
  <2> QED BY <1>a, <2>3, <2>4, RelabelPages DEF Inv
<1>2. CASE ~(i <= Len(recs))
  <2>1. UNCHANGED <<storeVars, recs, shown>>
    BY <1>2 DEF Approve
  <2>2. StoreInv'
    BY <2>1 DEF Inv, storeVars, StoreInv, Runs, Sound, RunningIsStored, Load, Empty
  <2>3. SameItems(recs', recs)
    BY <1>a, <2>1, SameIsSame DEF RecsInv
  <2> QED BY <1>a, <2>1, <2>2, <2>3, SameShown, RelabelPages DEF Inv
<1> QED BY <1>1, <1>2

LEMMA ApproveTornInv ==
  ASSUME Inv, NEW b \in Browsers, NEW i \in 1 .. Len(shown[b]), ApproveTorn(b, i)
  PROVE  Inv'
<1>a. PagesInv /\ RecsInv /\ UNCHANGED <<garbled, lastResult, linked, mail, shown>>
  BY DEF Inv, ApproveTorn, pageVars
<1>1. StoreInv'
  BY TornIsSound DEF Inv, ApproveTorn
<1>2. i \in 1 .. Len(recs)
  BY <1>a DEF ApproveTorn, PagesInv, RecsInv
<1>3. SameItems(recs', recs)
  BY <1>a, <1>2, StatusAlone DEF ApproveTorn, Status, RecsInv
<1> QED BY <1>a, <1>1, <1>3, SameShown, RelabelPages DEF Inv

LEMMA RejectInv ==
  ASSUME Inv, NEW b \in Browsers, NEW i \in 1 .. Len(shown[b]), Reject(b, i)
  PROVE  Inv'
<1>a. PagesInv /\ RecsInv /\ UNCHANGED <<garbled, lastResult, linked, mail>>
  BY DEF Inv, Reject
<1>1. StoreInv'
  BY DEF Reject, Inv, storeVars, StoreInv, Runs, Sound, RunningIsStored, Load, Empty
<1>2. i \in 1 .. Len(recs)
  BY <1>a DEF Reject, PagesInv, RecsInv
<1>3. SameItems(recs', recs)
  BY <1>a, <1>2, StatusAlone DEF Reject, Status, RecsInv
<1>4. /\ shown' \in [Browsers -> Seq(Recommendation)]
      /\ \A c \in Browsers : SameItems(shown'[c], shown[c])
  BY <1>a, RowAlone DEF Status, Reject
<1> QED BY <1>a, <1>1, <1>3, <1>4, RelabelPages DEF Inv

LEMMA ApproveAllInv ==
  ASSUME Inv, NEW b \in Browsers, ApproveAll(b)
  PROVE  Inv'
<1>a. PagesInv /\ RecsInv /\ StoreInv /\ UNCHANGED <<garbled, lastResult, linked, mail>>
  BY DEF Inv, ApproveAll
<1>1. SameItems(recs', recs)
  BY <1>a, MarkedAlone DEF ApproveAll, Status, RecsInv
<1>2. CASE /\ IF Applied # {} THEN Save(WithAll) ELSE UNCHANGED storeVars
           /\ shown' = AllShown(b, "approved")
  <2>1. StoreInv'
    <3>1. CASE Save(WithAll)
      BY <1>a, <3>1, WithAllIsData, SaveIsSound
    <3>2. CASE UNCHANGED storeVars
      BY <1>a, <3>2 DEF storeVars, StoreInv, Runs, Sound, RunningIsStored, Load, Empty
    <3> QED BY <1>2, <3>1, <3>2
  <2>2. /\ shown' \in [Browsers -> Seq(Recommendation)]
        /\ \A c \in Browsers : SameItems(shown'[c], shown[c])
    BY <1>a, <1>2, AllRowsAlone DEF Status
  <2> QED BY <1>a, <1>1, <2>1, <2>2, RelabelPages DEF Inv
<1>3. CASE Applied # {} /\ Torn /\ UNCHANGED shown
  BY <1>a, <1>1, <1>3, TornIsSound, SameShown, RelabelPages DEF Inv
<1> QED BY <1>2, <1>3 DEF ApproveAll

LEMMA RejectAllInv ==
  ASSUME Inv, NEW b \in Browsers, RejectAll(b)
  PROVE  Inv'
<1>a. /\ PagesInv /\ RecsInv
      /\ UNCHANGED <<storeVars, recs, garbled, lastResult, linked, mail>>
  BY DEF Inv, RejectAll, recVars
<1>1. StoreInv'
  BY <1>a DEF Inv, storeVars, StoreInv, Runs, Sound, RunningIsStored, Load, Empty
<1>2. SameItems(recs', recs)
  BY <1>a, SameIsSame DEF RecsInv
<1>3. /\ shown' \in [Browsers -> Seq(Recommendation)]
      /\ \A c \in Browsers : SameItems(shown'[c], shown[c])
  BY <1>a, AllRowsAlone DEF RejectAll, Status
<1> QED BY <1>a, <1>1, <1>2, <1>3, RelabelPages DEF Inv

-------------------------------------------------------------------------------
(* The pages.                                                                *)

LEMMA SameShows ==
  ASSUME NEW b, Shows(b), mail'[b] = mail[b], shown'[b] = shown[b], recs' = recs
  PROVE  Shows(b)'
<1>1. ASSUME NEW i \in 1 .. Len(mail'[b]), mail'[b][i] # <<>>,
             \A j \in i + 1 .. Len(mail'[b]) : mail'[b][j] = <<>>
      PROVE  Matches(mail[b][i])'
  <2>a. /\ i \in 1 .. Len(mail[b]) /\ mail[b][i] # <<>>
        /\ \A j \in i + 1 .. Len(mail[b]) : mail[b][j] = <<>>
    BY <1>1
  <2> DEFINE list == mail[b][i]
  <2>1. mail'[b][i] = list /\ Matches(list)
    BY <2>a DEF Shows
  <2> HIDE DEF list
  <2>2. Len(list) = Len(recs') /\ \A k \in 1 .. Len(recs') :
          list[k].param = recs'[k].param /\ list[k].value = recs'[k].value
    BY <2>1 DEF Matches
  <2> QED BY <2>1, <2>2 DEF Matches
<1>2. ASSUME shown'[b] # <<>>, \A i \in 1 .. Len(mail'[b]) : mail'[b][i] = <<>>
      PROVE  Matches(shown[b])'
  <2> DEFINE list == shown[b]
  <2>1. shown'[b] = list /\ Matches(list)
    BY <1>2 DEF Shows
  <2> HIDE DEF list
  <2>2. Len(list) = Len(recs') /\ \A k \in 1 .. Len(recs') :
          list[k].param = recs'[k].param /\ list[k].value = recs'[k].value
    BY <2>1 DEF Matches
  <2> QED BY <2>1, <2>2 DEF Matches
<1> QED BY <1>1, <1>2 DEF Shows

LEMMA OpenPageInv ==
  ASSUME Inv, NEW b \in Browsers, OpenPage(b)
  PROVE  Inv'
<1>a. /\ UNCHANGED <<storeVars, recs, garbled, lastResult>> /\ linked' = linked \cup {b}
      /\ mail' = [mail EXCEPT ![b] = IF lastResult = None THEN <<>> ELSE <<lastResult>>]
      /\ shown' = [shown EXCEPT ![b] = <<>>]
  BY DEF OpenPage
<1>1. StoreInv' /\ RecsInv'
  BY <1>a DEF Inv, RecsInv, storeVars, StoreInv, Runs, Sound, RunningIsStored, Load, Empty
<1>2. /\ lastResult \in Seq(Suggestion) \cup {None} /\ linked \in SUBSET Browsers
      /\ mail \in [Browsers -> Seq(Seq(Suggestion))] /\ shown \in [Browsers -> Seq(Recommendation)]
  BY DEF Inv, PagesInv
<1>3. /\ mail'[b] = IF lastResult = None THEN <<>> ELSE <<lastResult>>
      /\ shown'[b] = <<>>
      /\ \A c \in Browsers \ {b} : mail'[c] = mail[c] /\ shown'[c] = shown[c]
  BY <1>a, <1>2
<1>4. mail'[b] \in Seq(Seq(Suggestion)) /\ shown'[b] \in Seq(Recommendation)
  <2>1. CASE lastResult = None
    BY <1>3, <2>1
  <2>2. CASE lastResult # None
    <3>1. lastResult \in Seq(Suggestion) /\ mail'[b] = <<lastResult>> /\ shown'[b] = <<>>
      BY <1>2, <1>3, <2>2
    <3> QED BY ONLY <3>1
  <2> QED BY <2>1, <2>2
<1>5. mail' \in [Browsers -> Seq(Seq(Suggestion))] /\ shown' \in [Browsers -> Seq(Recommendation)]
  BY <1>a, <1>2, <1>3, <1>4
<1>6. ASSUME ~garbled', recs' # <<>>
      PROVE  /\ (lastResult' # None /\ lastResult' # <<>>) => Matches(lastResult)'
             /\ \A c \in linked' : Shows(c)'
  <2>1. (lastResult # None /\ lastResult # <<>>) => Matches(lastResult)
    BY <1>6, <1>a DEF Inv, PagesInv
  <2>2. (lastResult # None /\ lastResult # <<>>) => Matches(lastResult)'
    BY <1>a, <2>1 DEF Matches
  <2>3. Shows(b)'
    <3>1. CASE lastResult = None
      BY <1>3, <3>1 DEF Shows
    <3>2. CASE lastResult # None
      <4>1. mail'[b] = <<lastResult>> /\ Len(mail'[b]) = 1 /\ mail'[b][1] = lastResult
        BY <1>3, <3>2
      <4>2. ASSUME NEW i \in 1 .. Len(mail'[b]), mail'[b][i] # <<>>
            PROVE  Matches(mail[b][i])'
        <5>1. i = 1 /\ mail'[b][i] = lastResult /\ lastResult' = lastResult
          BY <1>a, <4>1, <4>2
        <5> QED BY <2>2, <3>2, <4>2, <5>1 DEF Matches
      <4> QED BY <1>3, <4>2 DEF Shows
    <3> QED BY <3>1, <3>2
  <2>4. ASSUME NEW c \in linked', c # b PROVE Shows(c)'
    <3>a. c \in linked /\ c \in Browsers \ {b}
      BY <1>a, <1>2, <2>4
    <3>b. PagesInv /\ ~garbled /\ recs # <<>>
      BY <1>6, <1>a DEF Inv
    <3>c. Shows(c)
      BY <3>a, <3>b DEF PagesInv
    <3>1. Shows(c) /\ mail'[c] = mail[c] /\ shown'[c] = shown[c] /\ recs' = recs
      BY <1>a, <1>3, <3>a, <3>c
    <3> QED BY <3>1, SameShows
  <2> QED BY <1>a, <2>2, <2>3, <2>4
<1>7. PagesInv'
  BY <1>a, <1>2, <1>5, <1>6 DEF PagesInv
<1> QED BY <1>1, <1>7 DEF Inv

LEMMA ReceiveInv ==
  ASSUME Inv, NEW b \in Browsers, Receive(b)
  PROVE  Inv'
<1> DEFINE list == Head(mail[b])
<1>a. /\ UNCHANGED <<storeVars, recVars, linked>> /\ mail[b] # <<>>
      /\ mail' = [mail EXCEPT ![b] = Tail(mail[b])]
      /\ shown' = IF list = <<>> THEN shown ELSE [shown EXCEPT ![b] = Pending(list)]
  BY DEF Receive
<1>1. StoreInv' /\ RecsInv'
  BY <1>a DEF Inv, RecsInv, recVars, storeVars, StoreInv, Runs, Sound, RunningIsStored, Load, Empty
<1>2. /\ lastResult \in Seq(Suggestion) \cup {None} /\ linked \in SUBSET Browsers
      /\ mail \in [Browsers -> Seq(Seq(Suggestion))] /\ shown \in [Browsers -> Seq(Recommendation)]
  BY DEF Inv, PagesInv
<1>3. /\ mail[b] \in Seq(Seq(Suggestion)) /\ list \in Seq(Suggestion) /\ list = mail[b][1]
      /\ Tail(mail[b]) \in Seq(Seq(Suggestion)) /\ Len(mail[b]) \in Nat \ {0}
      /\ Len(Tail(mail[b])) = Len(mail[b]) - 1
      /\ \A i \in 1 .. Len(Tail(mail[b])) : Tail(mail[b])[i] = mail[b][i + 1]
  BY <1>a, <1>2
<1>4. Pending(list) \in Seq(Recommendation)
  BY <1>3, PendingList
<1> HIDE DEF list
<1>5. mail' \in [Browsers -> Seq(Seq(Suggestion))] /\ shown' \in [Browsers -> Seq(Recommendation)]
  BY <1>a, <1>2, <1>3, <1>4
<1>6. ASSUME ~garbled', recs' # <<>>
      PROVE  /\ (lastResult' # None /\ lastResult' # <<>>) => Matches(lastResult)'
             /\ \A c \in linked' : Shows(c)'
  <2>1. /\ (lastResult # None /\ lastResult # <<>>) => Matches(lastResult)
        /\ \A c \in linked : Shows(c)
        /\ recs' = recs /\ lastResult' = lastResult /\ linked' = linked
    BY <1>6, <1>a DEF Inv, PagesInv, recVars
  <2>2. (lastResult' # None /\ lastResult' # <<>>) => Matches(lastResult)'
    BY <2>1 DEF Matches
  <2>3. ASSUME b \in linked PROVE Shows(b)'
    <3>1. /\ mail'[b] = Tail(mail[b]) /\ Len(mail'[b]) = Len(mail[b]) - 1
          /\ \A i \in 1 .. Len(mail'[b]) : mail'[b][i] = mail[b][i + 1]
      BY <1>a, <1>2, <1>3
    <3>2. Shows(b)
      BY <2>1, <2>3
    <3>3. ASSUME NEW i \in 1 .. Len(mail'[b]), mail'[b][i] # <<>>,
                 \A j \in i + 1 .. Len(mail'[b]) : mail'[b][j] = <<>>
          PROVE  Matches(mail[b][i])'
      <4>1. i + 1 \in 1 .. Len(mail[b]) /\ mail[b][i + 1] # <<>>
        BY <1>3, <3>1, <3>3
      <4>2. ASSUME NEW j \in (i + 1) + 1 .. Len(mail[b]) PROVE mail[b][j] = <<>>
        <5>1. j - 1 \in i + 1 .. Len(mail'[b]) /\ j - 1 \in 1 .. Len(mail'[b]) /\ (j - 1) + 1 = j
          BY <1>3, <3>1
        <5> QED BY <3>1, <3>3, <5>1
      <4>3. Matches(mail[b][i + 1])
        BY <3>2, <4>1, <4>2 DEF Shows
      <4>4. mail'[b][i] = mail[b][i + 1]
        BY <3>1
      <4> QED BY <2>1, <4>3, <4>4 DEF Matches
    <3>4. ASSUME shown'[b] # <<>>, \A i \in 1 .. Len(mail'[b]) : mail'[b][i] = <<>>
          PROVE  Matches(shown[b])'
      <4>1. ASSUME NEW j \in 2 .. Len(mail[b]) PROVE mail[b][j] = <<>>
        <5>1. j - 1 \in 1 .. Len(mail'[b]) /\ (j - 1) + 1 = j
          BY <1>3, <3>1
        <5> QED BY <3>1, <3>4, <5>1
      <4>2. CASE list = <<>>
        <5>1. shown' = shown /\ \A i \in 1 .. Len(mail[b]) : mail[b][i] = <<>>
          <6>1. ASSUME NEW i \in 1 .. Len(mail[b]) PROVE i = 1 \/ i \in 2 .. Len(mail[b])
            BY <1>3
          <6> QED BY <1>3, <1>a, <4>1, <4>2, <6>1
        <5>a. shown[b] # <<>>
          BY <3>4, <5>1
        <5>2. Matches(shown[b])
          BY <3>2, <5>a, <5>1 DEF Shows
        <5> QED BY <2>1, <5>1, <5>2 DEF Matches
      <4>3. CASE list # <<>>
        <5>1. 1 \in 1 .. Len(mail[b]) /\ mail[b][1] # <<>>
              /\ \A j \in 1 + 1 .. Len(mail[b]) : mail[b][j] = <<>>
          <6>1. 1 + 1 = 2 /\ 1 \in 1 .. Len(mail[b])
            BY <1>3
          <6>2. mail[b][1] # <<>>
            BY <1>3, <4>3
          <6> QED BY <4>1, <6>1, <6>2
        <5>2. Matches(mail[b][1])
          BY <3>2, <5>1 DEF Shows
        <5>3. Matches(list)
          BY <1>3, <5>2
        <5>4. shown'[b] = Pending(list)
          BY <1>a, <1>2, <4>3
        <5>5. /\ Len(Pending(list)) = Len(list)
              /\ \A i \in 1 .. Len(list) : Pending(list)[i].param = list[i].param
                                         /\ Pending(list)[i].value = list[i].value
          BY <1>3, PendingList
        <5>6. /\ Len(Pending(list)) = Len(recs)
              /\ \A i \in 1 .. Len(recs) : Pending(list)[i].param = recs[i].param
                                         /\ Pending(list)[i].value = recs[i].value
          BY <5>3, <5>5 DEF Matches
        <5> QED BY ONLY <2>1, <5>4, <5>6 DEF Matches
      <4> QED BY <4>2, <4>3
    <3> QED BY <3>3, <3>4 DEF Shows
  <2>4. ASSUME NEW c \in linked, c # b PROVE Shows(c)'
    <3>1. Shows(c) /\ mail'[c] = mail[c] /\ shown'[c] = shown[c]
      BY <1>a, <1>2, <2>1, <2>4
    <3> QED BY <2>1, <3>1, SameShows
  <2> QED BY <2>1, <2>2, <2>3, <2>4
<1>7. PagesInv'
  BY <1>a, <1>2, <1>5, <1>6 DEF PagesInv, recVars
<1> QED BY <1>1, <1>7 DEF Inv

LEMMA UnlinkInv ==
  ASSUME Inv, NEW b \in Browsers, Unlink(b)
  PROVE  Inv'
<1>a. /\ UNCHANGED <<storeVars, recVars, shown>>
      /\ linked' = linked \ {b} /\ mail' = [mail EXCEPT ![b] = <<>>]
  BY DEF Unlink
<1>1. StoreInv' /\ RecsInv'
  BY <1>a DEF Inv, RecsInv, recVars, storeVars, StoreInv, Runs, Sound, RunningIsStored, Load, Empty
<1>2. mail \in [Browsers -> Seq(Seq(Suggestion))] /\ linked' \in SUBSET Browsers
  BY <1>a DEF Inv, PagesInv
<1>3. mail' \in [Browsers -> Seq(Seq(Suggestion))]
  BY <1>a, <1>2
<1>4. ASSUME ~garbled', recs' # <<>>
      PROVE  /\ (lastResult' # None /\ lastResult' # <<>>) => Matches(lastResult)'
             /\ \A c \in linked' : Shows(c)'
  <2>1. ~garbled /\ recs # <<>> /\ recs' = recs /\ lastResult' = lastResult
    BY <1>4, <1>a DEF recVars
  <2>2. (lastResult' # None /\ lastResult' # <<>>) => Matches(lastResult)'
    BY <2>1 DEF Inv, PagesInv, Matches
  <2>3. ASSUME NEW c \in linked' PROVE Shows(c)'
    <3>1. Shows(c) /\ mail'[c] = mail[c] /\ shown'[c] = shown[c]
      BY <1>a, <1>2, <2>1, <2>3 DEF Inv, PagesInv
    <3> QED BY <2>1, <3>1, SameShows
  <2> QED BY <2>2, <2>3
<1>5. PagesInv'
  BY <1>a, <1>2, <1>3, <1>4 DEF PagesInv, Inv, recVars
<1> QED BY <1>1, <1>5 DEF Inv

LEMMA RestartInv == Inv /\ Restart => Inv'
<1> SUFFICES ASSUME Inv, Restart PROVE Inv'
  OBVIOUS
<1>1. StoreInv'
  <2>1. /\ Load \in [Keys -> Int]
        /\ \A k \in Keys : Runs(k, Load[k]) /\ (file[k] # None => Sound(k, Load[k]))
    BY LoadIsSound DEF Inv
  <2> QED BY <2>1 DEF Inv, Restart, StoreInv, Runs, Sound, RunningIsStored, Load, Empty
<1>2. RecsInv'
  BY DEF Restart, RecsInv
<1>3. PagesInv'
  BY DEF Inv, Restart, PagesInv
<1> QED BY <1>1, <1>2, <1>3 DEF Inv

-------------------------------------------------------------------------------
LEMMA NextInv == Inv /\ [Next]_vars => Inv'
<1> SUFFICES ASSUME Inv, [Next]_vars PROVE Inv'
  OBVIOUS
<1>1. ASSUME NEW data \in [Keys -> Inputs \cup {Bad, None}], SaveSettings(data) PROVE Inv'
  <2>1. data \in [Keys -> Values] /\ Save(data) /\ UNCHANGED <<recVars, pageVars>>
    BY <1>1 DEF SaveSettings, Values
  <2>2. StoreInv'
    BY <2>1, SaveIsSound
  <2> QED BY <2>1, <2>2 DEF Inv, RecsInv, PagesInv, Shows, Matches, recVars, pageVars
<1>2. CASE SaveTorn
  <2>1. StoreInv'
    BY <1>2, TornIsSound DEF SaveTorn, Inv
  <2> QED BY <1>2, <2>1 DEF SaveTorn, Inv, RecsInv, PagesInv, Shows, Matches, recVars, pageVars
<1>3. CASE Optimize \/ UNCHANGED vars
  <2>1. UNCHANGED <<storeVars, recs, garbled, lastResult, pageVars>>
    BY <1>3 DEF Optimize, vars, storeVars, pageVars
  <2>2. StoreInv'
    BY <2>1 DEF Inv, storeVars, StoreInv, Runs, Sound, RunningIsStored, Load, Empty
  <2> QED BY <2>1, <2>2 DEF Inv, RecsInv, PagesInv, Shows, Matches, pageVars
<1>4. ASSUME NEW b \in Browsers, Page(b) PROVE Inv'
  BY <1>4, ApproveInv, ApproveTornInv, RejectInv, ApproveAllInv, RejectAllInv, OpenPageInv,
     ReceiveInv, UnlinkInv DEF Page
<1> QED BY <1>1, <1>2, <1>3, <1>4, RunOptimizerInv, RunOptimizerRaisesInv, RestartInv DEF Next

LEMMA Inductive == Spec => []Inv
BY InitInv, NextInv, PTL DEF Spec

(* Whatever is posted, suggested or approved, with torn files and restarts, *)
(* what is in the file, and what the loop makes of it, keeps to the bounds  *)
(* of settings_store.py; only an untouched value of the environment may be  *)
(* outside them.                                                            *)
THEOREM StaysWithinGuardrails == Spec => []WithinGuardrails
<1>1. Inv => WithinGuardrails
  BY DEF Inv, StoreInv, Runs, Sound, WithinGuardrails
<1> QED BY <1>1, Inductive, PTL

(* What the loop runs with is what the next start of the service loads.     *)
THEOREM RestartsChangeNothing == Spec => []RunningIsStored
<1>1. Inv => RunningIsStored
  BY DEF Inv, StoreInv
<1> QED BY <1>1, Inductive, PTL

(* On a page with an open socket and nothing on its way, the index of a     *)
(* click means the same suggestion to the operator and to router.py.        *)
THEOREM ClicksNameWhatIsShown == Spec => []ShownIsListed
<1>1. Inv => ShownIsListed
  <2> SUFFICES ASSUME Inv, NEW b \in linked, ~garbled, mail[b] = <<>>, shown[b] # <<>>,
                      recs # <<>>
               PROVE  Matches(shown[b])
    BY DEF ShownIsListed, Matches
  <2>1. Shows(b)
    BY DEF Inv, PagesInv
  <2> QED BY <2>1 DEF Shows
<1> QED BY <1>1, Inductive, PTL

HIDE BoundsAssumption
HIDE ValuesAssumption
HIDE SuggestionsAssumption
HIDE FallbackAssumption

-------------------------------------------------------------------------------
(* Sums over finite sets, of functions that need not be total on them.       *)

(* A set of naturals has a least.                                           *)
LEMMA LeastOf ==
  ASSUME NEW S \in SUBSET Nat, S # {}
  PROVE  \E m \in S : \A k \in S : m <= k
<1>1. PICK m \in S : \A k \in S : <<k, m>> \notin OpToRel(<, Nat)
  <2> DEFINE R == OpToRel(<, Nat)
  <2>1. IsWellFoundedOn(R, Nat)
    BY NatLessThanWellFounded
  <2> HIDE DEF R
  <2>2. \E m \in S : \A k \in S : ~(<<k, m>> \in R)
    BY <2>1, WFMin
  <2> QED BY <2>2 DEF R
<1>2. ASSUME NEW k \in S PROVE m <= k
  <2>1. m \in Nat /\ k \in Nat
    OBVIOUS
  <2>2. ~(k < m)
    BY <1>1, <2>1 DEF OpToRel
  <2> QED BY <2>1, <2>2
<1> QED BY <1>2

LEMMA Spans == \A n \in Int : IsFiniteSet(1 .. n)
BY FS_Interval

(* Sums over finite sets.                                                    *)

(* Among sets of parts of a finite set one has no smaller part among them.  *)
LEMMA SmallestOf ==
  ASSUME NEW S, IsFiniteSet(S), NEW C \in SUBSET (SUBSET S), C # {}
  PROVE  \E T \in C : \A U \in SUBSET T : U # T => U \notin C
<1> DEFINE sizes == {n \in 0 .. Cardinality(S) : \E T \in C : Cardinality(T) = n}
<1>1. \A T \in SUBSET S : IsFiniteSet(T) /\ Cardinality(T) \in 0 .. Cardinality(S)
  BY FS_Subset, FS_CardinalityType
<1>2. sizes \in SUBSET Nat /\ sizes # {}
  <2>1. PICK T : T \in C
    OBVIOUS
  <2>2. Cardinality(T) \in sizes
    BY <1>1, <2>1
  <2>3. Cardinality(S) \in Nat
    BY FS_CardinalityType
  <2> QED BY <2>2, <2>3
<1>3. PICK n \in sizes : \A k \in sizes : n <= k
  <2> HIDE DEF sizes
  <2> QED BY <1>2, LeastOf
<1>4. PICK T \in C : Cardinality(T) = n
  OBVIOUS
<1>5. ASSUME NEW U \in SUBSET T, U # T, U \in C PROVE FALSE
  <2>1. IsFiniteSet(T) /\ IsFiniteSet(U) /\ Cardinality(U) \in Nat /\ Cardinality(T) \in Nat
        /\ Cardinality(U) \in 0 .. Cardinality(S)
    BY <1>1, <1>5
  <2>2. Cardinality(U) <= Cardinality(T) /\ Cardinality(U) # Cardinality(T)
    BY <1>5, <2>1, FS_Subset
  <2>3. Cardinality(U) \in sizes
    BY <1>5, <2>1
  <2>4. n <= Cardinality(U)
    BY <1>3, <2>3
  <2> QED BY <1>4, <2>1, <2>2, <2>4
<1> QED BY <1>5

(* SumFunctionOnSet takes one element after the other.                      *)
Picked(s) == CHOOSE x \in s : TRUE
OneLess(f, g, s) == IF s = {} THEN 0 ELSE f[Picked(s)] + g[s \ {Picked(s)}]
Adds(f, g, S) == \A s \in SUBSET S : g[s] = OneLess(f, g, s)

LEMMA SumUnfolds ==
  ASSUME NEW f, NEW S
  PROVE  SumFunctionOnSet(f, S) = (CHOOSE g : g = [s \in SUBSET S |-> OneLess(f, g, s)])[S]
BY DEF SumFunctionOnSet, FoldFunctionOnSet, MapThenFoldSet, OneLess, Picked

Upto(f, g, S, n) == \A s \in SUBSET S : Cardinality(s) <= n => g[s] = OneLess(f, g, s)

LEMMA SumExists ==
  ASSUME NEW S, IsFiniteSet(S), NEW f, \A x \in S : f[x] \in Int
  PROVE  \E g \in [SUBSET S -> Int] : Adds(f, g, S)
<1> DEFINE Missing == {n \in 0 .. Cardinality(S) : ~ \E g \in [SUBSET S -> Int] : Upto(f, g, S, n)}
<1>0. /\ Cardinality(S) \in Nat
      /\ \A s \in SUBSET S : IsFiniteSet(s) /\ Cardinality(s) \in Nat
                             /\ Cardinality(s) <= Cardinality(S)
  BY FS_Subset, FS_CardinalityType
<1>p. \A s \in SUBSET S : s # {} => /\ Picked(s) \in s /\ s \ {Picked(s)} \in SUBSET S
                                    /\ Cardinality(s \ {Picked(s)}) = Cardinality(s) - 1
  BY <1>0, FS_RemoveElement DEF Picked
<1>1. ASSUME Missing # {} PROVE FALSE
  <2>1. PICK n \in Missing : \A k \in Missing : n <= k
    <3>1. Missing \in SUBSET Nat
      BY <1>0
    <3> HIDE DEF Missing
    <3> QED BY <1>1, <3>1, LeastOf
  <2>2. n \in 0 .. Cardinality(S) /\ ~ \E g \in [SUBSET S -> Int] : Upto(f, g, S, n)
    OBVIOUS
  <2>3. n # 0
    <3> DEFINE g == [s \in SUBSET S |-> 0]
    <3>1. ASSUME NEW s \in SUBSET S, Cardinality(s) <= 0 PROVE g[s] = OneLess(f, g, s)
      <4>1. s = {}
        BY <1>0, <3>1, FS_EmptySet
      <4> QED BY <4>1 DEF OneLess
    <3>2. g \in [SUBSET S -> Int] /\ Upto(f, g, S, 0)
      BY <3>1 DEF Upto
    <3> QED BY <2>2, <3>2
  <2>4. n - 1 \in 0 .. Cardinality(S) /\ ~ (n <= n - 1) /\ n \in Nat
    BY <1>0, <2>2, <2>3
  <2>5. PICK h \in [SUBSET S -> Int] : Upto(f, h, S, n - 1)
    BY <2>1, <2>4
  <2> HIDE DEF Missing
  <2> DEFINE g == [s \in SUBSET S |-> IF Cardinality(s) = n THEN OneLess(f, h, s) ELSE h[s]]
  <2>6. \A s \in SUBSET S : OneLess(f, h, s) \in Int
    BY <1>p DEF OneLess
  <2>7. g \in [SUBSET S -> Int]
    BY <2>6
  <2>8. ASSUME NEW s \in SUBSET S, Cardinality(s) <= n PROVE g[s] = OneLess(f, g, s)
    <3>1. OneLess(f, g, s) = OneLess(f, h, s)
      <4>1. CASE s = {}
        BY <4>1 DEF OneLess
      <4>2. CASE s # {}
        <5>1. Cardinality(s \ {Picked(s)}) # n /\ s \ {Picked(s)} \in SUBSET S
          BY <1>0, <1>p, <2>4, <2>8, <4>2
        <5>2. g[s \ {Picked(s)}] = h[s \ {Picked(s)}]
          BY <5>1
        <5> HIDE DEF g
        <5> QED BY <5>2, <4>2 DEF OneLess
      <4> QED BY <4>1, <4>2
    <3>2. CASE Cardinality(s) = n
      BY <3>1, <3>2
    <3>3. CASE Cardinality(s) # n
      <4>1. Cardinality(s) <= n - 1
        BY <1>0, <2>4, <2>8, <3>3
      <4> QED BY <2>5, <3>1, <3>3, <4>1 DEF Upto
    <3> QED BY <3>2, <3>3
  <2> HIDE DEF g
  <2>9. Upto(f, g, S, n)
    BY <2>8 DEF Upto
  <2> QED BY <2>2, <2>7, <2>9
<1>2. PICK g \in [SUBSET S -> Int] : Upto(f, g, S, Cardinality(S))
  <2>0. Cardinality(S) \in 0 .. Cardinality(S)
    BY <1>0
  <2>1. Cardinality(S) \notin Missing
    <3> HIDE DEF Missing
    <3> QED BY <1>1
  <2>2. \E g \in [SUBSET S -> Int] : Upto(f, g, S, Cardinality(S))
    BY <2>0, <2>1
  <2> HIDE DEF Missing
  <2> QED BY <2>2
<1>3. Adds(f, g, S)
  BY <1>0, <1>2 DEF Adds, Upto
<1> QED BY <1>3

LEMMA SumIsUnique ==
  ASSUME NEW S, IsFiniteSet(S), NEW f, NEW g, NEW h, Adds(f, g, S), Adds(f, h, S)
  PROVE  g[S] = h[S]
<1> DEFINE Differ == {s \in SUBSET S : g[s] # h[s]}
<1>1. ASSUME Differ # {} PROVE FALSE
  <2>1. PICK T \in Differ : \A U \in SUBSET T : U # T => U \notin Differ
    <3>1. Differ \in SUBSET (SUBSET S)
      OBVIOUS
    <3> HIDE DEF Differ
    <3> QED BY <1>1, <3>1, SmallestOf
  <2>2. T \in SUBSET S /\ g[T] # h[T]
    OBVIOUS
  <2>3. g[T] = OneLess(f, g, T) /\ h[T] = OneLess(f, h, T)
    BY <2>2 DEF Adds
  <2>4. T # {}
    BY <2>2, <2>3 DEF OneLess
  <2> DEFINE U == T \ {Picked(T)}
  <2>5. U \in SUBSET T /\ U # T /\ U \in SUBSET S
    BY <2>2, <2>4 DEF Picked
  <2>6. g[U] = h[U]
    BY <2>1, <2>5
  <2> QED BY <2>2, <2>3, <2>6 DEF OneLess
<1> QED BY <1>1

LEMMA SumIs ==
  ASSUME NEW S, IsFiniteSet(S), NEW f, NEW g \in [SUBSET S -> Int], Adds(f, g, S),
         NEW T \in SUBSET S
  PROVE  SumFunctionOnSet(f, T) = g[T]
<1> DEFINE Is(h) == h = [s \in SUBSET T |-> OneLess(f, h, s)]
           iter == CHOOSE h : Is(h)
           r == [s \in SUBSET T |-> g[s]]
<1>1. \A s \in SUBSET T : s # {} => s \ {Picked(s)} \in SUBSET T
  OBVIOUS
<1>2. \A s \in SUBSET T : r[s] = OneLess(f, r, s)
  BY <1>1 DEF Adds, OneLess
<1>3. Is(r)
  <2>1. r = [s \in SUBSET T |-> r[s]]
    OBVIOUS
  <2> HIDE DEF r
  <2> QED BY <1>2, <2>1
<1> HIDE DEF r
<1>4. Is(iter)
  BY <1>3
<1>5. SumFunctionOnSet(f, T) = iter[T]
  BY SumUnfolds
<1> HIDE DEF iter
<1>6. Adds(f, iter, T)
  BY <1>4 DEF Adds
<1>7. Adds(f, g, T)
  BY DEF Adds
<1>8. IsFiniteSet(T)
  BY FS_Subset
<1> HIDE DEF Is
<1> QED BY <1>5, <1>6, <1>7, <1>8, SumIsUnique

(* A sum is a number, and any of its terms can be taken out of it.          *)
LEMMA SumTakesOut ==
  ASSUME NEW S, IsFiniteSet(S), NEW f, \A x \in S : f[x] \in Int
  PROVE  /\ SumFunctionOnSet(f, {}) = 0
         /\ SumFunctionOnSet(f, S) \in Int
         /\ \A x \in S : SumFunctionOnSet(f, S) = f[x] + SumFunctionOnSet(f, S \ {x})
<1>1. PICK g \in [SUBSET S -> Int] : Adds(f, g, S)
  BY SumExists
<1>2. \A T \in SUBSET S : SumFunctionOnSet(f, T) = g[T]
  BY <1>1, SumIs
<1>3. g[{}] = 0
  BY <1>1 DEF Adds, OneLess
<1> DEFINE Wrong == {T \in SUBSET S : \E x \in T : g[T] # f[x] + g[T \ {x}]}
<1>4. ASSUME Wrong # {} PROVE FALSE
  <2>1. PICK T \in Wrong : \A U \in SUBSET T : U # T => U \notin Wrong
    <3>1. Wrong \in SUBSET (SUBSET S)
      OBVIOUS
    <3> HIDE DEF Wrong
    <3> QED BY <1>4, <3>1, SmallestOf
  <2>2. PICK x \in T : T \in SUBSET S /\ g[T] # f[x] + g[T \ {x}]
    OBVIOUS
  <2> DEFINE c == Picked(T)
             U == T \ {c}
             V == T \ {x}
  <2>3. c \in T /\ g[T] = f[c] + g[U]
    BY <1>1, <2>2 DEF Adds, OneLess, Picked
  <2>4. x # c
    BY <2>2, <2>3
  <2>5. /\ U \in SUBSET S /\ V \in SUBSET S /\ U \in SUBSET T /\ V \in SUBSET T
        /\ U # T /\ V # T /\ x \in U /\ c \in V /\ U \ {x} = V \ {c}
    BY <2>2, <2>3, <2>4
  <2>6. g[U] = f[x] + g[U \ {x}]
    BY <2>1, <2>5
  <2>7. g[V] = f[c] + g[V \ {c}]
    BY <2>1, <2>5
  <2>8. /\ f[x] \in Int /\ f[c] \in Int
        /\ g[U] \in Int /\ g[V] \in Int /\ g[U \ {x}] \in Int
    BY <1>1, <2>2, <2>3, <2>5
  <2>9. g[T] # f[x] + g[V]
    BY <2>2
  <2>10. g[V] = f[c] + g[U \ {x}]
    BY <2>5, <2>7
  <2> HIDE DEF c, U, V
  <2> QED BY <2>3, <2>6, <2>8, <2>9, <2>10
<1>5. \A x \in S : g[S] = f[x] + g[S \ {x}]
  <2>1. S \notin Wrong
    BY <1>4
  <2> QED BY <2>1
<1>6. S \in SUBSET S /\ {} \in SUBSET S /\ \A x \in S : S \ {x} \in SUBSET S
  OBVIOUS
<1> QED BY <1>1, <1>2, <1>3, <1>5, <1>6

(* What holds of no element and of one element more holds of all.           *)
LEMMA FiniteInduction ==
  ASSUME NEW S, IsFiniteSet(S), NEW C, {} \in C,
         \A T \in SUBSET S : T # {} /\ (\A x \in T : T \ {x} \in C) => T \in C
  PROVE  S \in C
<1> DEFINE Others == (SUBSET S) \ C
<1>1. ASSUME Others # {} PROVE FALSE
  <2>1. PICK T \in Others : \A U \in SUBSET T : U # T => U \notin Others
    <3>1. Others \in SUBSET (SUBSET S)
      OBVIOUS
    <3> HIDE DEF Others
    <3> QED BY <1>1, <3>1, SmallestOf
  <2>2. ASSUME NEW x \in T PROVE T \ {x} \in C
    <3>1. T \ {x} \in SUBSET T /\ T \ {x} # T /\ T \ {x} \in SUBSET S
      OBVIOUS
    <3> QED BY <2>1, <3>1
  <2>3. T \in SUBSET S /\ T \notin C /\ T # {}
    OBVIOUS
  <2> QED BY <2>2, <2>3
<1> QED BY <1>1

LEMMA SumAgrees ==
  ASSUME NEW S, IsFiniteSet(S), NEW f, NEW g, \A x \in S : f[x] \in Int /\ f[x] = g[x]
  PROVE  SumFunctionOnSet(f, S) = SumFunctionOnSet(g, S)
<1>1. PICK h \in [SUBSET S -> Int] : Adds(f, h, S)
  BY SumExists
<1>2. Adds(g, h, S)
  <2>1. \A s \in SUBSET S : s # {} => f[Picked(s)] = g[Picked(s)]
    BY DEF Picked
  <2> QED BY <1>1, <2>1 DEF Adds, OneLess
<1>3. SumFunctionOnSet(f, S) = h[S]
  BY <1>1, SumIs
<1>4. SumFunctionOnSet(g, S) = h[S]
  BY <1>2, SumIs
<1> QED BY <1>3, <1>4

LEMMA SumSplits ==
  ASSUME NEW A, NEW B, IsFiniteSet(A), IsFiniteSet(B), A \cap B = {},
         NEW f, \A x \in A \cup B : f[x] \in Int
  PROVE  SumFunctionOnSet(f, A \cup B) = SumFunctionOnSet(f, A) + SumFunctionOnSet(f, B)
<1> DEFINE C == {T \in SUBSET A : SumFunctionOnSet(f, T \cup B)
                                    = SumFunctionOnSet(f, T) + SumFunctionOnSet(f, B)}
<1>1. \A T \in SUBSET A : IsFiniteSet(T) /\ IsFiniteSet(T \cup B)
  BY FS_Subset, FS_Union
<1>2. {} \in C
  <2>1. {} \cup B = B /\ SumFunctionOnSet(f, {}) = 0 /\ SumFunctionOnSet(f, B) \in Int
    BY SumTakesOut
  <2> QED BY <2>1
<1>3. ASSUME NEW T \in SUBSET A, NEW x \in T, T \ {x} \in C PROVE T \in C
  <2>1. /\ SumFunctionOnSet(f, T) = f[x] + SumFunctionOnSet(f, T \ {x})
        /\ SumFunctionOnSet(f, T \ {x}) \in Int
    BY <1>1, SumTakesOut
  <2>2. SumFunctionOnSet(f, T \cup B) = f[x] + SumFunctionOnSet(f, (T \cup B) \ {x})
    <3>1. \A y \in T \cup B : f[y] \in Int
      OBVIOUS
    <3> QED BY <1>1, <3>1, SumTakesOut
  <2>3. (T \cup B) \ {x} = (T \ {x}) \cup B
    BY A \cap B = {}
  <2>4. SumFunctionOnSet(f, B) \in Int /\ f[x] \in Int
    BY SumTakesOut
  <2>5. SumFunctionOnSet(f, (T \ {x}) \cup B)
          = SumFunctionOnSet(f, T \ {x}) + SumFunctionOnSet(f, B)
    BY <1>3
  <2>6. SumFunctionOnSet(f, T \cup B)
          = f[x] + (SumFunctionOnSet(f, T \ {x}) + SumFunctionOnSet(f, B))
    BY <2>2, <2>3, <2>5
  <2>7. SumFunctionOnSet(f, T \cup B) = SumFunctionOnSet(f, T) + SumFunctionOnSet(f, B)
    BY <2>1, <2>4, <2>6
  <2> QED BY <2>7
<1>4. A \in C
  <2> HIDE DEF C
  <2>1. \A T \in SUBSET A : T # {} /\ (\A x \in T : T \ {x} \in C) => T \in C
    BY <1>3
  <2> QED BY <1>2, <2>1, FiniteInduction
<1> QED BY <1>4

(* Sums of what is near are near: the term of x by e[x] at most.            *)

Numbers(f, S) == \A x \in S : f[x] \in Int
Near(f, A, g, B, S, e) == \A x \in S :
    2 * ((IF x \in A THEN f[x] ELSE 0) - (IF x \in B THEN g[x] ELSE 0)) \in (0 - e[x]) .. e[x]

LEMMA SumNear ==
  ASSUME NEW S, IsFiniteSet(S), NEW A \in SUBSET S, NEW B \in SUBSET S,
         NEW e, NEW f, NEW g, Numbers(e, S), Numbers(f, S), Numbers(g, S),
         Near(f, A, g, B, S, e)
  PROVE  2 * (SumFunctionOnSet(f, A) - SumFunctionOnSet(g, B))
            \in (0 - SumFunctionOnSet(e, S)) .. SumFunctionOnSet(e, S)
<1> DEFINE F(T) == SumFunctionOnSet(f, A \cap T)
           G(T) == SumFunctionOnSet(g, B \cap T)
           E(T) == SumFunctionOnSet(e, T)
           C == {T \in SUBSET S : 2 * (F(T) - G(T)) \in (0 - E(T)) .. E(T)}
<1>1. \A T \in SUBSET S : IsFiniteSet(T) /\ IsFiniteSet(A \cap T) /\ IsFiniteSet(B \cap T)
  BY FS_Subset
<1>e. \A T \in SUBSET S : E(T) \in Int /\ \A x \in T : E(T) = e[x] + E(T \ {x})
  BY <1>1, SumTakesOut DEF Numbers
<1>2. \A T \in SUBSET S : /\ F(T) \in Int /\ G(T) \in Int
                          /\ \A x \in T : /\ x \in A => F(T) = f[x] + F(T \ {x})
                                          /\ x \notin A => F(T) = F(T \ {x})
                                          /\ x \in B => G(T) = g[x] + G(T \ {x})
                                          /\ x \notin B => G(T) = G(T \ {x})
  <2> SUFFICES ASSUME NEW T \in SUBSET S
               PROVE  /\ F(T) \in Int /\ G(T) \in Int
                      /\ \A x \in T : /\ x \in A => F(T) = f[x] + F(T \ {x})
                                      /\ x \notin A => F(T) = F(T \ {x})
                                      /\ x \in B => G(T) = g[x] + G(T \ {x})
                                      /\ x \notin B => G(T) = G(T \ {x})
    OBVIOUS
  <2>1. \A x \in T : /\ A \cap (T \ {x}) = (A \cap T) \ {x} /\ B \cap (T \ {x}) = (B \cap T) \ {x}
                     /\ x \notin A => A \cap (T \ {x}) = A \cap T
                     /\ x \notin B => B \cap (T \ {x}) = B \cap T
    OBVIOUS
  <2>2. F(T) \in Int /\ \A x \in A \cap T : F(T) = f[x] + SumFunctionOnSet(f, (A \cap T) \ {x})
    BY <1>1, SumTakesOut DEF Numbers
  <2>3. G(T) \in Int /\ \A x \in B \cap T : G(T) = g[x] + SumFunctionOnSet(g, (B \cap T) \ {x})
    BY <1>1, SumTakesOut DEF Numbers
  <2>4. ASSUME NEW x \in T, x \in A PROVE F(T) = f[x] + F(T \ {x})
    BY <2>1, <2>2, <2>4
  <2>5. ASSUME NEW x \in T, x \in B PROVE G(T) = g[x] + G(T \ {x})
    BY <2>1, <2>3, <2>5
  <2>6. \A x \in T : /\ x \notin A => F(T) = F(T \ {x})
                     /\ x \notin B => G(T) = G(T \ {x})
    BY <2>1
  <2> HIDE DEF F, G
  <2> QED BY <2>2, <2>3, <2>4, <2>5, <2>6
<1>3. {} \in C
  <2>1. F({}) = 0 /\ G({}) = 0 /\ E({}) = 0
    <3>1. A \cap {} = {} /\ B \cap {} = {}
      OBVIOUS
    <3> QED BY <3>1, FS_EmptySet, SumTakesOut
  <2> HIDE DEF F, G, E
  <2> QED BY <2>1, FS_EmptySet
<1>4. ASSUME NEW T \in SUBSET S, NEW x \in T, T \ {x} \in C PROVE T \in C
  <2>2. T \ {x} \in SUBSET S
    OBVIOUS
  <2> DEFINE d == E(T \ {x})
             a == IF x \in A THEN f[x] ELSE 0
             b == IF x \in B THEN g[x] ELSE 0
  <2>3. E(T) = e[x] + d /\ d \in Int
    BY <1>e, <2>2
  <2>4. 2 * (F(T \ {x}) - G(T \ {x})) \in (0 - d) .. d
    BY <1>4
  <2>5. F(T) = a + F(T \ {x}) /\ G(T) = b + G(T \ {x})
    <3> HIDE DEF F, G
    <3>1. x \in T /\ T \in SUBSET S /\ F(T \ {x}) \in Int /\ G(T \ {x}) \in Int
      BY <1>2, <2>2
    <3>2. F(T) = a + F(T \ {x})
      <4>1. CASE x \in A
        BY <1>2, <3>1, <4>1
      <4>2. CASE x \notin A
        <5>1. F(T) = F(T \ {x})
          BY <1>2, <3>1, <4>2
        <5> QED BY <3>1, <4>2, <5>1
      <4> QED BY <4>1, <4>2
    <3>3. G(T) = b + G(T \ {x})
      <4>1. CASE x \in B
        BY <1>2, <3>1, <4>1
      <4>2. CASE x \notin B
        <5>1. G(T) = G(T \ {x})
          BY <1>2, <3>1, <4>2
        <5> QED BY <3>1, <4>2, <5>1
      <4> QED BY <4>1, <4>2
    <3> QED BY <3>2, <3>3
  <2>6. 2 * (a - b) \in (0 - e[x]) .. e[x] /\ a \in Int /\ b \in Int /\ e[x] \in Int
    BY DEF Near, Numbers
  <2>7. F(T \ {x}) \in Int /\ G(T \ {x}) \in Int
    BY <1>2, <2>2
  <2> HIDE DEF F, G, E, a, b, d
  <2>8. 2 * (F(T) - G(T)) \in (0 - (e[x] + d)) .. (e[x] + d)
    BY <2>3, <2>4, <2>5, <2>6, <2>7
  <2> QED BY <2>3, <2>8
<1>5. S \in C
  <2> HIDE DEF C
  <2> QED BY <1>3, <1>4, FiniteInduction
<1>6. A \cap S = A /\ B \cap S = B
  OBVIOUS
<1> QED BY <1>5, <1>6

(* A sum is that of the sums of its parts.                                  *)
Parts(part, K, S) ==
    /\ \A k \in K : part[k] \in SUBSET S
    /\ \A x \in S : \E k \in K : x \in part[k]
    /\ \A x \in S : \A k, l \in K : x \in part[k] /\ x \in part[l] => k = l

SumsOf(h, K, f, part) == \A k \in K : h[k] = SumFunctionOnSet(f, part[k])

LEMMA SumOfParts ==
  ASSUME NEW S, IsFiniteSet(S), NEW K, IsFiniteSet(K), NEW part, Parts(part, K, S),
         NEW f, Numbers(f, S), NEW h, SumsOf(h, K, f, part)
  PROVE  SumFunctionOnSet(h, K) = SumFunctionOnSet(f, S)
<1> DEFINE Of(L) == {x \in S : \E k \in L : x \in part[k]}
           C == {L \in SUBSET K : SumFunctionOnSet(h, L) = SumFunctionOnSet(f, Of(L))}
<1>1. /\ \A L : IsFiniteSet(Of(L)) /\ Of(L) \in SUBSET S
      /\ \A k \in K : IsFiniteSet(part[k])
  BY FS_Subset DEF Parts
<1>2. \A k \in K : h[k] \in Int
  <2>1. \A k \in K : SumFunctionOnSet(f, part[k]) \in Int
    BY <1>1, SumTakesOut DEF Parts, Numbers
  <2> QED BY <2>1 DEF SumsOf
<1>3. {} \in C
  <2>1. Of({}) = {}
    OBVIOUS
  <2>2. SumFunctionOnSet(h, {}) = 0 /\ SumFunctionOnSet(f, {}) = 0
    BY FS_EmptySet, SumTakesOut
  <2> HIDE DEF Of
  <2> QED BY <2>1, <2>2
<1>4. ASSUME NEW L \in SUBSET K, NEW k \in L, L \ {k} \in C PROVE L \in C
  <2>1. IsFiniteSet(L)
    BY FS_Subset
  <2>2. SumFunctionOnSet(h, L) = h[k] + SumFunctionOnSet(h, L \ {k})
    BY <1>2, <2>1, SumTakesOut
  <2>3. Of(L) = part[k] \cup Of(L \ {k}) /\ part[k] \cap Of(L \ {k}) = {}
    BY DEF Parts
  <2>4. SumFunctionOnSet(f, part[k] \cup Of(L \ {k}))
          = SumFunctionOnSet(f, part[k]) + SumFunctionOnSet(f, Of(L \ {k}))
    <3> DEFINE one == part[k]
               rest == Of(L \ {k})
    <3>1. /\ IsFiniteSet(one) /\ IsFiniteSet(rest) /\ one \cap rest = {}
          /\ \A x \in one \cup rest : f[x] \in Int
      BY <1>1, <2>3 DEF Parts, Numbers
    <3> HIDE DEF one, rest
    <3>2. SumFunctionOnSet(f, one \cup rest) = SumFunctionOnSet(f, one) + SumFunctionOnSet(f, rest)
      BY <3>1, SumSplits
    <3> QED BY <3>2 DEF one, rest
  <2>5. h[k] = SumFunctionOnSet(f, part[k])
    BY DEF SumsOf
  <2>6. SumFunctionOnSet(h, L \ {k}) = SumFunctionOnSet(f, Of(L \ {k}))
    BY <1>4
  <2> HIDE DEF Of
  <2> QED BY <2>2, <2>3, <2>4, <2>5, <2>6
<1>5. K \in C
  <2> HIDE DEF C
  <2> QED BY <1>3, <1>4, FiniteInduction
<1>6. Of(K) = S
  BY DEF Parts
<1> HIDE DEF Of
<1> QED BY <1>5, <1>6

-------------------------------------------------------------------------------
(* Report: the invariant.                                                    *)

Row == [day : Int, total : Nat, wins : Nat, losses : Nat, pnl : Int]
FullRow == [day : Int, total : Nat, wins : Nat, losses : Nat, pnl : Int, gain : Int, loss : Int]

ListsInv ==
    /\ rows \in Seq(Row) /\ days \in Seq(FullRow) /\ overall \in Seq(FullRow)
    /\ stats \in Seq([Tickers -> Int] \cup [0 .. DayLength - 1 -> Int])
    /\ Len(rows) <= Cardinality(Dates) /\ Len(overall) <= Cardinality(Dates)
    /\ \A i \in 1 .. Len(days) : days[i].pnl = rows[i].pnl

(* Where the handler is.                                                     *)
Passed == \/ Len(reads) = 0 /\ pc = "idle"
          \/ Len(reads) = 1 /\ pc \in {"gain", "loss", "again"}
          \/ Len(reads) = 2 /\ pc \in {"gain", "loss", "capital", "tickers"}
          \/ Len(reads) = 3 /\ pc = "hours"
          \/ Len(reads) = 4 /\ pc = "done"

HandlerInv ==
    /\ Passed
    /\ pc \in {"gain", "loss"} => Len(days) < Len(rows)
    /\ pc \in {"capital", "tickers", "hours", "done"} => Len(days) = Len(rows)
    /\ pc = "idle" => rows = <<>> /\ days = <<>>
    /\ Len(reads) <= 1 /\ pc # "again" => overall = <<>>

(* Time only passes: what is booked later is older by one unit at most.      *)
TimesInv ==
    /\ \A i \in 1 .. Len(trades) : trades[i].at <= now
    /\ \A k \in 1 .. Len(reads) :
          /\ \A i \in 1 .. reads[k].booked : trades[i].at <= reads[k].at
          /\ \A i \in reads[k].booked + 1 .. Len(trades) : reads[k].at - 1 <= trades[i].at
    /\ \A k, m \in 1 .. Len(reads) :
          k < m => reads[k].at <= reads[m].at /\ reads[k].booked <= reads[m].booked

(* What has been read of a day that had ended is what the table says of it.  *)
OnOf(table, day) == {i \in DOMAIN table : DayOf(table[i].at) = day}
WonOf(table, day) == {i \in OnOf(table, day) : table[i].percent > 0}
LostOf(table, day) == {i \in OnOf(table, day) : table[i].percent < 0}
TotalOf(table, S) == SumFunctionOnSet([i \in DOMAIN table |-> Profit(table[i])], S)

Past(list, day) == list # <<>> /\ day < DayOf(list[1].at - 1)

Counted(table, list, row) == Past(list, row.day) =>
    /\ row.total = Cardinality(OnOf(table, row.day))
    /\ row.wins = Cardinality(WonOf(table, row.day))
    /\ row.losses = Cardinality(LostOf(table, row.day))
    /\ row.pnl = TotalOf(table, OnOf(table, row.day))

Halved(table, list, row) == Past(list, row.day) =>
    /\ row.gain = TotalOf(table, WonOf(table, row.day))
    /\ row.loss = 0 - TotalOf(table, LostOf(table, row.day))

SettledInv ==
    /\ \A i \in 1 .. Len(rows) : Counted(trades, reads, rows[i])
    /\ \A i \in 1 .. Len(days) : Counted(trades, reads, days[i]) /\ Halved(trades, reads, days[i])
    /\ \A i \in 1 .. Len(overall) :
          Counted(trades, reads, overall[i]) /\ Halved(trades, reads, overall[i])
    /\ pc = "loss" /\ Past(reads, Current.day) =>
          gain = TotalOf(trades, WonOf(trades, Current.day))

(* What has been added up is what had been booked when it was read.          *)
WindowOf(table, read) == {i \in 1 .. read.booked : table[i].at >= read.at - Limit * DayLength}
Pnl(list) == SumFunction([i \in DOMAIN list |-> list[i].pnl])
LastDays == IF Len(reads) = 1 THEN 1 ELSE 2

SumsInv ==
    /\ reads # <<>> /\ Len(rows) < Limit =>
          Pnl(rows) = TotalOf(trades, 1 .. reads[LastDays].booked)
    /\ (pc = "again" \/ Len(reads) >= 2) /\ Len(overall) < Limit =>
          Pnl(overall) = TotalOf(trades, 1 .. reads[1].booked)
    /\ Len(reads) >= 2 /\ Len(rows) < Limit => Len(overall) <= Len(rows)
    /\ pc \in {"tickers", "hours", "done"} /\ curve # <<>> =>
          /\ Len(curve) = Len(rows)
          /\ \E capital \in Capitals : Last(curve).equity = capital + Pnl(rows)
    /\ Len(stats) = IF Len(reads) <= 2 THEN 0 ELSE Len(reads) - 2
    /\ \A k \in 1 .. Len(stats) :
          SumFunction(stats[k]) = TotalOf(trades, WindowOf(trades, reads[k + 2]))

ReportInv == ReportTypeOK /\ ListsInv /\ HandlerInv /\ TimesInv /\ SettledInv /\ SumsInv

-------------------------------------------------------------------------------
(* Days and rounding.                                                        *)

USE TimesAssumption, MoneyAssumption, TickersAssumption

LEMMA Quotient ==
  ASSUME NEW a \in Int, NEW b \in Nat \ {0}
  PROVE  a \div b \in Int /\ b * (a \div b) <= a /\ a < b * (a \div b) + b
OBVIOUS

LEMMA QuotientGrows ==
  ASSUME NEW a \in Int, NEW c \in Int, a <= c, NEW b \in Nat \ {0}
  PROVE  a \div b <= c \div b
<1> DEFINE q == a \div b
           r == c \div b
<1>1. /\ q \in Int /\ b * q <= a /\ a < b * q + b
      /\ r \in Int /\ b * r <= c /\ c < b * r + b
  BY Quotient
<1> HIDE DEF q, r
<1>2. b * q < b * (r + 1)
  BY <1>1
<1>3. q < r + 1
  BY <1>1, <1>2
<1> QED BY <1>1, <1>3

LEMMA DaysGrow ==
  ASSUME NEW t \in Int, NEW u \in Int, t <= u
  PROVE  DayOf(t) \in Int /\ DayOf(u) \in Int /\ DayOf(t) <= DayOf(u)
<1>1. t + Ahead \in Int /\ u + Ahead \in Int /\ t + Ahead <= u + Ahead
  OBVIOUS
<1> QED BY <1>1, Quotient, QuotientGrows DEF DayOf

LEMMA RoundedIsNear ==
  ASSUME NEW p \in Int
  PROVE  /\ Rounded(p) \in Int
         /\ 2 * (Rounded(p) - p) \in (0 - Grain) .. Grain
         /\ Rounded(p) > 0 => p > 0
         /\ Rounded(p) < 0 => p < 0
         /\ p > 0 => Rounded(p) >= 0
         /\ p < 0 => Rounded(p) <= 0
<1> DEFINE q == (2 * p + Grain) \div (2 * Grain)
           r == q * Grain
<1>1. q \in Int /\ (2 * Grain) * q <= 2 * p + Grain /\ 2 * p + Grain < (2 * Grain) * q + 2 * Grain
  <2>1. 2 * p + Grain \in Int /\ 2 * Grain \in Nat \ {0}
    OBVIOUS
  <2> QED BY <2>1, Quotient
<1> HIDE DEF q
<1>2. r \in Int /\ (2 * Grain) * q = 2 * r
  BY <1>1
<1>3. (q >= 1 => r >= Grain) /\ (q <= 0 - 1 => r <= 0 - Grain) /\ (q = 0 => r = 0)
  BY <1>1
<1> HIDE DEF r
<1>4. r > 0 => p > 0
  BY <1>1, <1>2, <1>3
<1>5. r < 0 => p < 0
  BY <1>1, <1>2, <1>3
<1>6. 2 * (r - p) \in (0 - Grain) .. Grain
  BY <1>1, <1>2
<1>7. Rounded(p) = r
  BY DEF Rounded, q, r
<1> QED BY <1>2, <1>4, <1>5, <1>6, <1>7

-------------------------------------------------------------------------------
(* The table of trades.                                                      *)

Booking == [at : 0 .. MaxTime, ticker : Tickers, percent : Percents, cost : Costs]

LEMMA SignOfProduct ==
  ASSUME NEW p \in Int, NEW c \in Nat
  PROVE  /\ p * c \in Int
         /\ p > 0 => p * c >= 0
         /\ p < 0 => p * c <= 0
         /\ p = 0 => p * c = 0
OBVIOUS

LEMMA Scaled ==
  ASSUME NEW p \in Int, NEW q \in Int, NEW c \in Nat, 2 * (q - p) \in (0 - Grain) .. Grain
  PROVE  /\ p * c \in Int /\ q * c \in Int /\ Grain * c \in Nat
         /\ 2 * (q * c - p * c) \in (0 - Grain * c) .. (Grain * c)
<1> DEFINE d == q - p
<1>1. /\ d \in Int /\ 0 - Grain <= 2 * d /\ 2 * d <= Grain
      /\ d * c = q * c - p * c /\ d * c \in Int /\ p * c \in Int /\ q * c \in Int
      /\ Grain * c \in Nat
  OBVIOUS
<1> HIDE DEF d
<1>2. Grain - 2 * d \in Nat /\ Grain + 2 * d \in Nat
  BY <1>1
<1>3. (Grain - 2 * d) * c >= 0 /\ (Grain + 2 * d) * c >= 0
  BY <1>2
<1>4. /\ (Grain - 2 * d) * c = Grain * c - 2 * (d * c)
      /\ (Grain + 2 * d) * c = Grain * c + 2 * (d * c)
  BY <1>1
<1>5. 2 * (d * c) <= Grain * c /\ 0 - Grain * c <= 2 * (d * c)
  BY <1>1, <1>3, <1>4
<1> QED BY <1>1, <1>5

LEMMA Bookings ==
  ASSUME NEW table \in Seq(Booking)
  PROVE  /\ Len(table) \in Nat /\ DOMAIN table = 1 .. Len(table)
         /\ IsFiniteSet(1 .. Len(table))
         /\ \A i \in 1 .. Len(table) :
               /\ table[i].at \in Nat /\ table[i].percent \in Int /\ table[i].cost \in Nat
               /\ Profit(table[i]) \in Int
               /\ table[i].percent > 0 => Profit(table[i]) >= 0
               /\ table[i].percent < 0 => Profit(table[i]) <= 0
               /\ table[i].percent = 0 => Profit(table[i]) = 0
<1>1. Len(table) \in Nat /\ DOMAIN table = 1 .. Len(table)
  OBVIOUS
<1>2. \A i \in 1 .. Len(table) : table[i] \in Booking
  OBVIOUS
<1>3. IsFiniteSet(1 .. Len(table))
  BY <1>1, FS_Interval
<1>4. ASSUME NEW i \in 1 .. Len(table)
      PROVE  /\ table[i].at \in Nat /\ table[i].percent \in Int /\ table[i].cost \in Nat
             /\ Profit(table[i]) \in Int
             /\ table[i].percent > 0 => Profit(table[i]) >= 0
             /\ table[i].percent < 0 => Profit(table[i]) <= 0
             /\ table[i].percent = 0 => Profit(table[i]) = 0
  <2>1. table[i].at \in 0 .. MaxTime /\ table[i].percent \in Percents /\ table[i].cost \in Costs
    BY <1>2 DEF Booking
  <2>2. table[i].at \in Nat /\ table[i].percent \in Int /\ table[i].cost \in Nat
    <3>1. table[i].at \in Nat
      BY <2>1
    <3>2. table[i].percent \in Int /\ table[i].cost \in Nat
      BY <2>1, Zenon
    <3> QED BY <3>1, <3>2
  <2> DEFINE p == table[i].percent
             c == table[i].cost
  <2>3. /\ p * c \in Int
        /\ p > 0 => p * c >= 0
        /\ p < 0 => p * c <= 0
        /\ p = 0 => p * c = 0
    BY <2>2, SignOfProduct
  <2> QED BY <2>2, <2>3 DEF Profit
<1> QED BY <1>1, <1>3, <1>4

LEMMA TotalsAreNumbers ==
  ASSUME NEW table \in Seq(Booking), NEW S \in SUBSET (1 .. Len(table))
  PROVE  IsFiniteSet(S) /\ TotalOf(table, S) \in Int
<1>1. IsFiniteSet(S)
  BY Bookings, FS_Subset
<1> DEFINE profit == [i \in DOMAIN table |-> Profit(table[i])]
<1>2. \A i \in S : profit[i] \in Int
  BY Bookings
<1> HIDE DEF profit
<1>3. SumFunctionOnSet(profit, S) \in Int
  BY <1>1, <1>2, SumTakesOut
<1> QED BY <1>1, <1>3 DEF TotalOf, profit

(* What is booked leaves the totals of earlier trades alone.                *)
LEMMA TotalsStay ==
  ASSUME NEW old \in Seq(Booking), NEW new \in Seq(Booking), Len(old) <= Len(new),
         \A i \in 1 .. Len(old) : new[i] = old[i], NEW S \in SUBSET (1 .. Len(old))
  PROVE  TotalOf(new, S) = TotalOf(old, S)
<1> DEFINE before == [i \in DOMAIN old |-> Profit(old[i])]
           after == [i \in DOMAIN new |-> Profit(new[i])]
<1>1. IsFiniteSet(S)
  BY TotalsAreNumbers
<1>2. \A i \in S : after[i] \in Int /\ after[i] = before[i]
  <2>1. \A i \in S : i \in 1 .. Len(old) /\ i \in 1 .. Len(new)
    BY Bookings
  <2> QED BY <2>1, Bookings
<1> HIDE DEF before, after
<1>3. SumFunctionOnSet(after, S) = SumFunctionOnSet(before, S)
  BY <1>1, <1>2, SumAgrees
<1> QED BY <1>3 DEF TotalOf, before, after

LEMMA TotalsAdd ==
  ASSUME NEW table \in Seq(Booking), NEW A \in SUBSET (1 .. Len(table)),
         NEW B \in SUBSET (1 .. Len(table)), A \cap B = {}
  PROVE  TotalOf(table, A \cup B) = TotalOf(table, A) + TotalOf(table, B)
<1> DEFINE profit == [i \in DOMAIN table |-> Profit(table[i])]
<1>1. IsFiniteSet(A) /\ IsFiniteSet(B)
  BY TotalsAreNumbers
<1>2. \A i \in A \cup B : profit[i] \in Int
  BY Bookings
<1> HIDE DEF profit
<1>3. SumFunctionOnSet(profit, A \cup B) = SumFunctionOnSet(profit, A) + SumFunctionOnSet(profit, B)
  BY <1>1, <1>2, SumSplits
<1> QED BY <1>3 DEF TotalOf, profit

LEMMA TableOf == \A S : Total(S) = TotalOf(trades, S)
BY DEF Total, TotalOf

LEMMA Tables ==
  \A day : /\ On(day) = OnOf(trades, day)
           /\ Won(On(day)) = WonOf(trades, day) /\ Lost(On(day)) = LostOf(trades, day)
           /\ Total(On(day)) = TotalOf(trades, OnOf(trades, day))
           /\ Total(Won(On(day))) = TotalOf(trades, WonOf(trades, day))
           /\ Total(Lost(On(day))) = TotalOf(trades, LostOf(trades, day))
BY DEF On, Won, Lost, Total, OnOf, WonOf, LostOf, TotalOf

(* The trades of a day, and those of them that won or lost.                 *)
LEMMA DaySets ==
  ASSUME trades \in Seq(Booking), NEW day
  PROVE  /\ On(day) \in SUBSET (1 .. Len(trades)) /\ IsFiniteSet(On(day))
         /\ Won(On(day)) \in SUBSET On(day) /\ Lost(On(day)) \in SUBSET On(day)
         /\ Cardinality(On(day)) \in Nat /\ Cardinality(Won(On(day))) \in Nat
         /\ Cardinality(Lost(On(day))) \in Nat
         /\ Total(On(day)) \in Int /\ Total(Won(On(day))) \in Nat /\ Total(Lost(On(day))) \in Int
<1>1. On(day) \in SUBSET (1 .. Len(trades)) /\ IsFiniteSet(On(day))
  <2>1. On(day) \in SUBSET (1 .. Len(trades))
    BY DEF On
  <2> QED BY <2>1, TotalsAreNumbers
<1>2. Won(On(day)) \in SUBSET On(day) /\ Lost(On(day)) \in SUBSET On(day)
  BY DEF Won, Lost
<1>3. \A S \in SUBSET On(day) : Cardinality(S) \in Nat /\ Total(S) \in Int
  BY <1>1, FS_Subset, FS_CardinalityType, TotalsAreNumbers, TableOf
<1>4. Total(Won(On(day))) >= 0
  <2> DEFINE profit == [i \in DOMAIN trades |-> Profit(trades[i])]
             S == Won(On(day))
             C == {T \in SUBSET S : SumFunctionOnSet(profit, T) >= 0}
  <2>1. IsFiniteSet(S) /\ \A T \in SUBSET S : IsFiniteSet(T)
    BY <1>1, <1>2, FS_Subset
  <2>2. \A i \in S : profit[i] \in Int /\ profit[i] >= 0
    BY Bookings DEF Won, On
  <2> HIDE DEF profit, S
  <2>3. {} \in C
    BY SumTakesOut, FS_EmptySet
  <2>4. ASSUME NEW T \in SUBSET S, T # {}, \A i \in T : T \ {i} \in C PROVE T \in C
    <3>1. PICK i : i \in T
      BY <2>4
    <3>2. SumFunctionOnSet(profit, T) = profit[i] + SumFunctionOnSet(profit, T \ {i})
      BY <2>1, <2>2, <3>1, SumTakesOut
    <3>3. SumFunctionOnSet(profit, T \ {i}) \in Int
      <4>1. T \ {i} \in SUBSET S
        OBVIOUS
      <4> QED BY <2>1, <2>2, <4>1, SumTakesOut
    <3>4. SumFunctionOnSet(profit, T \ {i}) >= 0
      BY <2>4, <3>1
    <3> QED BY <2>2, <3>1, <3>2, <3>3, <3>4
  <2>5. S \in C
    <3> HIDE DEF C
    <3> QED BY <2>1, <2>3, <2>4, FiniteInduction
  <2> QED BY <2>5 DEF Total, S, profit
<1> QED BY <1>1, <1>2, <1>3, <1>4

(* A day's trades are few enough to be counted.                             *)
LEMMA DatesAreFinite ==
  ASSUME trades \in Seq(Booking)
  PROVE  /\ Dates \in SUBSET Int /\ IsFiniteSet(Dates) /\ Cardinality(Dates) \in Nat
         /\ Cardinality(Dates) = 0 => Len(trades) = 0
<1> DEFINE date == [i \in 1 .. Len(trades) |-> DayOf(trades[i].at)]
<1>1. \A i \in 1 .. Len(trades) : DayOf(trades[i].at) \in Int
  <2> TAKE i \in 1 .. Len(trades)
  <2>1. trades[i].at \in Int
    BY Bookings
  <2> QED BY <2>1, DaysGrow
<1>2. DOMAIN trades = 1 .. Len(trades)
  OBVIOUS
<1>3. date \in Surjection(1 .. Len(trades), Dates)
  BY <1>2 DEF Surjection, Dates
<1>4. IsFiniteSet(Dates)
  BY <1>3, FS_Interval, FS_Surjection
<1>5. Cardinality(Dates) \in Nat /\ (Cardinality(Dates) = 0 => Dates = {})
  BY <1>4, FS_CardinalityType, FS_EmptySet
<1>6. Dates = {} => Len(trades) = 0
  <2>1. Len(trades) \in Nat
    OBVIOUS
  <2>2. CASE Len(trades) # 0
    <3>1. 1 \in DOMAIN trades
      BY <1>2, <2>1, <2>2
    <3>2. DayOf(trades[1].at) \in Dates
      BY <3>1 DEF Dates
    <3> QED BY <3>2
  <2> QED BY <2>2
<1> QED BY <1>1, <1>2, <1>4, <1>5, <1>6 DEF Dates

-------------------------------------------------------------------------------
(* The list of days.                                                         *)

LEMMA LeastInteger ==
  ASSUME NEW S \in SUBSET Int, IsFiniteSet(S), S # {}
  PROVE  \E m \in S : \A k \in S : m <= k
<1> DEFINE C == {T \in SUBSET S : T = {} \/ \E m \in T : \A k \in T : m <= k}
<1>1. ASSUME NEW T \in SUBSET S, T # {}, \A x \in T : T \ {x} \in C PROVE T \in C
  <2>1. PICK x : x \in T
    BY <1>1
  <2>2. CASE T \ {x} = {}
    BY <2>1, <2>2
  <2>3. CASE T \ {x} # {}
    <3>1. PICK m \in T \ {x} : \A k \in T \ {x} : m <= k
      BY <1>1, <2>1, <2>3
    <3>2. x \in Int /\ m \in Int /\ \A k \in T : k \in Int
      BY <2>1
    <3>3. CASE m <= x
      BY <3>1, <3>3
    <3>4. CASE x <= m
      BY <2>1, <3>1, <3>2, <3>4
    <3> QED BY <3>2, <3>3, <3>4
  <2> QED BY <2>2, <2>3
<1>2. {} \in C
  OBVIOUS
<1>3. S \in C
  <2> HIDE DEF C
  <2> QED BY <1>1, <1>2, FiniteInduction
<1> QED BY <1>3

Decreasing(list) == \A i, j \in DOMAIN list : i < j => list[i] > list[j]

LEMMA CanBeSorted ==
  ASSUME NEW S \in SUBSET Int, IsFiniteSet(S)
  PROVE  \E list \in [1 .. Cardinality(S) -> S] : Decreasing(list)
<1> DEFINE C == {T \in SUBSET S : \E list \in [1 .. Cardinality(T) -> T] : Decreasing(list)}
<1>1. ASSUME NEW T \in SUBSET S, T # {}, \A x \in T : T \ {x} \in C PROVE T \in C
  <2>1. IsFiniteSet(T) /\ T \in SUBSET Int
    BY FS_Subset
  <2>2. PICK m \in T : \A k \in T : m <= k
    BY <1>1, <2>1, LeastInteger
  <2> DEFINE n == Cardinality(T)
             U == T \ {m}
  <2>3. n \in Nat /\ Cardinality(U) = n - 1 /\ n >= 1
    BY <2>1, FS_RemoveElement, FS_CardinalityType, FS_EmptySet
  <2>4. PICK rest \in [1 .. Cardinality(U) -> U] : Decreasing(rest)
    BY <1>1
  <2> HIDE DEF n, U, C
  <2> DEFINE list == [i \in 1 .. n |-> IF i = n THEN m ELSE rest[i]]
  <2>5. \A i \in 1 .. n : i # n => i \in 1 .. Cardinality(U) /\ rest[i] \in U
    BY <2>3
  <2>6. list \in [1 .. n -> T]
    BY <2>5 DEF U
  <2>7. ASSUME NEW i \in 1 .. n, NEW j \in 1 .. n, i < j PROVE list[i] > list[j]
    <3>1. i # n /\ rest[i] \in U /\ i \in 1 .. Cardinality(U)
      BY <2>3, <2>5, <2>7
    <3>2. CASE j = n
      <4>1. rest[i] \in T /\ rest[i] # m /\ rest[i] \in Int /\ m \in Int
        BY <2>1, <3>1 DEF U
      <4>2. m <= rest[i]
        BY <2>2, <4>1
      <4> QED BY <3>1, <3>2, <4>1, <4>2
    <3>3. CASE j # n
      <4>1. j \in 1 .. Cardinality(U)
        BY <2>5, <3>3
      <4>2. rest[i] > rest[j]
        BY <2>4, <2>7, <3>1, <4>1 DEF Decreasing
      <4> QED BY <3>1, <3>3, <4>2
    <3> QED BY <3>2, <3>3
  <2>8. DOMAIN list = 1 .. n
    OBVIOUS
  <2> HIDE DEF list
  <2>9. Decreasing(list)
    BY <2>7, <2>8 DEF Decreasing
  <2> QED BY <2>6, <2>9 DEF C, n
<1>2. {} \in C
  <2> DEFINE none == [i \in 1 .. 0 |-> 0]
  <2>1. none \in [1 .. Cardinality({}) -> {}] /\ Decreasing(none)
    BY FS_EmptySet DEF Decreasing
  <2> QED BY <2>1
<1>3. S \in C
  <2> HIDE DEF C
  <2> QED BY <1>1, <1>2, FiniteInduction
<1> QED BY <1>3

LEMMA NewestIsList ==
  ASSUME trades \in Seq(Booking)
  PROVE  /\ Newest \in [1 .. Cardinality(Dates) -> Dates]
         /\ \A d \in Dates : \E i \in 1 .. Cardinality(Dates) : Newest[i] = d
         /\ \A i, j \in 1 .. Cardinality(Dates) : Newest[i] = Newest[j] => i = j
<1>0. Dates \in SUBSET Int /\ IsFiniteSet(Dates) /\ Cardinality(Dates) \in Nat
  BY DatesAreFinite
<1>1. Newest \in [1 .. Cardinality(Dates) -> Dates] /\ Decreasing(Newest)
  <2>1. \E list \in [1 .. Cardinality(Dates) -> Dates] : Decreasing(list)
    BY <1>0, CanBeSorted
  <2> QED BY <2>1 DEF Newest, Decreasing
<1>2. \A i \in 1 .. Cardinality(Dates) : Newest[i] \in Int
  BY <1>0, <1>1
<1>3. ASSUME NEW i \in 1 .. Cardinality(Dates), NEW j \in 1 .. Cardinality(Dates),
             Newest[i] = Newest[j]
      PROVE  i = j
  <2>1. i \in Nat /\ j \in Nat /\ i \in DOMAIN Newest /\ j \in DOMAIN Newest
    BY <1>1
  <2>2. CASE i < j
    BY <1>1, <1>2, <1>3, <2>1, <2>2 DEF Decreasing
  <2>3. CASE j < i
    BY <1>1, <1>2, <1>3, <2>1, <2>3 DEF Decreasing
  <2> QED BY <2>1, <2>2, <2>3
<1>4. Newest \in Injection(1 .. Cardinality(Dates), Dates)
  BY <1>1, <1>3 DEF Injection, IsInjective
<1>5. IsFiniteSet(1 .. Cardinality(Dates))
      /\ Cardinality(1 .. Cardinality(Dates)) = Cardinality(Dates)
  BY <1>0, FS_Interval
<1>6. Newest \in Surjection(1 .. Cardinality(Dates), Dates)
  BY <1>0, <1>4, <1>5, FS_Injection
<1> QED BY <1>1, <1>3, <1>6 DEF Surjection

LEMMA DayRowIsCounted ==
  ASSUME trades \in Seq(Booking), NEW d \in Int, NEW list
  PROVE  DayRow(d) \in Row /\ Counted(trades, list, DayRow(d)) /\ DayRow(d).pnl = Total(On(d))
<1>1. /\ Cardinality(On(d)) \in Nat /\ Cardinality(Won(On(d))) \in Nat
      /\ Cardinality(Lost(On(d))) \in Nat /\ Total(On(d)) \in Int
  BY DaySets
<1> QED BY <1>1, Tables DEF DayRow, Row, Counted

LEMMA DayRowsList ==
  ASSUME trades \in Seq(Booking), NEW list
  PROVE  /\ DayRows \in Seq(Row) /\ Len(DayRows) <= Limit
         /\ Len(DayRows) <= Cardinality(Dates) /\ Len(DayRows) \in Nat
         /\ Len(DayRows) < Limit => Len(DayRows) = Cardinality(Dates)
         /\ \A i \in 1 .. Len(DayRows) : Newest[i] \in Int /\ DayRows[i] = DayRow(Newest[i])
         /\ \A i \in 1 .. Len(DayRows) : Counted(trades, list, DayRows[i])
<1> DEFINE n == IF Cardinality(Dates) < Limit THEN Cardinality(Dates) ELSE Limit
<1>1. Cardinality(Dates) \in Nat /\ Dates \in SUBSET Int
  BY DatesAreFinite
<1>2. n \in Nat /\ n <= Limit /\ n <= Cardinality(Dates) /\ (n < Limit => n = Cardinality(Dates))
  BY <1>1
<1>3. DayRows = [i \in 1 .. n |-> DayRow(Newest[i])]
  BY DEF DayRows
<1> HIDE DEF n
<1>4. ASSUME NEW i \in 1 .. n PROVE Newest[i] \in Int
  <2>1. i \in 1 .. Cardinality(Dates)
    BY <1>1, <1>2
  <2>2. Newest[i] \in Dates
    BY <2>1, NewestIsList
  <2> QED BY <1>1, <2>2
<1>5. \A i \in 1 .. n : DayRow(Newest[i]) \in Row /\ Counted(trades, list, DayRow(Newest[i]))
  BY <1>4, DayRowIsCounted
<1>6. DayRows \in Seq(Row) /\ Len(DayRows) = n
  BY <1>2, <1>3, <1>5
<1> QED BY <1>2, <1>3, <1>4, <1>5, <1>6

(* A list that is not cut off accounts for every trade.                     *)
LEMMA DayRowsAddUp ==
  ASSUME trades \in Seq(Booking), Len(DayRows) < Limit
  PROVE  Pnl(DayRows) = Total(1 .. Len(trades))
<1> DEFINE K == 1 .. Len(DayRows)
           S == 1 .. Len(trades)
           date(x) == DayOf(trades[x].at)
           part == [i \in K |-> On(Newest[i])]
           profit == [i \in DOMAIN trades |-> Profit(trades[i])]
           h == [i \in DOMAIN DayRows |-> DayRows[i].pnl]
<1>1. /\ K = 1 .. Cardinality(Dates) /\ DOMAIN DayRows = K /\ Len(DayRows) \in Nat
      /\ \A i \in K : Newest[i] \in Int /\ DayRows[i] = DayRow(Newest[i])
  BY DayRowsList
<1>2. DOMAIN trades = S /\ Len(trades) \in Nat /\ IsFiniteSet(S)
  BY Bookings
<1>3. IsFiniteSet(K)
  BY <1>1, FS_Interval
<1>4. \A x \in S : profit[x] \in Int
  BY <1>2, Bookings
<1>5. \A x \in S : date(x) \in Dates
  BY <1>2 DEF Dates
<1> HIDE DEF K, S
<1>6. \A i \in K : part[i] = {x \in S : date(x) = Newest[i]}
  BY <1>2 DEF On
<1>7. \A x \in S : \E i \in K : x \in part[i]
  <2> TAKE x \in S
  <2>1. PICK i \in K : Newest[i] = date(x)
    BY <1>1, <1>5, NewestIsList
  <2> HIDE DEF part, date
  <2> QED BY <1>6, <2>1
<1>8. \A x \in S : \A i, j \in K : x \in part[i] /\ x \in part[j] => i = j
  <2> HIDE DEF part, date
  <2> QED BY <1>1, <1>6, NewestIsList
<1>9. \A i \in K : h[i] = SumFunctionOnSet(profit, part[i]) /\ part[i] \in SUBSET S
  <2> TAKE i \in K
  <2>1. h[i] = Total(On(Newest[i]))
    BY <1>1, DayRowIsCounted
  <2>2. part[i] = On(Newest[i])
    OBVIOUS
  <2>3. part[i] \in SUBSET S
    <3> HIDE DEF part
    <3> QED BY <1>6
  <2> QED BY <2>1, <2>2, <2>3 DEF Total
<1> HIDE DEF part, profit, h, date
<1>p. Parts(part, K, S)
  BY <1>7, <1>8, <1>9 DEF Parts
<1>q. SumsOf(h, K, profit, part) /\ Numbers(profit, S)
  BY <1>4, <1>9 DEF SumsOf, Numbers
<1>10. SumFunctionOnSet(h, K) = SumFunctionOnSet(profit, S)
  BY <1>2, <1>3, <1>p, <1>q, SumOfParts
<1>11. Pnl(DayRows) = SumFunctionOnSet(h, K)
  BY <1>1 DEF Pnl, SumFunction, h
<1> QED BY <1>10, <1>11 DEF Total, profit, S

-------------------------------------------------------------------------------
(* The equity curve.                                                         *)

Point == [equity : Int, peak : Nat]

\* What the loop makes of the points it has.
After(p, list, base, i) ==
    IF i = 0 THEN [equity |-> base, peak |-> 0]
    ELSE LET equity == p[i - 1].equity + list[i].pnl
         IN  [equity |-> equity,
              peak   |-> IF equity > p[i - 1].peak THEN equity ELSE p[i - 1].peak]

LEMMA AfterIsPoint ==
  ASSUME NEW list, NEW n \in Nat, \A i \in 1 .. n : list[i].pnl \in Int, NEW base \in Nat,
         NEW i \in 0 .. n, NEW p, i > 0 => p[i - 1] \in Point
  PROVE  After(p, list, base, i) \in Point
<1>1. CASE i = 0
  BY <1>1 DEF After, Point
<1>2. CASE i # 0
  <2>1. i \in 1 .. n /\ p[i - 1].equity \in Int /\ p[i - 1].peak \in Nat /\ list[i].pnl \in Int
    BY <1>2 DEF Point
  <2> DEFINE equity == p[i - 1].equity + list[i].pnl
             peak == IF equity > p[i - 1].peak THEN equity ELSE p[i - 1].peak
  <2>2. equity \in Int /\ peak \in Nat
    BY <2>1
  <2>3. After(p, list, base, i) = [equity |-> equity, peak |-> peak]
    BY <1>2 DEF After
  <2> HIDE DEF equity, peak
  <2> QED BY <2>2, <2>3 DEF Point
<1> QED BY <1>1, <1>2

Looped(p, list, base, n) == p = [i \in 0 .. n |-> After(p, list, base, i)]

LEMMA LoopExists ==
  ASSUME NEW list, NEW n \in Nat, \A i \in 1 .. n : list[i].pnl \in Int, NEW base \in Nat
  PROVE  \E p : Looped(p, list, base, n)
<1> DEFINE Good(p, m) == \A i \in 0 .. m : p[i] = After(p, list, base, i)
           Missing == {m \in 0 .. n : ~ \E p \in [0 .. n -> Point] : Good(p, m)}
<1>1. ASSUME Missing # {} PROVE FALSE
  <2>1. PICK m \in Missing : \A k \in Missing : m <= k
    <3>1. Missing \in SUBSET Nat
      OBVIOUS
    <3> HIDE DEF Missing
    <3> QED BY <1>1, <3>1, LeastOf
  <2>2. m \in 0 .. n /\ ~ \E p \in [0 .. n -> Point] : Good(p, m)
    OBVIOUS
  <2>3. m # 0
    <3> DEFINE p == [i \in 0 .. n |-> [equity |-> base, peak |-> 0]]
    <3>1. p \in [0 .. n -> Point]
      BY DEF Point
    <3>2. Good(p, 0)
      BY DEF After
    <3> HIDE DEF p, Good
    <3> QED BY <2>2, <3>1, <3>2
  <2>4. m - 1 \in 0 .. n /\ ~ (m <= m - 1)
    BY <2>2, <2>3
  <2>5. PICK q \in [0 .. n -> Point] : Good(q, m - 1)
    BY <2>1, <2>4
  <2> HIDE DEF Missing
  <2> DEFINE p == [i \in 0 .. n |-> IF i = m THEN After(q, list, base, m) ELSE q[i]]
  <2>6. p \in [0 .. n -> Point]
    <3>1. After(q, list, base, m) \in Point
      BY <2>2, <2>3, <2>4, AfterIsPoint
    <3> QED BY <3>1
  <2>7. ASSUME NEW i \in 0 .. m PROVE p[i] = After(p, list, base, i)
    <3>1. i > 0 => p[i - 1] = q[i - 1]
      BY <2>2, <2>7
    <3>2. After(p, list, base, i) = After(q, list, base, i)
      <4> HIDE DEF p
      <4> QED BY <2>2, <2>7, <3>1 DEF After
    <3>3. CASE i = m
      BY <2>2, <3>2, <3>3
    <3>4. CASE i # m
      <4>1. i \in 0 .. m - 1 /\ i \in 0 .. n
        BY <2>2, <2>7, <3>4
      <4>2. q[i] = After(q, list, base, i)
        BY <2>5, <4>1
      <4>3. p[i] = q[i]
        BY <3>4, <4>1
      <4> HIDE DEF p
      <4> QED BY <3>2, <4>2, <4>3
    <3> QED BY <3>3, <3>4
  <2> HIDE DEF p
  <2>8. Good(p, m)
    BY <2>7
  <2> HIDE DEF Good
  <2> QED BY <2>2, <2>6, <2>8
<1>2. PICK p \in [0 .. n -> Point] : Good(p, n)
  <2>1. n \in 0 .. n /\ Missing = {}
    <3> HIDE DEF Missing
    <3> QED BY <1>1
  <2>2. n \notin Missing
    <3> HIDE DEF Missing
    <3> QED BY <2>1
  <2> HIDE DEF Good
  <2> QED BY <2>1, <2>2
<1>3. p = [i \in 0 .. n |-> p[i]]
  OBVIOUS
<1>4. p = [i \in 0 .. n |-> After(p, list, base, i)]
  BY <1>2, <1>3
<1> QED BY <1>4 DEF Looped

(* Its equity is the capital and the profits so far.                        *)
AddsUp(p, part, base, n) ==
    \A i \in 0 .. n : p[i] \in Point /\ p[i].equity = base + SumFunctionOnSet(part, 1 .. i)

LEMMA LoopAddsUp ==
  ASSUME NEW list, NEW n \in Nat, \A i \in 1 .. n : list[i].pnl \in Int, NEW base \in Nat,
         NEW p, NEW part,
         \A i \in 1 .. n : part[i] = list[i].pnl
  PROVE  Looped(p, list, base, n) => AddsUp(p, part, base, n)
<1>a. ASSUME Looped(p, list, base, n) PROVE AddsUp(p, part, base, n)
  <2> DEFINE Fine(i) == p[i] \in Point /\ p[i].equity = base + SumFunctionOnSet(part, 1 .. i)
             Wrong == {i \in 0 .. n : ~ Fine(i)}
  <2>r. p = [i \in 0 .. n |-> After(p, list, base, i)]
    BY <1>a DEF Looped
  <2>0. \A i \in 0 .. n : p[i] = After(p, list, base, i)
    <3> DEFINE r == [i \in 0 .. n |-> After(p, list, base, i)]
    <3>1. \A i \in 0 .. n : r[i] = After(p, list, base, i)
      OBVIOUS
    <3>2. p = r
      BY <2>r
    <3> HIDE DEF r
    <3> QED BY <3>1, <3>2
  <2>1. ASSUME Wrong # {} PROVE FALSE
    <3>1. PICK m \in Wrong : \A k \in Wrong : m <= k
      <4>1. Wrong \in SUBSET Nat
        OBVIOUS
      <4> HIDE DEF Wrong
      <4> QED BY <2>1, <4>1, LeastOf
    <3>2. m \in 0 .. n /\ ~ Fine(m)
      OBVIOUS
    <3>3. m # 0
      <4>1. Fine(0)
        <5>1. SumFunctionOnSet(part, 1 .. 0) = 0
          <6>1. 1 .. 0 = {}
            OBVIOUS
          <6> QED BY <6>1, FS_EmptySet, SumTakesOut
        <5>2. p[0] = [equity |-> base, peak |-> 0]
          <6>1. p[0] = After(p, list, base, 0)
            BY <2>0
          <6> QED BY <6>1 DEF After
        <5> DEFINE first == [equity |-> base, peak |-> 0]
        <5>3. first \in Point /\ first.equity = base
          BY DEF Point
        <5>4. p[0] = first
          BY <5>2
        <5> HIDE DEF first
        <5>5. p[0] \in Point /\ p[0].equity = base
          BY <5>3, <5>4
        <5>6. base + SumFunctionOnSet(part, 1 .. 0) = base
          BY <5>1
        <5> QED BY <5>5, <5>6
      <4> HIDE DEF Fine
      <4> QED BY <3>2, <4>1
    <3>4. m - 1 \in 0 .. n /\ ~ (m <= m - 1) /\ m \in 1 .. n
      BY <3>2, <3>3
    <3>5. Fine(m - 1)
      BY <3>1, <3>4
    <3> HIDE DEF Wrong
    <3>6. p[m] \in Point
      BY <2>r, <2>0, <3>2, <3>4, <3>5, AfterIsPoint
    <3>7. p[m].equity = p[m - 1].equity + list[m].pnl
      BY <2>r, <2>0, <3>2, <3>3 DEF After
    <3>8. SumFunctionOnSet(part, 1 .. m) = part[m] + SumFunctionOnSet(part, 1 .. m - 1)
      <4>0. IsFiniteSet(1 .. m)
        <5>1. m \in Int
          BY <3>4
        <5> QED BY <5>1, Spans, Zenon
      <4>1. IsFiniteSet(1 .. m) /\ m \in 1 .. m /\ (1 .. m) \ {m} = 1 .. m - 1
        BY <3>4, <4>0
      <4>2. \A i \in 1 .. m : part[i] \in Int
        BY <3>4
      <4> QED BY <4>1, <4>2, SumTakesOut
    <3>9. SumFunctionOnSet(part, 1 .. m - 1) \in Int /\ part[m] = list[m].pnl /\ part[m] \in Int
      <4>0. IsFiniteSet(1 .. m - 1)
        <5>1. m - 1 \in Int
          BY <3>4
        <5> QED BY <5>1, Spans, Zenon
      <4>1. IsFiniteSet(1 .. m - 1) /\ \A i \in 1 .. m - 1 : part[i] \in Int
        BY <3>4, <4>0
      <4> QED BY <3>4, <4>1, SumTakesOut
    <3>10. Fine(m)
      BY <3>5, <3>6, <3>7, <3>8, <3>9
    <3> HIDE DEF Fine
    <3> QED BY <3>2, <3>10
  <2> QED BY <2>1 DEF AddsUp
<1> QED BY <1>a

(* A sum does not depend on the direction.                                  *)
LEMMA SumBackwards ==
  ASSUME NEW n \in Nat, NEW f, \A i \in 1 .. n : f[i] \in Int,
         NEW g, \A i \in 1 .. n : g[i] = f[n - i + 1]
  PROVE  SumFunctionOnSet(g, 1 .. n) = SumFunctionOnSet(f, 1 .. n)
<1> DEFINE K == 1 .. n
           part == [i \in K |-> {n - i + 1}]
<1>1. IsFiniteSet(K) /\ \A i \in K : n - i + 1 \in K /\ n - (n - i + 1) + 1 = i
  BY FS_Interval
<1>2. \A i \in K : part[i] = {n - i + 1} /\ part[i] \in SUBSET K
  BY <1>1
<1>3. \A x \in K : \E i \in K : x \in part[i]
  <2> TAKE x \in K
  <2>1. n - x + 1 \in K /\ x \in part[n - x + 1]
    BY <1>1
  <2> QED BY <2>1
<1>4. \A x \in K : \A i, j \in K : x \in part[i] /\ x \in part[j] => i = j
  BY <1>1
<1>5. \A x \in K : SumFunctionOnSet(f, {x}) = f[x]
  <2> TAKE x \in K
  <2>1. IsFiniteSet({x}) /\ {x} \ {x} = {} /\ x \in {x} /\ f[x] \in Int
    BY FS_Singleton
  <2>2. SumFunctionOnSet(f, {x}) = f[x] + SumFunctionOnSet(f, {})
    BY <2>1, SumTakesOut
  <2>3. SumFunctionOnSet(f, {}) = 0
    BY FS_EmptySet, SumTakesOut
  <2> QED BY <2>1, <2>2, <2>3
<1>6. SumsOf(g, K, f, part)
  BY <1>1, <1>2, <1>5 DEF SumsOf
<1> HIDE DEF part
<1>7. IsFiniteSet(K) /\ Numbers(f, K)
  BY <1>1 DEF Numbers
<1>p. Parts(part, K, K)
  BY <1>2, <1>3, <1>4 DEF Parts
<1> HIDE DEF K
<1>8. SumFunctionOnSet(g, K) = SumFunctionOnSet(f, K)
  BY <1>6, <1>7, <1>p, SumOfParts
<1> QED BY <1>8 DEF K

LEMMA CurveEnds ==
  ASSUME NEW done \in Seq(FullRow), NEW base \in Nat
  PROVE  /\ CurveOf(done, base) \in Seq(Point) /\ Len(CurveOf(done, base)) = Len(done)
         /\ done # <<>> => Last(CurveOf(done, base)).equity = base + Pnl(done)
<1> DEFINE n == Len(done)
           list == Reverse(done)
           Loop(p) == p = [i \in 0 .. n |-> After(p, list, base, i)]
           point == CHOOSE p : Loop(p)
           back == [i \in 1 .. n |-> list[i].pnl]
           forth == [i \in DOMAIN done |-> done[i].pnl]
<1>1. n \in Nat /\ DOMAIN done = 1 .. n /\ \A i \in 1 .. n : done[i].pnl \in Int
  <2>1. n \in Nat /\ DOMAIN done = 1 .. n /\ \A i \in 1 .. n : done[i] \in FullRow
    OBVIOUS
  <2> QED BY <2>1 DEF FullRow
<1>2. Len(list) = n /\ \A i \in 1 .. n : list[i] = done[n - i + 1] /\ list[i].pnl \in Int
  BY <1>1 DEF Reverse
<1>3. CurveOf(done, base) = [i \in 1 .. n |-> point[i]]
  BY <1>2 DEF CurveOf, After
<1> HIDE DEF n, list
<1>4. Loop(point)
  <2>1. \A i \in 1 .. n : list[i].pnl \in Int
    BY <1>2
  <2>2. \E p : Looped(p, list, base, n)
    BY <1>1, <2>1, LoopExists, Zenon
  <2> QED BY <2>2 DEF Looped
<1>p. Looped(point, list, base, n)
  <2> HIDE DEF point
  <2> QED BY <1>4 DEF Looped
<1> HIDE DEF point
<1>5. \A i \in 1 .. n : back[i] = list[i].pnl
  OBVIOUS
<1> HIDE DEF back
<1>6. \A i \in 0 .. n : point[i] \in Point /\ point[i].equity = base + SumFunctionOnSet(back, 1 .. i)
  <2>1. \A i \in 1 .. n : list[i].pnl \in Int
    BY <1>2
  <2>2. AddsUp(point, back, base, n)
    BY <1>1, <1>5, <1>p, <2>1, LoopAddsUp, Zenon
  <2> QED BY <2>2 DEF AddsUp
<1>7. CurveOf(done, base) \in Seq(Point) /\ Len(CurveOf(done, base)) = n
  BY <1>1, <1>3, <1>6
<1>8. SumFunctionOnSet(back, 1 .. n) = Pnl(done)
  <2>1. \A i \in 1 .. n : forth[i] \in Int /\ back[i] = forth[n - i + 1]
    BY <1>1, <1>2, <1>5
  <2>2. SumFunctionOnSet(back, 1 .. n) = SumFunctionOnSet(forth, 1 .. n)
    <3> HIDE DEF forth
    <3> QED BY <1>1, <2>1, SumBackwards
  <2> QED BY <1>1, <2>2 DEF Pnl, SumFunction
<1>9. ASSUME done # <<>> PROVE Last(CurveOf(done, base)).equity = base + Pnl(done)
  <2>1. n \in 1 .. n /\ n \in 0 .. n
    BY <1>1, <1>9 DEF n
  <2>2. Last(CurveOf(done, base)) = point[n]
    BY <1>3, <1>7, <2>1 DEF Last
  <2> QED BY <1>6, <1>8, <2>1, <2>2
<1> QED BY <1>7, <1>9 DEF n

-------------------------------------------------------------------------------
(* The statistics.                                                           *)

(* Whatever trades are grouped by, the groups' totals add up to the window's. *)
GroupedBy(table, K, key, S) ==
    /\ DOMAIN table = K
    /\ \A i \in S : key[i] \in K
    /\ \A k \in K : table[k] = Total({i \in S : key[i] = k})

LEMMA GroupsAddUp ==
  ASSUME trades \in Seq(Booking), NEW S \in SUBSET (1 .. Len(trades)),
         NEW K, IsFiniteSet(K), NEW key, NEW table, GroupedBy(table, K, key, S)
  PROVE  SumFunction(table) = Total(S)
<1> DEFINE part == [k \in K |-> {i \in S : key[i] = k}]
           profit == [i \in DOMAIN trades |-> Profit(trades[i])]
<1>1. IsFiniteSet(S)
  BY TotalsAreNumbers
<1>2. Numbers(profit, S)
  BY Bookings DEF Numbers
<1>3. \A k \in K : part[k] \in SUBSET S /\ part[k] = {i \in S : key[i] = k}
  OBVIOUS
<1>4. \A i \in S : \E k \in K : i \in part[k]
  <2> TAKE i \in S
  <2>1. key[i] \in K /\ i \in part[key[i]]
    BY DEF GroupedBy
  <2> QED BY <2>1
<1>5. \A i \in S : \A k, l \in K : i \in part[k] /\ i \in part[l] => k = l
  OBVIOUS
<1>6. SumsOf(table, K, profit, part)
  BY DEF GroupedBy, Total, SumsOf
<1>7. Parts(part, K, S)
  BY <1>3, <1>4, <1>5 DEF Parts
<1> HIDE DEF part, profit
<1>8. SumFunctionOnSet(table, K) = SumFunctionOnSet(profit, S)
  BY <1>1, <1>2, <1>6, <1>7, SumOfParts
<1>9. DOMAIN table = K
  BY DEF GroupedBy
<1> QED BY <1>8, <1>9 DEF SumFunction, Total, profit

LEMMA WindowIsPart ==
  ASSUME trades \in Seq(Booking), NEW time \in Int
  PROVE  InWindow(time) \in SUBSET (1 .. Len(trades))
BY DEF InWindow

LEMMA StatsAddUp ==
  ASSUME trades \in Seq(Booking), now \in Int
  PROVE  SumFunction(ByTicker) = Total(InWindow(now)) /\ SumFunction(ByHour) = Total(InWindow(now))
<1> DEFINE S == InWindow(now)
           ticker == [i \in S |-> trades[i].ticker]
           hour == [i \in S |-> HourOf(trades[i].at)]
           hours == 0 .. DayLength - 1
<1>1. S \in SUBSET (1 .. Len(trades))
  BY WindowIsPart
<1>2. \A i \in S : ticker[i] \in Tickers
  <2> TAKE i \in S
  <2>1. trades[i] \in Booking
    BY <1>1
  <2> QED BY <2>1 DEF Booking
<1>3. \A i \in S : hour[i] \in hours
  <2> TAKE i \in S
  <2>1. trades[i].at \in Nat
    BY <1>1, Bookings
  <2>2. trades[i].at + Ahead \in Nat
    BY <2>1
  <2>3. (trades[i].at + Ahead) % DayLength \in 0 .. DayLength - 1
    <3> DEFINE t == trades[i].at + Ahead
    <3>1. t \in Nat
      BY <2>2
    <3> HIDE DEF t
    <3>2. t % DayLength \in 0 .. DayLength - 1
      BY <3>1
    <3> QED BY <3>2 DEF t
  <2> QED BY <2>3 DEF HourOf
<1>4. IsFiniteSet(hours)
  <2>1. DayLength - 1 \in Int
    OBVIOUS
  <2> QED BY <2>1, FS_Interval
<1>5. GroupedBy(ByTicker, Tickers, ticker, S)
  <2>1. \A k : {i \in S : ticker[i] = k} = {i \in S : trades[i].ticker = k}
    OBVIOUS
  <2> QED BY <1>2, <2>1 DEF GroupedBy, ByTicker
<1>6. GroupedBy(ByHour, hours, hour, S)
  <2>1. \A k : {i \in S : hour[i] = k} = {i \in S : HourOf(trades[i].at) = k}
    OBVIOUS
  <2> QED BY <1>3, <2>1 DEF GroupedBy, ByHour
<1> HIDE DEF S, ticker, hour, hours
<1>7. SumFunction(ByTicker) = Total(S)
  BY <1>1, <1>5, GroupsAddUp
<1>8. SumFunction(ByHour) = Total(S)
  BY <1>1, <1>4, <1>6, GroupsAddUp
<1> QED BY <1>7, <1>8 DEF S

-------------------------------------------------------------------------------
(* A day and its page.                                                       *)

Agrees(row) ==
    LET page == Detail(row.day)  slack == Slack(row.day) IN
        /\ row.pnl = row.gain - row.loss
        /\ page.total = row.total
        /\ page.wins <= row.wins /\ page.losses <= row.losses
        /\ \A part \in {"pnl", "gain", "loss"} :
               2 * (page[part] - row[part]) \in (0 - slack) .. slack

LEMMA SumOfZeros ==
  ASSUME NEW S, IsFiniteSet(S)
  PROVE  SumFunctionOnSet([i \in S |-> 0], S) = 0
<1> DEFINE e == [i \in S |-> 0]
           C == {T \in SUBSET S : SumFunctionOnSet(e, T) = 0}
<1>1. \A i \in S : e[i] \in Int /\ e[i] = 0
  OBVIOUS
<1> HIDE DEF e
<1>2. {} \in C
  BY FS_EmptySet, SumTakesOut
<1>3. ASSUME NEW T \in SUBSET S, NEW x \in T, T \ {x} \in C PROVE T \in C
  <2>1. IsFiniteSet(T)
    BY FS_Subset
  <2>2. SumFunctionOnSet(e, T) = e[x] + SumFunctionOnSet(e, T \ {x})
    BY <1>1, <2>1, SumTakesOut
  <2> QED BY <1>1, <1>3, <2>2
<1>4. S \in C
  <2> HIDE DEF C
  <2> QED BY <1>2, <1>3, FiniteInduction
<1> QED BY <1>4 DEF e

LEMMA WonAndLost ==
  ASSUME trades \in Seq(Booking), NEW day
  PROVE  Total(On(day)) = Total(Won(On(day))) + Total(Lost(On(day)))
<1> DEFINE S == On(day)
           A == Won(S)
           B == Lost(S)
           profit == [i \in DOMAIN trades |-> Profit(trades[i])]
           e == [i \in S |-> 0]
<1>1. /\ S \in SUBSET (1 .. Len(trades)) /\ IsFiniteSet(S) /\ Cardinality(S) \in Nat
      /\ A \in SUBSET S /\ B \in SUBSET S
  BY DaySets
<1>2. \A i \in S : /\ profit[i] \in Int /\ trades[i].percent \in Int
                   /\ i \in A <=> trades[i].percent > 0
                   /\ i \in B <=> trades[i].percent < 0
                   /\ trades[i].percent = 0 => profit[i] = 0
  BY <1>1, Bookings DEF Won, Lost
<1>e. Numbers(e, S) /\ SumFunctionOnSet(e, S) = 0 /\ \A x \in S : e[x] = 0
  BY <1>1, SumOfZeros DEF Numbers
<1> HIDE DEF A, B, profit, S, e
<1>3. A \cap B = {}
  BY <1>1, <1>2
<1>4. Near(profit, S, profit, A \cup B, S, e)
  <2> SUFFICES ASSUME NEW x \in S
               PROVE  2 * ((IF x \in S THEN profit[x] ELSE 0)
                             - (IF x \in A \cup B THEN profit[x] ELSE 0)) \in (0 - 0) .. 0
    BY <1>e DEF Near
  <2>1. CASE x \in A \cup B
    BY <1>2, <2>1
  <2>2. CASE x \notin A \cup B
    <3>1. profit[x] = 0
      BY <1>2, <2>2
    <3> QED BY <2>2, <3>1
  <2> QED BY <2>1, <2>2
<1>5. Numbers(profit, S)
  BY <1>2 DEF Numbers
<1>6. 2 * (SumFunctionOnSet(profit, S) - SumFunctionOnSet(profit, A \cup B))
         \in (0 - SumFunctionOnSet(e, S)) .. SumFunctionOnSet(e, S)
  <2>1. S \in SUBSET S /\ A \cup B \in SUBSET S
    BY <1>1
  <2> QED BY <1>1, <1>4, <1>5, <1>e, <2>1, SumNear
<1>7. /\ TotalOf(trades, S) \in Int /\ TotalOf(trades, A) \in Int /\ TotalOf(trades, B) \in Int
      /\ TotalOf(trades, A \cup B) = TotalOf(trades, A) + TotalOf(trades, B)
  <2>1. /\ S \in SUBSET (1 .. Len(trades)) /\ A \in SUBSET (1 .. Len(trades))
        /\ B \in SUBSET (1 .. Len(trades))
    BY <1>1
  <2> QED BY <1>3, <2>1, TotalsAreNumbers, TotalsAdd
<1>8. SumFunctionOnSet(profit, S) = TotalOf(trades, S)
      /\ SumFunctionOnSet(profit, A \cup B) = TotalOf(trades, A \cup B)
  BY DEF TotalOf, profit
<1>9. TotalOf(trades, S) = TotalOf(trades, A) + TotalOf(trades, B)
  <2>1. 2 * (TotalOf(trades, S) - TotalOf(trades, A \cup B)) \in (0 - 0) .. 0
    BY <1>6, <1>8, <1>e
  <2> QED BY <1>7, <2>1
<1> QED BY <1>9, TableOf DEF S, A, B

LEMMA PageAgrees ==
  ASSUME trades \in Seq(Booking), NEW row \in FullRow,
         row.total = Cardinality(On(row.day)), row.wins = Cardinality(Won(On(row.day))),
         row.losses = Cardinality(Lost(On(row.day))), row.pnl = Total(On(row.day)),
         row.gain = Total(Won(On(row.day))), row.loss = 0 - Total(Lost(On(row.day)))
  PROVE  Agrees(row)
<1> DEFINE S == On(row.day)
           profit == [i \in DOMAIN trades |-> Profit(trades[i])]
           rounded == [i \in DOMAIN trades |-> Rounded(trades[i].percent) * trades[i].cost]
           slackOf == [i \in DOMAIN trades |-> Grain * trades[i].cost]
           won == {i \in S : Rounded(trades[i].percent) > 0}
           lost == {i \in S : Rounded(trades[i].percent) < 0}
           page == Detail(row.day)
           slack == SumFunctionOnSet(slackOf, S)
           Bound == (0 - slack) .. slack
<1>1. /\ S \in SUBSET (1 .. Len(trades)) /\ IsFiniteSet(S) /\ Cardinality(S) \in Nat
      /\ Won(S) \in SUBSET S /\ Lost(S) \in SUBSET S
      /\ Total(S) \in Int /\ Total(Won(S)) \in Int /\ Total(Lost(S)) \in Int
  BY DaySets
<1>2. page = [day    |-> row.day, total |-> Cardinality(S),
              wins   |-> Cardinality(won), losses |-> Cardinality(lost),
              pnl    |-> SumFunctionOnSet(rounded, S),
              gain   |-> SumFunctionOnSet(rounded, won),
              loss   |-> 0 - SumFunctionOnSet(rounded, lost)]
  BY DEF Detail, On
<1>3. ASSUME NEW i \in S
      PROVE  \E p \in Int, q \in Int, c \in Nat :
                /\ profit[i] = p * c /\ rounded[i] = q * c /\ slackOf[i] = Grain * c
                /\ i \in Won(S) <=> p > 0
                /\ i \in Lost(S) <=> p < 0
                /\ i \in won <=> q > 0
                /\ i \in lost <=> q < 0
                /\ 2 * (q - p) \in (0 - Grain) .. Grain
                /\ q > 0 => p > 0
                /\ q < 0 => p < 0
                /\ p > 0 => q >= 0
                /\ p < 0 => q <= 0
  <2> DEFINE p == trades[i].percent
             q == Rounded(p)
             c == trades[i].cost
  <2>1. i \in DOMAIN trades /\ p \in Int /\ c \in Nat
    BY <1>1, Bookings
  <2>2. /\ q \in Int /\ 2 * (q - p) \in (0 - Grain) .. Grain
        /\ q > 0 => p > 0
        /\ q < 0 => p < 0
        /\ p > 0 => q >= 0
        /\ p < 0 => q <= 0
    BY <2>1, RoundedIsNear
  <2>3. profit[i] = p * c /\ rounded[i] = q * c /\ slackOf[i] = Grain * c
    BY <2>1 DEF Profit
  <2>4. /\ i \in Won(S) <=> p > 0
        /\ i \in Lost(S) <=> p < 0
        /\ i \in won <=> q > 0
        /\ i \in lost <=> q < 0
    BY DEF Won, Lost
  <2> HIDE DEF p, q, c, profit, rounded, slackOf, won, lost, S
  <2> QED BY <2>1, <2>2, <2>3, <2>4
<1>4. Total(S) = SumFunctionOnSet(profit, S) /\ Total(Won(S)) = SumFunctionOnSet(profit, Won(S))
      /\ Total(Lost(S)) = SumFunctionOnSet(profit, Lost(S))
  BY DEF Total
<1>5. slack = Slack(row.day)
  BY DEF Slack
<1>0. won \in SUBSET S /\ lost \in SUBSET S
  OBVIOUS
<1> HIDE DEF rounded, profit, slackOf, won, lost, page, slack, S
<1>6. won \in SUBSET Won(S) /\ lost \in SUBSET Lost(S)
  BY <1>0, <1>3
<1>7. ASSUME NEW i \in S
      PROVE  /\ profit[i] \in Int /\ rounded[i] \in Int /\ slackOf[i] \in Nat
             /\ 2 * (rounded[i] - profit[i]) \in (0 - slackOf[i]) .. slackOf[i]
             /\ i \notin won /\ i \in Won(S) => rounded[i] = 0
             /\ i \notin lost /\ i \in Lost(S) => rounded[i] = 0
  <2>1. PICK p \in Int, q \in Int, c \in Nat :
                /\ profit[i] = p * c /\ rounded[i] = q * c /\ slackOf[i] = Grain * c
                /\ i \in Won(S) <=> p > 0
                /\ i \in Lost(S) <=> p < 0
                /\ i \in won <=> q > 0
                /\ i \in lost <=> q < 0
                /\ 2 * (q - p) \in (0 - Grain) .. Grain
                /\ p > 0 => q >= 0
                /\ p < 0 => q <= 0
    BY <1>3
  <2>2. 2 * (q * c - p * c) \in (0 - Grain * c) .. (Grain * c)
        /\ p * c \in Int /\ q * c \in Int /\ Grain * c \in Nat
    BY <2>1, Scaled
  <2>3. q = 0 => q * c = 0
    BY <2>1
  <2> QED BY <2>1, <2>2, <2>3
<1>8. Numbers(rounded, S) /\ Numbers(profit, S) /\ Numbers(slackOf, S)
  BY <1>7 DEF Numbers
<1>9. Near(rounded, S, profit, S, S, slackOf)
  BY <1>7 DEF Near
<1>10. Near(rounded, won, profit, Won(S), S, slackOf)
  <2> SUFFICES ASSUME NEW x \in S
               PROVE  2 * ((IF x \in won THEN rounded[x] ELSE 0)
                             - (IF x \in Won(S) THEN profit[x] ELSE 0))
                        \in (0 - slackOf[x]) .. slackOf[x]
    BY DEF Near
  <2>1. CASE x \in won
    BY <1>6, <1>7, <2>1
  <2>2. CASE x \notin won /\ x \in Won(S)
    BY <1>7, <2>2
  <2>3. CASE x \notin won /\ x \notin Won(S)
    BY <1>7, <2>3
  <2> QED BY <2>1, <2>2, <2>3
<1>11. Near(rounded, lost, profit, Lost(S), S, slackOf)
  <2> SUFFICES ASSUME NEW x \in S
               PROVE  2 * ((IF x \in lost THEN rounded[x] ELSE 0)
                             - (IF x \in Lost(S) THEN profit[x] ELSE 0))
                        \in (0 - slackOf[x]) .. slackOf[x]
    BY DEF Near
  <2>1. CASE x \in lost
    BY <1>6, <1>7, <2>1
  <2>2. CASE x \notin lost /\ x \in Lost(S)
    BY <1>7, <2>2
  <2>3. CASE x \notin lost /\ x \notin Lost(S)
    BY <1>7, <2>3
  <2> QED BY <2>1, <2>2, <2>3
<1>12. /\ 2 * (SumFunctionOnSet(rounded, S) - SumFunctionOnSet(profit, S)) \in Bound
       /\ 2 * (SumFunctionOnSet(rounded, won) - SumFunctionOnSet(profit, Won(S))) \in Bound
       /\ 2 * (SumFunctionOnSet(rounded, lost) - SumFunctionOnSet(profit, Lost(S))) \in Bound
  <2>1. S \in SUBSET S
    OBVIOUS
  <2>2. 2 * (SumFunctionOnSet(rounded, S) - SumFunctionOnSet(profit, S)) \in Bound
    BY <1>1, <1>8, <1>9, <2>1, SumNear DEF slack
  <2>3. 2 * (SumFunctionOnSet(rounded, won) - SumFunctionOnSet(profit, Won(S))) \in Bound
    BY <1>0, <1>1, <1>8, <1>10, SumNear DEF slack
  <2>4. 2 * (SumFunctionOnSet(rounded, lost) - SumFunctionOnSet(profit, Lost(S))) \in Bound
    BY <1>0, <1>1, <1>8, <1>11, SumNear DEF slack
  <2> QED BY <2>2, <2>3, <2>4
<1>13. Cardinality(won) <= Cardinality(Won(S)) /\ Cardinality(lost) <= Cardinality(Lost(S))
  <2>1. IsFiniteSet(Won(S)) /\ IsFiniteSet(Lost(S))
    BY <1>1, FS_Subset
  <2> QED BY <1>6, <2>1, FS_Subset
<1>14. Total(S) = Total(Won(S)) + Total(Lost(S))
  BY WonAndLost DEF S
<1>15. /\ row.total = Cardinality(S) /\ row.wins = Cardinality(Won(S))
       /\ row.losses = Cardinality(Lost(S)) /\ row.pnl = Total(S)
       /\ row.gain = Total(Won(S)) /\ row.loss = 0 - Total(Lost(S))
  BY DEF S
<1>16. row.pnl = row.gain - row.loss
  BY <1>1, <1>14, <1>15
<1>17. page.total = row.total /\ page.wins <= row.wins /\ page.losses <= row.losses
  BY <1>2, <1>13, <1>15
<1>18. SumFunctionOnSet(rounded, lost) \in Int
  <2>1. IsFiniteSet(lost) /\ \A i \in lost : rounded[i] \in Int
    BY <1>0, <1>1, <1>7, FS_Subset
  <2> QED BY <2>1, SumTakesOut
<1>19. 2 * (page.pnl - row.pnl) \in Bound /\ 2 * (page.gain - row.gain) \in Bound
  BY <1>2, <1>4, <1>12, <1>15
<1>20. 2 * (page.loss - row.loss) \in Bound
  <2> DEFINE a == SumFunctionOnSet(rounded, lost)
             b == Total(Lost(S))
             c == slack
  <2>1. a \in Int /\ b \in Int /\ c \in Int /\ 2 * (a - b) \in (0 - c) .. c
    <3>1. c \in Int
      BY <1>1, <1>8, SumTakesOut DEF slack, Numbers
    <3> QED BY <1>1, <1>4, <1>12, <1>18, <3>1
  <2>2. page.loss = 0 - a /\ row.loss = 0 - b
    BY <1>2, <1>15
  <2> HIDE DEF a, b, c
  <2>3. 2 * (page.loss - row.loss) \in (0 - c) .. c
    BY <2>1, <2>2
  <2> QED BY <2>3 DEF c
<1>21. \A part \in {"pnl", "gain", "loss"} : 2 * (page[part] - row[part]) \in Bound
  BY <1>19, <1>20
<1> QED BY <1>5, <1>16, <1>17, <1>21 DEF Agrees, page

-------------------------------------------------------------------------------
(* What a step leaves alone.                                                 *)

SameDay(old, new, day) ==
    /\ OnOf(new, day) = OnOf(old, day)
    /\ WonOf(new, day) = WonOf(old, day) /\ LostOf(new, day) = LostOf(old, day)
    /\ TotalOf(new, OnOf(new, day)) = TotalOf(old, OnOf(old, day))
    /\ TotalOf(new, WonOf(new, day)) = TotalOf(old, WonOf(old, day))
    /\ TotalOf(new, LostOf(new, day)) = TotalOf(old, LostOf(old, day))

PastStays == \A day \in Int :
    /\ Past(reads', day) <=> Past(reads, day)
    /\ Past(reads, day) => SameDay(trades, trades', day)

Grows ==
    /\ trades' \in Seq(Booking) /\ Len(trades) <= Len(trades')
    /\ \A i \in 1 .. Len(trades) : trades'[i] = trades[i]
    /\ Cardinality(Dates) <= Cardinality(Dates')

LEMMA TypeFacts ==
  ASSUME ReportTypeOK
  PROVE  /\ trades \in Seq(Booking) /\ now \in Nat /\ Len(trades) \in Nat
         /\ reads \in Seq([at : 0 .. now, booked : 0 .. Len(trades)]) /\ Len(reads) \in Nat
         /\ \A k \in 1 .. Len(reads) : /\ reads[k].at \in Nat /\ reads[k].at <= now
                                       /\ reads[k].booked \in Nat /\ reads[k].booked <= Len(trades)
<1>1. trades \in Seq(Booking) /\ now \in Nat /\ Len(trades) \in Nat
      /\ reads \in Seq([at : 0 .. now, booked : 0 .. Len(trades)]) /\ Len(reads) \in Nat
  BY DEF ReportTypeOK, Booking
<1>2. ASSUME NEW k \in 1 .. Len(reads)
      PROVE  /\ reads[k].at \in Nat /\ reads[k].at <= now
             /\ reads[k].booked \in Nat /\ reads[k].booked <= Len(trades)
  <2>1. reads[k] \in [at : 0 .. now, booked : 0 .. Len(trades)]
    <3> DEFINE R == [at : 0 .. now, booked : 0 .. Len(trades)]
    <3>1. reads \in Seq(R)
      BY <1>1
    <3> HIDE DEF R
    <3>2. reads[k] \in R
      BY <3>1
    <3> QED BY <3>2 DEF R
  <2> QED BY <1>1, <2>1
<1> QED BY <1>1, <1>2

LEMMA SameTableStays ==
  ASSUME UNCHANGED trades, reads # <<>>, reads' # <<>>, reads'[1] = reads[1]
  PROVE  PastStays
BY DEF PastStays, SameDay, Past

LEMMA SameTableGrows ==
  ASSUME trades \in Seq(Booking), UNCHANGED trades
  PROVE  Grows
<1>1. Cardinality(Dates) \in Nat /\ Dates' = Dates
  <2>1. Dates' = Dates
    BY DEF Dates, DayOf
  <2> QED BY <2>1, DatesAreFinite
<1> QED BY <1>1 DEF Grows

LEMMA LogTradeGrows ==
  ASSUME ReportTypeOK, LogTrade
  PROVE  /\ Grows /\ Len(trades') = Len(trades) + 1
         /\ trades'[Len(trades) + 1].at \in {now, now - 1} \cap Nat
         /\ trades' \in Seq([at : 0 .. MaxTime, ticker : Tickers, percent : Percents,
                            cost : Costs])
<1>1. trades \in Seq(Booking) /\ now \in 0 .. MaxTime
  BY TypeFacts DEF ReportTypeOK
<1>2. PICK t \in Tickers, p \in Percents, c \in Costs, at \in {now, now - 1} \cap Nat :
        trades' = Append(trades, [at |-> at, ticker |-> t, percent |-> p, cost |-> c])
  BY DEF LogTrade
<1> DEFINE new == [at |-> at, ticker |-> t, percent |-> p, cost |-> c]
<1>3. new \in Booking /\ new.at \in {now, now - 1} \cap Nat
  <2>1. at \in 0 .. MaxTime
    BY <1>1
  <2> QED BY <2>1 DEF Booking
<1>4. trades' = Append(trades, new)
  BY <1>2
<1> HIDE DEF new
<1>5. /\ trades' \in Seq(Booking) /\ Len(trades') = Len(trades) + 1
      /\ \A i \in 1 .. Len(trades) : trades'[i] = trades[i]
      /\ trades'[Len(trades) + 1] = new
  BY <1>1, <1>3, <1>4
<1>6. Cardinality(Dates) <= Cardinality(Dates')
  <2>1. IsFiniteSet(Dates')
    <3>1. (trades \in Seq(Booking))' => IsFiniteSet(Dates)'
      BY DatesAreFinite, PTL
    <3> QED BY <1>5, <3>1
  <2>2. Dates \in SUBSET (Dates')
    <3>1. DOMAIN trades = 1 .. Len(trades) /\ DOMAIN trades' = 1 .. Len(trades')
          /\ Len(trades) \in Nat
      BY <1>1, <1>5
    <3>2. \A i \in DOMAIN trades : i \in DOMAIN trades' /\ trades'[i] = trades[i]
      BY <1>5, <3>1
    <3> QED BY <3>2 DEF Dates, DayOf
  <2> QED BY <2>1, <2>2, FS_Subset
<1> QED BY <1>3, <1>5, <1>6 DEF Grows, Booking

LEMMA LogTradeStays ==
  ASSUME ReportTypeOK, LogTrade
  PROVE  PastStays
<1>1. /\ trades \in Seq(Booking) /\ trades' \in Seq(Booking) /\ now \in Nat
      /\ Len(trades') = Len(trades) + 1 /\ Len(trades) \in Nat
      /\ \A i \in 1 .. Len(trades) : trades'[i] = trades[i]
      /\ trades'[Len(trades) + 1].at \in {now, now - 1} \cap Nat
  BY TypeFacts, LogTradeGrows DEF Grows
<1>2. reads' = reads
  BY DEF LogTrade, handlerVars
<1>3. \A day : Past(reads', day) <=> Past(reads, day)
  BY <1>2
<1>4. ASSUME NEW day \in Int, Past(reads, day) PROVE SameDay(trades, trades', day)
  <2>1. reads # <<>> /\ day < DayOf(reads[1].at - 1)
    BY <1>4 DEF Past
  <2>2. 1 \in 1 .. Len(reads)
    BY <2>1, TypeFacts
  <2> DEFINE t == trades'[Len(trades) + 1].at
             r == reads[1].at - 1
  <2>3. r \in Int /\ t \in Int /\ r <= t
    BY <1>1, <2>2, TypeFacts
  <2>4. DayOf(t) # day
    <3> HIDE DEF t, r
    <3>1. DayOf(r) \in Int /\ DayOf(t) \in Int /\ DayOf(r) <= DayOf(t)
      BY <2>3, DaysGrow
    <3>2. day < DayOf(r)
      BY <2>1 DEF r
    <3> QED BY <3>1, <3>2
  <2>5. OnOf(trades', day) = {i \in 1 .. Len(trades) + 1 : DayOf(trades'[i].at) = day}
    <3>1. DOMAIN trades' = 1 .. Len(trades) + 1
      BY <1>1
    <3> QED BY <3>1 DEF OnOf
  <2>6. OnOf(trades, day) = {i \in 1 .. Len(trades) : DayOf(trades[i].at) = day}
    <3>1. DOMAIN trades = 1 .. Len(trades)
      BY <1>1
    <3> QED BY <3>1 DEF OnOf
  <2>7. OnOf(trades', day) = OnOf(trades, day)
    <3>1. \A i \in 1 .. Len(trades) + 1 : i \in 1 .. Len(trades) \/ i = Len(trades) + 1
      BY <1>1
    <3>2. \A i \in 1 .. Len(trades) : i \in 1 .. Len(trades) + 1
      BY <1>1
    <3> QED BY <1>1, <2>4, <2>5, <2>6, <3>1, <3>2
  <2>8. OnOf(trades, day) \in SUBSET (1 .. Len(trades))
    BY <2>6
  <2>9. WonOf(trades', day) = WonOf(trades, day) /\ LostOf(trades', day) = LostOf(trades, day)
    BY <1>1, <2>7, <2>8 DEF WonOf, LostOf
  <2>10. WonOf(trades, day) \in SUBSET (1 .. Len(trades))
         /\ LostOf(trades, day) \in SUBSET (1 .. Len(trades))
    BY <2>8 DEF WonOf, LostOf
  <2>11. \A S \in SUBSET (1 .. Len(trades)) : TotalOf(trades', S) = TotalOf(trades, S)
    BY <1>1, TotalsStay
  <2> QED BY <2>7, <2>8, <2>9, <2>10, <2>11 DEF SameDay
<1> QED BY <1>3, <1>4 DEF PastStays

LEMMA RowStays ==
  ASSUME PastStays, NEW row, row.day \in Int
  PROVE  /\ Counted(trades, reads, row) => Counted(trades', reads', row)
         /\ Halved(trades, reads, row) => Halved(trades', reads', row)
<1>1. /\ Past(reads', row.day) <=> Past(reads, row.day)
      /\ Past(reads, row.day) => SameDay(trades, trades', row.day)
  BY DEF PastStays
<1> QED BY <1>1 DEF SameDay, Counted, Halved

LEMMA WindowsStay ==
  ASSUME trades \in Seq(Booking), Grows, NEW read, read.booked \in Nat, read.booked <= Len(trades)
  PROVE  /\ WindowOf(trades', read) = WindowOf(trades, read)
         /\ WindowOf(trades, read) \in SUBSET (1 .. Len(trades))
         /\ TotalOf(trades', WindowOf(trades', read)) = TotalOf(trades, WindowOf(trades, read))
         /\ TotalOf(trades', 1 .. read.booked) = TotalOf(trades, 1 .. read.booked)
<1>1. 1 .. read.booked \in SUBSET (1 .. Len(trades))
  OBVIOUS
<1>2. WindowOf(trades', read) = WindowOf(trades, read)
      /\ WindowOf(trades, read) \in SUBSET (1 .. Len(trades))
  BY <1>1 DEF WindowOf, Grows
<1>3. \A S \in SUBSET (1 .. Len(trades)) : TotalOf(trades', S) = TotalOf(trades, S)
  BY TotalsStay DEF Grows
<1> QED BY <1>1, <1>2, <1>3

-------------------------------------------------------------------------------
(* The steps of others.                                                      *)

LEMMA ListFacts ==
  ASSUME ListsInv
  PROVE  /\ Len(rows) \in Nat /\ Len(days) \in Nat /\ Len(overall) \in Nat
         /\ \A i \in 1 .. Len(rows) : rows[i] \in Row /\ rows[i].day \in Int
         /\ \A i \in 1 .. Len(days) : days[i] \in FullRow /\ days[i].day \in Int
         /\ \A i \in 1 .. Len(overall) : overall[i] \in FullRow /\ overall[i].day \in Int
<1>1. rows \in Seq(Row) /\ days \in Seq(FullRow) /\ overall \in Seq(FullRow)
  BY DEF ListsInv
<1>2. \A row \in Row : row.day \in Int
  BY DEF Row
<1>3. \A row \in FullRow : row.day \in Int
  BY DEF FullRow
<1>4. \A i \in 1 .. Len(rows) : rows[i] \in Row
  BY <1>1
<1>5. \A i \in 1 .. Len(days) : days[i] \in FullRow
  BY <1>1
<1>6. \A i \in 1 .. Len(overall) : overall[i] \in FullRow
  BY <1>1
<1> QED BY <1>1, <1>2, <1>3, <1>4, <1>5, <1>6

LEMMA SettledStay ==
  ASSUME PastStays, ListsInv, SettledInv
  PROVE  /\ \A i \in 1 .. Len(rows) : Counted(trades', reads', rows[i])
         /\ \A i \in 1 .. Len(days) :
               Counted(trades', reads', days[i]) /\ Halved(trades', reads', days[i])
         /\ \A i \in 1 .. Len(overall) :
               Counted(trades', reads', overall[i]) /\ Halved(trades', reads', overall[i])
<1>1. ASSUME NEW i \in 1 .. Len(rows) PROVE Counted(trades', reads', rows[i])
  <2>1. rows[i].day \in Int /\ Counted(trades, reads, rows[i])
    BY ListFacts DEF SettledInv
  <2> QED BY <2>1, RowStays
<1>2. ASSUME NEW i \in 1 .. Len(days)
      PROVE  Counted(trades', reads', days[i]) /\ Halved(trades', reads', days[i])
  <2>1. days[i].day \in Int /\ Counted(trades, reads, days[i]) /\ Halved(trades, reads, days[i])
    BY ListFacts DEF SettledInv
  <2> QED BY <2>1, RowStays
<1>3. ASSUME NEW i \in 1 .. Len(overall)
      PROVE  Counted(trades', reads', overall[i]) /\ Halved(trades', reads', overall[i])
  <2>1. /\ overall[i].day \in Int
        /\ Counted(trades, reads, overall[i]) /\ Halved(trades, reads, overall[i])
    BY ListFacts DEF SettledInv
  <2> QED BY <2>1, RowStays
<1> QED BY <1>1, <1>2, <1>3

LEMMA SumsStay ==
  ASSUME ReportTypeOK, HandlerInv, Grows, SumsInv,
         UNCHANGED <<rows, overall, curve, stats, reads>>,
         pc' = "again" => pc = "again",
         pc' \in {"tickers", "hours", "done"} => pc \in {"tickers", "hours", "done"}
  PROVE  SumsInv'
<1>1. ASSUME NEW k \in 1 .. Len(reads)
      PROVE  /\ TotalOf(trades', WindowOf(trades', reads[k])) = TotalOf(trades, WindowOf(trades, reads[k]))
             /\ TotalOf(trades', 1 .. reads[k].booked) = TotalOf(trades, 1 .. reads[k].booked)
  BY TypeFacts, WindowsStay
<1>2. Len(reads) \in Nat /\ (reads # <<>> => Len(reads) >= 1)
  BY TypeFacts
<1>3. reads # <<>> => LastDays \in 1 .. Len(reads)
  <2> SUFFICES ASSUME reads # <<>> PROVE LastDays \in 1 .. Len(reads)
    OBVIOUS
  <2> DEFINE n == Len(reads)
  <2>1. n \in Nat /\ n >= 1
    BY <1>2
  <2>2. LastDays = IF n = 1 THEN 1 ELSE 2
    BY DEF LastDays
  <2> HIDE DEF n
  <2>3. LastDays \in 1 .. n
    BY <2>1, <2>2
  <2> QED BY <2>3 DEF n
<1>4. Len(reads) >= 2 \/ pc = "again" => 1 \in 1 .. Len(reads)
  BY <1>2 DEF HandlerInv, Passed
<1>5. \A k \in 1 .. Len(stats) : k + 2 \in 1 .. Len(reads)
  BY <1>2 DEF SumsInv
<1>6. LastDays' = LastDays
  BY DEF LastDays
<1>7. reads # <<>> /\ Len(rows) < Limit => Pnl(rows) = TotalOf(trades', 1 .. reads[LastDays].booked)
  BY <1>1, <1>3 DEF SumsInv
<1>8. (pc = "again" \/ Len(reads) >= 2) /\ Len(overall) < Limit =>
          Pnl(overall) = TotalOf(trades', 1 .. reads[1].booked)
  BY <1>1, <1>4 DEF SumsInv
<1>9. \A k \in 1 .. Len(stats) :
        SumFunction(stats[k]) = TotalOf(trades', WindowOf(trades', reads[k + 2]))
  BY <1>1, <1>5 DEF SumsInv
<1> QED BY <1>6, <1>7, <1>8, <1>9 DEF SumsInv

-------------------------------------------------------------------------------
(* Every step preserves the invariant.                                       *)

LEMMA InvIsParts ==
  ReportInv <=> /\ ReportTypeOK /\ ListsInv /\ HandlerInv
                /\ TimesInv /\ SettledInv /\ SumsInv
BY DEF ReportInv

LEMMA TickInv ==
  ASSUME ReportInv, Tick
  PROVE  ReportInv'
<1>0. ReportTypeOK /\ ListsInv /\ HandlerInv /\ TimesInv /\ SettledInv /\ SumsInv
  BY DEF ReportInv
<1>1. /\ UNCHANGED <<trades, pc, rows, days, gain, overall, curve, stats, reads>>
      /\ now' = now + 1 /\ now < MaxTime /\ now \in Nat
  BY <1>0, TypeFacts DEF Tick, handlerVars
<1>2. ReportTypeOK'
  <2> DEFINE R == [at : 0 .. now, booked : 0 .. Len(trades)]
             N == [at : 0 .. now + 1, booked : 0 .. Len(trades)]
  <2>1. reads \in Seq(R) /\ \A x \in R : x \in N
    BY <1>0, <1>1, TypeFacts
  <2> HIDE DEF R, N
  <2>2. reads \in Seq(N)
    BY <2>1
  <2>3. reads' \in Seq([at : 0 .. now', booked : 0 .. Len(trades')])
    BY <1>1, <2>2 DEF N
  <2>4. now' \in 0 .. MaxTime
    BY <1>1
  <2> QED BY <1>0, <1>1, <2>3, <2>4 DEF ReportTypeOK
<1>3. ListsInv' /\ HandlerInv' /\ SumsInv'
  BY <1>0, <1>1 DEF ListsInv, Dates, HandlerInv, Passed, SumsInv, LastDays
<1>4. TimesInv'
  <2>1. \A i \in 1 .. Len(trades) : trades[i].at <= now + 1
    <3>1. \A i \in 1 .. Len(trades) : trades[i].at \in Nat /\ trades[i].at <= now
      BY <1>0, TypeFacts, Bookings DEF TimesInv
    <3> QED BY <1>1, <3>1
  <2> QED BY <1>0, <1>1, <2>1 DEF TimesInv
<1>5. SettledInv'
  BY <1>0, <1>1 DEF SettledInv, Current
<1> QED BY <1>2, <1>3, <1>4, <1>5 DEF ReportInv

LEMMA LogTradeInv ==
  ASSUME ReportInv, LogTrade
  PROVE  ReportInv'
<1>0. ReportTypeOK /\ ListsInv /\ HandlerInv /\ TimesInv /\ SettledInv /\ SumsInv
  BY DEF ReportInv
<1>1. UNCHANGED <<now, pc, rows, days, gain, overall, curve, stats, reads>>
  BY DEF LogTrade, handlerVars
<1>2. /\ Grows /\ PastStays /\ Len(trades') = Len(trades) + 1
      /\ trades'[Len(trades) + 1].at \in {now, now - 1} \cap Nat
      /\ trades' \in Seq([at : 0 .. MaxTime, ticker : Tickers, percent : Percents,
                         cost : Costs])
      /\ trades \in Seq(Booking) /\ now \in Nat /\ Len(trades) \in Nat
  BY <1>0, LogTradeGrows, LogTradeStays, TypeFacts
<1>3. ReportTypeOK'
  <2> DEFINE R == [at : 0 .. now, booked : 0 .. Len(trades)]
             N == [at : 0 .. now, booked : 0 .. Len(trades) + 1]
  <2>1. reads \in Seq(R) /\ \A x \in R : x \in N
    BY <1>0, <1>2, TypeFacts
  <2> HIDE DEF R, N
  <2>2. reads \in Seq(N)
    BY <2>1
  <2>3. reads' \in Seq([at : 0 .. now', booked : 0 .. Len(trades')])
    BY <1>1, <1>2, <2>2 DEF N
  <2> QED BY <1>0, <1>1, <1>2, <2>3 DEF ReportTypeOK
<1>4. ListsInv'
  <2>1. Cardinality(Dates) \in Nat /\ Cardinality(Dates') \in Nat
    <3>1. (trades \in Seq(Booking))' => (Cardinality(Dates) \in Nat)'
      BY DatesAreFinite, PTL
    <3> QED BY <1>2, <3>1, DatesAreFinite DEF Grows
  <2>2. Len(rows) \in Nat /\ Len(overall) \in Nat
    BY <1>0, ListFacts
  <2>3. Cardinality(Dates) <= Cardinality(Dates')
    BY <1>2 DEF Grows
  <2>4. Len(rows) <= Cardinality(Dates') /\ Len(overall) <= Cardinality(Dates')
    BY <1>0, <2>1, <2>2, <2>3 DEF ListsInv
  <2> QED BY <1>0, <1>1, <2>4 DEF ListsInv
<1>5. HandlerInv'
  BY <1>0, <1>1 DEF HandlerInv, Passed
<1>6. TimesInv'
  <2>1. \A k \in 1 .. Len(reads) :
          reads[k].at \in Nat /\ reads[k].at <= now /\ reads[k].booked \in Nat /\ reads[k].booked <= Len(trades)
    BY <1>0, TypeFacts
  <2>2. \A i \in 1 .. Len(trades) : trades'[i] = trades[i]
    BY <1>2 DEF Grows
  <2>3. \A i \in 1 .. Len(trades') : trades'[i].at <= now
    <3> TAKE i \in 1 .. Len(trades')
    <3>1. CASE i = Len(trades) + 1
      BY <1>2, <3>1
    <3>2. CASE i # Len(trades) + 1
      <4>1. i \in 1 .. Len(trades)
        BY <1>2, <3>2
      <4> QED BY <1>0, <2>2, <4>1 DEF TimesInv
    <3> QED BY <3>1, <3>2
  <2>4. ASSUME NEW k \in 1 .. Len(reads)
        PROVE  /\ \A i \in 1 .. reads[k].booked : trades'[i].at <= reads[k].at
               /\ \A i \in reads[k].booked + 1 .. Len(trades') : reads[k].at - 1 <= trades'[i].at
    <3>1. \A i \in 1 .. reads[k].booked : i \in 1 .. Len(trades)
      BY <1>2, <2>1
    <3>2. \A i \in 1 .. reads[k].booked : trades'[i].at <= reads[k].at
      BY <1>0, <2>2, <3>1 DEF TimesInv
    <3>3. ASSUME NEW i \in reads[k].booked + 1 .. Len(trades') PROVE reads[k].at - 1 <= trades'[i].at
      <4>1. CASE i = Len(trades) + 1
        BY <1>2, <2>1, <4>1
      <4>2. CASE i # Len(trades) + 1
        <5>1. i \in reads[k].booked + 1 .. Len(trades) /\ i \in 1 .. Len(trades)
          BY <1>2, <2>1, <4>2
        <5> QED BY <1>0, <2>2, <5>1 DEF TimesInv
      <4> QED BY <4>1, <4>2
    <3> QED BY <3>2, <3>3
  <2> QED BY <1>0, <1>1, <2>3, <2>4 DEF TimesInv
<1>7. SettledInv'
  <2>1. /\ \A i \in 1 .. Len(rows) : Counted(trades', reads', rows[i])
        /\ \A i \in 1 .. Len(days) :
              Counted(trades', reads', days[i]) /\ Halved(trades', reads', days[i])
        /\ \A i \in 1 .. Len(overall) :
              Counted(trades', reads', overall[i]) /\ Halved(trades', reads', overall[i])
    BY <1>0, <1>2, SettledStay
  <2>2. ASSUME pc = "loss", Past(reads, Current.day)
        PROVE  gain = TotalOf(trades', WonOf(trades', Current.day))
    <3>1. Current.day \in Int
      <4>1. Len(days) + 1 \in 1 .. Len(rows)
        BY <1>0, <2>2, ListFacts DEF HandlerInv
      <4> QED BY <1>0, <4>1, ListFacts DEF Current
    <3>2. SameDay(trades, trades', Current.day)
      BY <1>2, <2>2, <3>1 DEF PastStays
    <3>3. gain = TotalOf(trades, WonOf(trades, Current.day))
      BY <1>0, <2>2 DEF SettledInv
    <3> QED BY <3>2, <3>3 DEF SameDay
  <2>3. Current' = Current
    BY <1>1 DEF Current
  <2> QED BY <1>1, <2>1, <2>2, <2>3 DEF SettledInv
<1>8. SumsInv'
  BY <1>0, <1>1, <1>2, SumsStay
<1> QED BY <1>3, <1>4, <1>5, <1>6, <1>7, <1>8 DEF ReportInv

LEMMA ReadAppends ==
  ASSUME ReportTypeOK, TimesInv, UNCHANGED <<trades, now>>, reads' = Append(reads, Read)
  PROVE  /\ reads' \in Seq([at : 0 .. now', booked : 0 .. Len(trades')])
         /\ Len(reads') = Len(reads) + 1 /\ Len(reads) \in Nat
         /\ \A k \in 1 .. Len(reads) : reads'[k] = reads[k]
         /\ reads'[Len(reads) + 1] = Read
         /\ reads' # <<>>
         /\ TimesInv'
<1>1. /\ trades \in Seq(Booking) /\ now \in Nat /\ Len(trades) \in Nat /\ Len(reads) \in Nat
      /\ reads \in Seq([at : 0 .. now, booked : 0 .. Len(trades)])
      /\ \A k \in 1 .. Len(reads) : /\ reads[k].at \in Nat /\ reads[k].at <= now
                                    /\ reads[k].booked \in Nat /\ reads[k].booked <= Len(trades)
  BY TypeFacts
<1> DEFINE R == [at : 0 .. now, booked : 0 .. Len(trades)]
<1>2. Read \in R /\ Read.at = now /\ Read.booked = Len(trades)
  BY <1>1 DEF Read
<1>3. reads \in Seq(R)
  BY <1>1
<1> HIDE DEF R
<1>4. /\ reads' \in Seq(R) /\ Len(reads') = Len(reads) + 1
      /\ \A k \in 1 .. Len(reads) : reads'[k] = reads[k]
      /\ reads'[Len(reads) + 1] = Read
      /\ reads' # <<>>
  <2> DEFINE x == Read
  <2>1. reads' = Append(reads, x) /\ x \in R
    BY <1>2
  <2> HIDE DEF x
  <2>2. /\ reads' \in Seq(R) /\ Len(reads') = Len(reads) + 1
        /\ \A k \in 1 .. Len(reads) : reads'[k] = reads[k]
        /\ reads'[Len(reads) + 1] = x
    BY <1>3, <2>1
  <2>3. reads' # <<>>
    BY <1>3, <2>1
  <2> QED BY <2>2, <2>3 DEF x
<1>5. ASSUME NEW k \in 1 .. Len(reads')
      PROVE  /\ \A i \in 1 .. reads'[k].booked : trades[i].at <= reads'[k].at
             /\ \A i \in reads'[k].booked + 1 .. Len(trades) : reads'[k].at - 1 <= trades[i].at
  <2>1. CASE k = Len(reads) + 1
    <3>1. reads'[k].booked = Len(trades) /\ reads'[k].at = now
      BY <1>2, <1>4, <2>1
    <3>2. \A i \in 1 .. Len(trades) : trades[i].at <= now
      BY DEF TimesInv
    <3> QED BY <1>1, <3>1, <3>2
  <2>2. CASE k # Len(reads) + 1
    <3>1. k \in 1 .. Len(reads)
      BY <1>1, <1>4, <2>2
    <3> QED BY <1>4, <3>1 DEF TimesInv
  <2> QED BY <2>1, <2>2
<1>6. ASSUME NEW k \in 1 .. Len(reads'), NEW m \in 1 .. Len(reads'), k < m
      PROVE  reads'[k].at <= reads'[m].at /\ reads'[k].booked <= reads'[m].booked
  <2>1. k \in 1 .. Len(reads)
    BY <1>1, <1>4, <1>6
  <2>2. CASE m = Len(reads) + 1
    BY <1>1, <1>2, <1>4, <2>1, <2>2
  <2>3. CASE m # Len(reads) + 1
    <3>1. m \in 1 .. Len(reads)
      BY <1>1, <1>4, <2>3
    <3> QED BY <1>4, <1>6, <2>1, <3>1 DEF TimesInv
  <2> QED BY <2>2, <2>3
<1>7. TimesInv'
  BY <1>5, <1>6 DEF TimesInv
<1> QED BY <1>1, <1>4, <1>7 DEF R

LEMMA WindowIsWhole ==
  ASSUME trades \in Seq(Booking)
  PROVE  WindowOf(trades, Read) = InWindow(now) /\ TotalOf(trades, 1 .. Read.booked) = Total(1 .. Len(trades))
<1>1. DOMAIN trades = 1 .. Len(trades)
  OBVIOUS
<1>2. Read.at = now /\ Read.booked = Len(trades)
  BY DEF Read
<1> QED BY <1>1, <1>2, TableOf DEF WindowOf, InWindow

LEMMA ReadDaysInv ==
  ASSUME ReportInv, ReadDays
  PROVE  ReportInv'
<1>0. ReportTypeOK /\ ListsInv /\ HandlerInv /\ TimesInv /\ SettledInv /\ SumsInv
  BY DEF ReportInv
<1>1. /\ UNCHANGED <<trades, now, gain, overall, curve, stats>>
      /\ rows' = DayRows /\ days' = <<>> /\ reads' = Append(reads, Read)
  BY DEF ReadDays, tableVars
<1>2. /\ reads' \in Seq([at : 0 .. now', booked : 0 .. Len(trades')])
      /\ Len(reads') = Len(reads) + 1 /\ Len(reads) \in Nat
      /\ \A k \in 1 .. Len(reads) : reads'[k] = reads[k]
      /\ reads'[Len(reads) + 1] = Read
      /\ reads' # <<>>
      /\ TimesInv'
  BY <1>0, <1>1, ReadAppends
<1>3. \/ pc = "idle" /\ Len(reads) = 0 /\ pc' = IF rows' = <<>> THEN "again" ELSE "gain"
      \/ pc = "again" /\ Len(reads) = 1 /\ pc' = IF rows' = <<>> THEN "capital" ELSE "gain"
  BY <1>0 DEF ReadDays, HandlerInv, Passed
<1>4. trades \in Seq(Booking) /\ Cardinality(Dates) \in Nat /\ Dates' = Dates
  BY <1>0, <1>1, TypeFacts, DatesAreFinite DEF Dates, DayOf
<1>5. /\ rows' \in Seq(Row) /\ Len(rows') <= Limit
      /\ Len(rows') <= Cardinality(Dates) /\ Len(rows') \in Nat
      /\ Len(rows') < Limit => Len(rows') = Cardinality(Dates)
      /\ \A i \in 1 .. Len(rows') : Counted(trades, reads', rows'[i])
  BY <1>1, <1>4, DayRowsList
<1>6. Len(days') = 0 /\ days' \in Seq(FullRow)
  BY <1>1
<1>7. rows' # <<>> => Len(rows') > 0
  BY <1>5
<1>8. ReportTypeOK'
  <2>1. pc' \in {"gain", "again", "capital"}
    BY <1>3
  <2> QED BY <1>0, <1>1, <1>2, <1>5, <1>6, <2>1 DEF ReportTypeOK
<1>9. ListsInv'
  BY <1>0, <1>1, <1>4, <1>5, <1>6 DEF ListsInv
<1>10. HandlerInv'
  <2>1. CASE pc = "idle" /\ Len(reads) = 0 /\ pc' = IF rows' = <<>> THEN "again" ELSE "gain"
    <3>1. Len(reads') = 1 /\ overall' = <<>> /\ pc' \in {"gain", "again"}
      BY <1>0, <1>1, <1>2, <2>1 DEF HandlerInv
    <3>2. pc' = "gain" => Len(rows') > 0
      BY <1>7, <2>1
    <3> QED BY <1>6, <3>1, <3>2 DEF HandlerInv, Passed
  <2>2. CASE pc = "again" /\ Len(reads) = 1 /\ pc' = IF rows' = <<>> THEN "capital" ELSE "gain"
    <3>1. Len(reads') = 2 /\ pc' \in {"gain", "capital"}
      BY <1>2, <2>2
    <3>2. pc' = "gain" => Len(rows') > 0
      BY <1>7, <2>2
    <3>3. pc' = "capital" => Len(rows') = 0
      BY <2>2
    <3> QED BY <1>6, <3>1, <3>2, <3>3 DEF HandlerInv, Passed
  <2> QED BY <1>3, <2>1, <2>2
<1>11. SettledInv'
  <2>1. ASSUME NEW i \in 1 .. Len(overall)
        PROVE  Counted(trades, reads', overall[i]) /\ Halved(trades, reads', overall[i])
    <3>0. overall # <<>>
      BY <2>1
    <3>1. pc # "idle"
      BY <1>0, <1>3, <3>0 DEF HandlerInv
    <3>2. reads # <<>> /\ reads'[1] = reads[1]
      BY <1>2, <1>3, <3>1
    <3>3. PastStays
      BY <1>1, <1>2, <3>2, SameTableStays
    <3>4. overall[i].day \in Int /\ Counted(trades, reads, overall[i]) /\ Halved(trades, reads, overall[i])
      BY <1>0, ListFacts DEF SettledInv
    <3>5. Counted(trades', reads', overall[i]) /\ Halved(trades', reads', overall[i])
      BY <3>3, <3>4, RowStays
    <3> QED BY <1>1, <3>5
  <2>2. pc' # "loss"
    BY <1>3
  <2> QED BY <1>1, <1>5, <1>6, <2>1, <2>2 DEF SettledInv
<1>12. SumsInv'
  <2>0. TotalOf(trades, 1 .. Read.booked) = Total(1 .. Len(trades))
    BY <1>4, WindowIsWhole
  <2>1. Len(rows') < Limit => Pnl(rows') = TotalOf(trades', 1 .. Read.booked)
    BY <1>1, <1>4, <2>0, DayRowsAddUp
  <2>2. Len(stats') = 0
    <3>1. Len(stats) = 0
      BY <1>0, <1>3 DEF SumsInv
    <3> QED BY <1>1, <3>1
  <2>3. pc' \notin {"tickers", "hours", "done"}
    BY <1>3
  <2>4. CASE pc = "idle" /\ Len(reads) = 0 /\ pc' = IF rows' = <<>> THEN "again" ELSE "gain"
    <3>1. Len(reads') = 1 /\ overall' = <<>> /\ LastDays' = 1 /\ reads'[1] = Read
      BY <1>0, <1>1, <1>2, <2>4 DEF HandlerInv, LastDays
    <3>2. pc' = "again" => rows' = overall'
      BY <2>4, <3>1
    <3>3. pc' = "again" /\ Len(overall') < Limit => Pnl(overall') = TotalOf(trades', 1 .. Read.booked)
      BY <2>1, <3>2
    <3> QED BY <2>1, <2>2, <2>3, <3>1, <3>3 DEF SumsInv
  <2>5. CASE pc = "again" /\ Len(reads) = 1 /\ pc' = IF rows' = <<>> THEN "capital" ELSE "gain"
    <3>1. Len(reads') = 2 /\ LastDays' = 2 /\ reads'[2] = Read /\ reads'[1] = reads[1]
      BY <1>2, <2>5 DEF LastDays
    <3>2. Len(overall') < Limit => Pnl(overall') = TotalOf(trades', 1 .. reads'[1].booked)
      BY <1>0, <1>1, <2>5, <3>1 DEF SumsInv
    <3>3. Len(rows') < Limit => Len(overall') <= Len(rows')
      BY <1>0, <1>1, <1>5 DEF ListsInv
    <3> QED BY <2>1, <2>2, <2>3, <3>1, <3>2, <3>3 DEF SumsInv
  <2> QED BY <1>3, <2>4, <2>5
<1> QED BY <1>2, <1>8, <1>9, <1>10, <1>11, <1>12 DEF ReportInv

LEMMA ReadGainInv ==
  ASSUME ReportInv, ReadGain
  PROVE  ReportInv'
<1>0. ReportTypeOK /\ ListsInv /\ HandlerInv /\ TimesInv /\ SettledInv /\ SumsInv
  BY DEF ReportInv
<1>1. /\ UNCHANGED <<trades, now, rows, days, overall, curve, stats, reads>>
      /\ pc = "gain" /\ gain' = Total(Won(On(Current.day))) /\ pc' = "loss"
  BY DEF ReadGain, tableVars
<1>2. trades \in Seq(Booking)
  BY <1>0, TypeFacts
<1>3. ReportTypeOK'
  <2>1. gain' \in Nat
    BY <1>1, <1>2, DaySets
  <2> QED BY <1>0, <1>1, <2>1 DEF ReportTypeOK
<1>4. ListsInv' /\ HandlerInv' /\ TimesInv'
  BY <1>0, <1>1 DEF ListsInv, Dates, HandlerInv, Passed, TimesInv
<1>5. SettledInv'
  <2>1. Current' = Current
    BY <1>1 DEF Current
  <2>2. gain' = TotalOf(trades, WonOf(trades, Current.day))
    BY <1>1, Tables
  <2> QED BY <1>0, <1>1, <2>1, <2>2 DEF SettledInv
<1>6. SumsInv'
  BY <1>0, <1>1 DEF SumsInv, LastDays
<1> QED BY <1>3, <1>4, <1>5, <1>6 DEF ReportInv

LEMMA SameProfits ==
  ASSUME NEW a \in Seq(Row), NEW b \in Seq(FullRow), Len(a) = Len(b),
         \A i \in 1 .. Len(a) : b[i].pnl = a[i].pnl
  PROVE  Pnl(b) = Pnl(a)
<1>1. DOMAIN a = 1 .. Len(a) /\ DOMAIN b = 1 .. Len(a)
  OBVIOUS
<1>2. [i \in DOMAIN b |-> b[i].pnl] = [i \in DOMAIN a |-> a[i].pnl]
  BY <1>1
<1> QED BY <1>2 DEF Pnl

LEMMA ReadLossInv ==
  ASSUME ReportInv, ReadLoss
  PROVE  ReportInv'
<1>0. ReportTypeOK /\ ListsInv /\ HandlerInv /\ TimesInv /\ SettledInv /\ SumsInv
  BY DEF ReportInv
<1> DEFINE row == [day |-> Current.day, total |-> Current.total, wins |-> Current.wins,
                   losses |-> Current.losses, pnl |-> Current.pnl,
                   gain |-> gain, loss |-> 0 - Total(Lost(On(Current.day)))]
           n == Len(days)
<1>1. /\ UNCHANGED <<trades, now, rows, gain, curve, stats, reads>>
      /\ pc = "loss" /\ days' = Append(days, row)
  BY DEF ReadLoss, tableVars
<1>2. \/ Len(days') < Len(rows) /\ pc' = "gain" /\ overall' = overall
      \/ ~ (Len(days') < Len(rows)) /\ Len(reads) = 1 /\ pc' = "again" /\ overall' = days'
      \/ ~ (Len(days') < Len(rows)) /\ Len(reads) # 1 /\ pc' = "capital" /\ overall' = overall
  BY DEF ReadLoss
<1>3. /\ n \in Nat /\ Len(rows) \in Nat /\ n < Len(rows) /\ n + 1 \in 1 .. Len(rows)
      /\ trades \in Seq(Booking) /\ rows \in Seq(Row) /\ days \in Seq(FullRow)
  BY <1>0, <1>1, ListFacts, TypeFacts DEF HandlerInv, ListsInv
<1>4. Current = rows[n + 1] /\ Current \in Row /\ Current.day \in Int
  BY <1>0, <1>3, ListFacts DEF Current
<1>5. row \in FullRow
  <2>1. Total(Lost(On(Current.day))) \in Int /\ gain \in Int
    BY <1>0, <1>3, DaySets DEF ReportTypeOK
  <2> QED BY <1>4, <2>1 DEF Row, FullRow
<1>6. Counted(trades, reads, row) /\ Halved(trades, reads, row)
  <2>1. Counted(trades, reads, Current)
    BY <1>0, <1>3, <1>4 DEF SettledInv
  <2>2. Past(reads, Current.day) => gain = TotalOf(trades, WonOf(trades, Current.day))
    BY <1>0, <1>1 DEF SettledInv
  <2>3. Total(Lost(On(Current.day))) = TotalOf(trades, LostOf(trades, Current.day))
    BY Tables
  <2> QED BY <2>1, <2>2, <2>3 DEF Counted, Halved
<1>7. row.pnl = rows[n + 1].pnl
  BY <1>4
<1> HIDE DEF row
<1>8. /\ days' \in Seq(FullRow) /\ Len(days') = n + 1
      /\ \A i \in 1 .. n : days'[i] = days[i]
      /\ days'[n + 1] = row
  BY <1>1, <1>3, <1>5
<1>9. \A i \in 1 .. n + 1 : days'[i].pnl = rows[i].pnl
  <2> TAKE i \in 1 .. n + 1
  <2>1. CASE i = n + 1
    BY <1>7, <1>8, <2>1
  <2>2. CASE i # n + 1
    <3>1. i \in 1 .. n
      BY <1>3, <2>2
    <3> QED BY <1>0, <1>8, <3>1 DEF ListsInv
  <2> QED BY <2>1, <2>2
<1>10. \A i \in 1 .. n + 1 : Counted(trades, reads, days'[i]) /\ Halved(trades, reads, days'[i])
  <2> TAKE i \in 1 .. n + 1
  <2>1. CASE i = n + 1
    BY <1>6, <1>8, <2>1
  <2>2. CASE i # n + 1
    <3>1. i \in 1 .. n
      BY <1>3, <2>2
    <3> QED BY <1>0, <1>8, <3>1 DEF SettledInv
  <2> QED BY <2>1, <2>2
<1>11. Len(days') <= Len(rows) /\ (~ (Len(days') < Len(rows)) => Len(days') = Len(rows))
  BY <1>3, <1>8
<1>12. (Len(reads) = 1 \/ Len(reads) = 2) /\ (Len(reads) = 1 => overall = <<>>)
  <2>1. Len(reads) = 1 \/ Len(reads) = 2
    BY <1>0, <1>1 DEF HandlerInv, Passed
  <2>2. Len(reads) <= 1 => overall = <<>>
    BY <1>0, <1>1 DEF HandlerInv
  <2>3. Len(reads) \in Nat
    BY <1>0, TypeFacts
  <2> QED BY <2>1, <2>2, <2>3
<1> HIDE DEF n
<1>13. \/ overall' = overall
       \/ overall' = days' /\ Len(days') = Len(rows) /\ Len(reads) = 1 /\ pc' = "again"
  <2>1. CASE Len(days') < Len(rows) /\ pc' = "gain" /\ overall' = overall
    BY <2>1
  <2>2. CASE ~ (Len(days') < Len(rows)) /\ Len(reads) = 1 /\ pc' = "again" /\ overall' = days'
    <3>1. Len(days') = Len(rows)
      BY <1>11, <2>2
    <3> QED BY <2>2, <3>1
  <2>3. CASE ~ (Len(days') < Len(rows)) /\ Len(reads) # 1 /\ pc' = "capital" /\ overall' = overall
    BY <2>3
  <2> QED BY <1>2, <2>1, <2>2, <2>3
<1>14. ReportTypeOK'
  <2>1. pc' \in {"gain", "again", "capital"}
    BY <1>2
  <2>2. Len(overall') <= Limit
    BY <1>0, <1>13 DEF ReportTypeOK
  <2> QED BY <1>0, <1>1, <1>11, <2>1, <2>2 DEF ReportTypeOK
<1>15. ListsInv'
  <2>1. Dates' = Dates
    BY <1>1 DEF Dates
  <2>2. overall' \in Seq(FullRow) /\ Len(overall') <= Cardinality(Dates)
    BY <1>0, <1>8, <1>13 DEF ListsInv
  <2> QED BY <1>0, <1>1, <1>8, <1>9, <2>1, <2>2 DEF ListsInv
<1>16. HandlerInv'
  <2>1. CASE Len(days') < Len(rows) /\ pc' = "gain" /\ overall' = overall
    BY <1>1, <1>12, <2>1 DEF HandlerInv, Passed
  <2>2. CASE ~ (Len(days') < Len(rows)) /\ Len(reads) = 1 /\ pc' = "again" /\ overall' = days'
    BY <1>1, <1>12, <2>2 DEF HandlerInv, Passed
  <2>3. CASE ~ (Len(days') < Len(rows)) /\ Len(reads) # 1 /\ pc' = "capital" /\ overall' = overall
    BY <1>1, <1>11, <1>12, <2>3 DEF HandlerInv, Passed
  <2> QED BY <1>2, <2>1, <2>2, <2>3
<1>17. TimesInv'
  BY <1>0, <1>1 DEF TimesInv
<1>18. SettledInv'
  <2>1. \A i \in 1 .. Len(overall') :
          Counted(trades, reads, overall'[i]) /\ Halved(trades, reads, overall'[i])
    BY <1>0, <1>8, <1>10, <1>13 DEF SettledInv
  <2>2. pc' # "loss"
    BY <1>2
  <2> QED BY <1>0, <1>1, <1>8, <1>10, <2>1, <2>2 DEF SettledInv
<1>19. SumsInv'
  <2>1. LastDays' = LastDays /\ pc' \notin {"tickers", "hours", "done"}
    BY <1>1, <1>2 DEF LastDays
  <2>2. (pc' = "again" \/ Len(reads) >= 2) /\ Len(overall') < Limit =>
           Pnl(overall') = TotalOf(trades, 1 .. reads[1].booked)
    <3>1. CASE overall' = days' /\ Len(days') = Len(rows) /\ Len(reads) = 1
      <4>1. Pnl(days') = Pnl(rows)
        BY <1>3, <1>8, <1>9, <3>1, SameProfits
      <4>2. LastDays = 1 /\ reads # <<>>
        BY <1>12, <3>1 DEF LastDays
      <4>3. Len(rows) < Limit => Pnl(rows) = TotalOf(trades, 1 .. reads[1].booked)
        BY <1>0, <4>2 DEF SumsInv
      <4> QED BY <3>1, <4>1, <4>3
    <3>2. CASE overall' = overall /\ Len(reads) = 2
      BY <1>0, <3>2 DEF SumsInv
    <3>3. CASE overall' = overall /\ Len(reads) = 1 /\ pc' # "again"
      BY <3>3
    <3> QED BY <1>2, <1>11, <1>12, <3>1, <3>2, <3>3
  <2>3. Len(reads) >= 2 /\ Len(rows) < Limit => Len(overall') <= Len(rows)
    BY <1>0, <1>13 DEF SumsInv
  <2> QED BY <1>0, <1>1, <2>1, <2>2, <2>3 DEF SumsInv
<1> QED BY <1>14, <1>15, <1>16, <1>17, <1>18, <1>19 DEF ReportInv

LEMMA ReadCapitalInv ==
  ASSUME ReportInv, ReadCapital
  PROVE  ReportInv'
<1>0. ReportTypeOK /\ ListsInv /\ HandlerInv /\ TimesInv /\ SettledInv /\ SumsInv
  BY DEF ReportInv
<1>1. /\ UNCHANGED <<trades, now, rows, days, gain, overall, stats, reads>>
      /\ pc = "capital" /\ pc' = "tickers"
  BY DEF ReadCapital, tableVars
<1>2. PICK capital \in Capitals : curve' = CurveOf(days, capital)
  BY DEF ReadCapital
<1>3. capital \in Nat /\ days \in Seq(FullRow) /\ rows \in Seq(Row) /\ Len(days) = Len(rows)
  BY <1>0, <1>1 DEF ListsInv, HandlerInv
<1>4. /\ curve' \in Seq(Point) /\ Len(curve') = Len(days)
      /\ days # <<>> => Last(curve').equity = capital + Pnl(days)
  BY <1>2, <1>3, CurveEnds
<1>5. Pnl(days) = Pnl(rows)
  BY <1>0, <1>3, SameProfits DEF ListsInv
<1>6. curve' # <<>> => days # <<>>
  BY <1>3, <1>4
<1>7. Len(reads) = 2
  BY <1>0, <1>1 DEF HandlerInv, Passed
<1>8. ReportTypeOK'
  BY <1>0, <1>1, <1>4 DEF ReportTypeOK, Point
<1>9. ListsInv' /\ HandlerInv' /\ TimesInv' /\ SettledInv'
  <2>1. ListsInv' /\ TimesInv'
    BY <1>0, <1>1 DEF ListsInv, Dates, TimesInv
  <2>2. HandlerInv'
    BY <1>0, <1>1, <1>3, <1>7 DEF HandlerInv, Passed
  <2>3. SettledInv'
    BY <1>0, <1>1 DEF SettledInv
  <2> QED BY <2>1, <2>2, <2>3
<1>10. SumsInv'
  <2>1. curve' # <<>> => /\ Len(curve') = Len(rows)
                         /\ \E c \in Capitals : Last(curve').equity = c + Pnl(rows)
    BY <1>3, <1>4, <1>5, <1>6
  <2> QED BY <1>0, <1>1, <1>7, <2>1 DEF SumsInv, LastDays
<1> QED BY <1>8, <1>9, <1>10 DEF ReportInv

LEMMA StatsAreNumbers ==
  ASSUME trades \in Seq(Booking), now \in Int
  PROVE  ByTicker \in [Tickers -> Int] /\ ByHour \in [0 .. DayLength - 1 -> Int]
<1>1. \A S \in SUBSET InWindow(now) : Total(S) \in Int
  BY WindowIsPart, TotalsAreNumbers, TableOf
<1>2. \A t : Total({i \in InWindow(now) : trades[i].ticker = t}) \in Int
  BY <1>1
<1>3. \A h : Total({i \in InWindow(now) : HourOf(trades[i].at) = h}) \in Int
  BY <1>1
<1> QED BY <1>2, <1>3 DEF ByTicker, ByHour

LEMMA ReadStatsInv ==
  ASSUME ReportInv, ReadStats
  PROVE  ReportInv'
<1>0. ReportTypeOK /\ ListsInv /\ HandlerInv /\ TimesInv /\ SettledInv /\ SumsInv
  BY DEF ReportInv
<1>1. /\ UNCHANGED <<trades, now, rows, days, gain, overall, curve>>
      /\ reads' = Append(reads, Read)
  BY DEF ReadStats, tableVars
<1>2. /\ reads' \in Seq([at : 0 .. now', booked : 0 .. Len(trades')])
      /\ Len(reads') = Len(reads) + 1 /\ Len(reads) \in Nat
      /\ \A k \in 1 .. Len(reads) : reads'[k] = reads[k]
      /\ reads'[Len(reads) + 1] = Read
      /\ reads' # <<>>
      /\ TimesInv'
  BY <1>0, <1>1, ReadAppends
<1>3. trades \in Seq(Booking) /\ now \in Int
  BY <1>0, TypeFacts
<1>4. /\ ByTicker \in [Tickers -> Int] /\ ByHour \in [0 .. DayLength - 1 -> Int]
      /\ SumFunction(ByTicker) = TotalOf(trades, WindowOf(trades, Read))
      /\ SumFunction(ByHour) = TotalOf(trades, WindowOf(trades, Read))
  BY <1>3, StatsAreNumbers, StatsAddUp, WindowIsWhole, TableOf
<1> DEFINE Table == [Tickers -> Int] \cup [0 .. DayLength - 1 -> Int]
           m == Len(stats)
<1>5. /\ m \in Nat /\ stats \in Seq(Table) /\ Len(reads) = m + 2 /\ m < 2
      /\ \/ pc = "tickers" /\ pc' = "hours" /\ m = 0 /\ stats' = <<ByTicker>>
         \/ pc = "hours" /\ pc' = "done" /\ m = 1 /\ stats' = Append(stats, ByHour)
  <2>1. CASE pc = "tickers" /\ stats' = <<ByTicker>> /\ pc' = "hours"
    <3>1. Len(reads) = 2
      BY <1>0, <2>1 DEF HandlerInv, Passed
    <3>2. Len(stats) = 0
      BY <1>0, <3>1 DEF SumsInv
    <3> QED BY <1>0, <2>1, <3>1, <3>2 DEF ListsInv
  <2>2. CASE pc = "hours" /\ stats' = Append(stats, ByHour) /\ pc' = "done"
    <3>1. Len(reads) = 3
      BY <1>0, <2>2 DEF HandlerInv, Passed
    <3>2. Len(stats) = 1
      BY <1>0, <3>1 DEF SumsInv
    <3> QED BY <1>0, <2>2, <3>1, <3>2 DEF ListsInv
  <2> QED BY <2>1, <2>2 DEF ReadStats
<1>6. /\ stats' \in Seq(Table) /\ Len(stats') = m + 1
      /\ \A k \in 1 .. m : stats'[k] = stats[k]
      /\ SumFunction(stats'[m + 1]) = TotalOf(trades, WindowOf(trades, Read))
  <2> DEFINE x == ByTicker
             y == ByHour
             Fit(table) == SumFunction(table) = TotalOf(trades, WindowOf(trades, Read))
  <2>1. x \in Table /\ y \in Table /\ Fit(x) /\ Fit(y)
    BY <1>4
  <2>2. \/ m = 0 /\ stats' = <<x>>
        \/ m = 1 /\ stats' = Append(stats, y)
    BY <1>5
  <2>0. stats \in Seq(Table) /\ Len(stats) \in Nat
    BY <1>5
  <2> HIDE DEF x, y, Table, Fit
  <2>3. CASE m = 0 /\ stats' = <<x>>
    <3>1. stats' \in Seq(Table) /\ Len(stats') = 1 /\ stats'[1] = x
      BY <2>1, <2>3
    <3> QED BY <2>1, <2>3, <3>1 DEF Fit
  <2>4. CASE m = 1 /\ stats' = Append(stats, y)
    <3>0. y \in Table /\ stats' = Append(stats, y)
      BY <2>1, <2>4
    <3>1. /\ stats' \in Seq(Table) /\ Len(stats') = m + 1 /\ stats'[m + 1] = y
          /\ \A k \in 1 .. m : stats'[k] = stats[k]
      BY <2>0, <3>0
    <3> QED BY <2>1, <3>1 DEF Fit
  <2> QED BY <2>2, <2>3, <2>4
<1> HIDE DEF m, Table
<1>7. ReportTypeOK'
  <2>1. pc' \in {"hours", "done"} /\ Len(stats') <= 2
    BY <1>5, <1>6
  <2> QED BY <1>0, <1>1, <1>2, <2>1 DEF ReportTypeOK
<1>8. ListsInv'
  <2>1. Dates' = Dates
    BY <1>1 DEF Dates
  <2> QED BY <1>0, <1>1, <1>6, <2>1 DEF ListsInv, Table
<1>9. Len(reads') = m + 3 /\ Len(reads') \in Nat
  BY <1>2, <1>5
<1>10. HandlerInv'
  <2>1. CASE pc = "tickers" /\ pc' = "hours" /\ m = 0
    <3>1. Len(reads') = 3
      BY <1>9, <2>1
    <3> QED BY <1>0, <1>1, <2>1, <3>1 DEF HandlerInv, Passed
  <2>2. CASE pc = "hours" /\ pc' = "done" /\ m = 1
    <3>1. Len(reads') = 4
      BY <1>9, <2>2
    <3> QED BY <1>0, <1>1, <2>2, <3>1 DEF HandlerInv, Passed
  <2> QED BY <1>5, <2>1, <2>2
<1>11. 1 \in 1 .. Len(reads) /\ 2 \in 1 .. Len(reads) /\ reads # <<>>
  BY <1>5
<1>12. SettledInv'
  <2>1. PastStays
    BY <1>1, <1>2, <1>11, SameTableStays
  <2>2. /\ \A i \in 1 .. Len(rows) : Counted(trades', reads', rows[i])
        /\ \A i \in 1 .. Len(days) :
              Counted(trades', reads', days[i]) /\ Halved(trades', reads', days[i])
        /\ \A i \in 1 .. Len(overall) :
              Counted(trades', reads', overall[i]) /\ Halved(trades', reads', overall[i])
    BY <1>0, <2>1, SettledStay
  <2>3. pc' # "loss"
    BY <1>5
  <2> QED BY <1>1, <2>2, <2>3 DEF SettledInv
<1>13. SumsInv'
  <2>1. LastDays = 2 /\ LastDays' = 2
    BY <1>5, <1>9 DEF LastDays
  <2>2. reads'[1] = reads[1] /\ reads'[2] = reads[2]
    BY <1>2, <1>11
  <2>3. Len(rows) < Limit => Pnl(rows) = TotalOf(trades, 1 .. reads'[2].booked)
    BY <1>0, <1>11, <2>1, <2>2 DEF SumsInv
  <2>4. Len(reads) >= 2
    BY <1>5
  <2>5. Len(overall) < Limit => Pnl(overall) = TotalOf(trades, 1 .. reads'[1].booked)
    BY <1>0, <2>2, <2>4 DEF SumsInv
  <2>6. Len(rows) < Limit => Len(overall) <= Len(rows)
    BY <1>0, <2>4 DEF SumsInv
  <2>7. curve # <<>> => /\ Len(curve) = Len(rows)
                        /\ \E capital \in Capitals : Last(curve).equity = capital + Pnl(rows)
    BY <1>0, <1>5 DEF SumsInv
  <2>8. Len(stats') = IF Len(reads') <= 2 THEN 0 ELSE Len(reads') - 2
    BY <1>5, <1>6, <1>9
  <2>9. ASSUME NEW k \in 1 .. Len(stats')
        PROVE  SumFunction(stats'[k]) = TotalOf(trades, WindowOf(trades, reads'[k + 2]))
    <3>1. CASE k = m + 1
      <4>1. reads'[k + 2] = Read
        BY <1>2, <1>5, <3>1
      <4> QED BY <1>6, <3>1, <4>1
    <3>2. CASE k # m + 1
      <4>1. k \in 1 .. m /\ k + 2 \in 1 .. Len(reads)
        BY <1>5, <1>6, <3>2
      <4>2. SumFunction(stats[k]) = TotalOf(trades, WindowOf(trades, reads[k + 2]))
        BY <1>0, <4>1 DEF SumsInv, m
      <4> QED BY <1>2, <1>6, <4>1, <4>2
    <3> QED BY <3>1, <3>2
  <2> QED BY <1>1, <2>1, <2>3, <2>5, <2>6, <2>7, <2>8, <2>9 DEF SumsInv
<1> QED BY <1>2, <1>7, <1>8, <1>10, <1>12, <1>13 DEF ReportInv

LEMMA ReportInitInv == ReportInit => ReportInv
<1> SUFFICES ASSUME ReportInit PROVE ReportInv
  OBVIOUS
<1>1. /\ trades = <<>> /\ now = 0 /\ pc = "idle" /\ rows = <<>> /\ days = <<>> /\ gain = 0
      /\ overall = <<>> /\ curve = <<>> /\ stats = <<>> /\ reads = <<>>
  BY DEF ReportInit
<1>2. Cardinality(Dates) = 0
  <2>1. Dates = {}
    BY <1>1 DEF Dates
  <2> QED BY <2>1, FS_EmptySet
<1>3. Len(reads) = 0 /\ Len(trades) = 0 /\ Len(rows) = 0 /\ Len(days) = 0
      /\ Len(overall) = 0 /\ Len(stats) = 0
  BY <1>1
<1>4. ReportTypeOK
  BY <1>1, <1>3 DEF ReportTypeOK
<1>5. ListsInv
  BY <1>1, <1>2, <1>3 DEF ListsInv
<1>6. HandlerInv
  BY <1>1, <1>3 DEF HandlerInv, Passed
<1>7. TimesInv
  BY <1>3 DEF TimesInv
<1>8. SettledInv
  BY <1>1, <1>3 DEF SettledInv
<1>9. SumsInv
  BY <1>1, <1>3 DEF SumsInv
<1> QED BY <1>4, <1>5, <1>6, <1>7, <1>8, <1>9 DEF ReportInv

LEMMA ReportStutterInv ==
  ASSUME ReportInv, UNCHANGED reportVars
  PROVE  ReportInv'
<1>0. ReportTypeOK /\ ListsInv /\ HandlerInv /\ TimesInv /\ SettledInv /\ SumsInv
  BY DEF ReportInv
<1>1. UNCHANGED <<trades, now, pc, rows, days, gain, overall, curve, stats, reads>>
  BY DEF reportVars
<1>2. ReportTypeOK' /\ ListsInv' /\ HandlerInv' /\ TimesInv'
  BY <1>0, <1>1 DEF ReportTypeOK, ListsInv, Dates, HandlerInv, Passed, TimesInv
<1>3. SettledInv' /\ SumsInv'
  BY <1>0, <1>1 DEF SettledInv, Current, SumsInv, LastDays
<1> QED BY <1>2, <1>3 DEF ReportInv

LEMMA ReportNextInv == ReportInv /\ [ReportNext]_reportVars => ReportInv'
BY TickInv, LogTradeInv, ReadDaysInv, ReadGainInv, ReadLossInv, ReadCapitalInv, ReadStatsInv,
   ReportStutterInv DEF ReportNext

LEMMA ReportHolds == ReportSpec => []ReportInv
BY ReportInitInv, ReportNextInv, PTL DEF ReportSpec

-------------------------------------------------------------------------------
(* What the invariant gives.                                                 *)

LEMMA InvSettles == ReportInv => PastDaysAreSettled
<1> SUFFICES ASSUME ReportInv PROVE PastDaysAreSettled
  OBVIOUS
<1>0. ReportTypeOK /\ ListsInv /\ HandlerInv /\ SettledInv /\ trades \in Seq(Booking)
  BY TypeFacts DEF ReportInv
<1>1. ASSUME NEW list \in {days, overall}, NEW i \in 1 .. Len(list),
             list[i].day < DayOf(reads[1].at - 1)
      PROVE  Agrees(list[i])
  <2>1. list[i] \in FullRow /\ Counted(trades, reads, list[i]) /\ Halved(trades, reads, list[i])
    BY <1>0, ListFacts DEF SettledInv
  <2>2. reads # <<>>
    <3>1. list # <<>>
      BY <1>0, ListFacts
    <3> QED BY <1>0, <3>1 DEF HandlerInv, Passed
  <2>3. Past(reads, list[i].day)
    BY <1>1, <2>2 DEF Past
  <2> DEFINE row == list[i]
  <2>4. /\ row \in FullRow
        /\ row.total = Cardinality(On(row.day)) /\ row.wins = Cardinality(Won(On(row.day)))
        /\ row.losses = Cardinality(Lost(On(row.day))) /\ row.pnl = Total(On(row.day))
        /\ row.gain = Total(Won(On(row.day))) /\ row.loss = 0 - Total(Lost(On(row.day)))
    BY <2>1, <2>3, Tables DEF Counted, Halved
  <2> HIDE DEF row
  <2>5. Agrees(row)
    BY <1>0, <2>4, PageAgrees
  <2> QED BY <2>5 DEF row
<1>2. \A list \in {days, overall} : DOMAIN list = 1 .. Len(list)
  BY <1>0 DEF ListsInv
<1> QED BY <1>1, <1>2 DEF PastDaysAreSettled, Agrees

LEMMA InvDiffers == ReportInv => PartsDifferByBooked
<1> SUFFICES ASSUME ReportInv, pc = "done" PROVE PartsDifferByBooked
  BY DEF PartsDifferByBooked
<1>0. ReportTypeOK /\ ListsInv /\ HandlerInv /\ TimesInv /\ SumsInv /\ trades \in Seq(Booking)
  BY TypeFacts DEF ReportInv
<1>1. Len(reads) = 4
  BY <1>0 DEF HandlerInv, Passed
<1>2. 1 \in 1 .. Len(reads) /\ 2 \in 1 .. Len(reads) /\ 3 \in 1 .. Len(reads) /\ 4 \in 1 .. Len(reads)
  BY <1>1
<1> DEFINE t3 == reads[3].at
           t4 == reads[4].at
           b(i) == reads[i].booked
           Left == InWindow(reads[3].at) \ InWindow(reads[4].at)
           Booked(i) == (reads[i].booked + 1) .. reads[i + 1].booked
           n == Len(trades)
           span == Limit * DayLength
           W3 == WindowOf(trades, reads[3])
           W4 == WindowOf(trades, reads[4])
<1>3. /\ n \in Nat /\ t3 \in Nat /\ t4 \in Nat /\ t3 <= t4 /\ span \in Nat \ {0}
      /\ b(1) \in Nat /\ b(2) \in Nat /\ b(3) \in Nat /\ b(4) \in Nat
      /\ b(1) <= b(2) /\ b(2) <= n /\ b(3) <= b(4) /\ b(4) <= n
  <2>1. \A k \in 1 .. Len(reads) : /\ reads[k].at \in Nat
                                   /\ reads[k].booked \in Nat /\ reads[k].booked <= Len(trades)
    BY <1>0, TypeFacts
  <2>2. reads[1].booked <= reads[2].booked /\ reads[3].booked <= reads[4].booked
        /\ reads[3].at <= reads[4].at
    BY <1>0, <1>2 DEF TimesInv
  <2>3. Len(trades) \in Nat /\ Limit * DayLength \in Nat \ {0}
    BY <1>0
  <2> QED BY <1>2, <2>1, <2>2, <2>3
<1>4. \A i \in 1 .. n : trades[i].at \in Nat
  BY <1>0, Bookings
<1>5. /\ \A i \in b(3) + 1 .. n : trades[i].at >= t3 - 1
      /\ \A i \in b(4) + 1 .. n : trades[i].at >= t4 - 1
  <2>1. /\ \A i \in reads[3].booked + 1 .. Len(trades) : reads[3].at - 1 <= trades[i].at
        /\ \A i \in reads[4].booked + 1 .. Len(trades) : reads[4].at - 1 <= trades[i].at
    BY <1>0, <1>2 DEF TimesInv
  <2> QED BY <1>3, <1>4, <2>1
<1>6. /\ W3 = {i \in 1 .. b(3) : trades[i].at >= t3 - span}
      /\ W4 = {i \in 1 .. b(4) : trades[i].at >= t4 - span}
      /\ Left = {i \in 1 .. n : trades[i].at >= t3 - span} \ {i \in 1 .. n : trades[i].at >= t4 - span}
      /\ Booked(3) = b(3) + 1 .. b(4) /\ Booked(1) = b(1) + 1 .. b(2)
  BY <1>0 DEF WindowOf, InWindow
<1>7. SumFunction(stats[1]) = TotalOf(trades, W3) /\ SumFunction(stats[2]) = TotalOf(trades, W4)
  <2>1. Len(stats) = 2
    BY <1>0, <1>1 DEF SumsInv
  <2>2. 1 \in 1 .. Len(stats) /\ 2 \in 1 .. Len(stats) /\ 1 + 2 = 3 /\ 2 + 2 = 4
    BY <2>1
  <2> QED BY <1>0, <2>2 DEF SumsInv
<1>8. Len(curve) \in 1 .. Limit - 1 =>
        /\ Pnl(overall) = TotalOf(trades, 1 .. b(1))
        /\ \E capital \in Capitals : Last(curve).equity = capital + TotalOf(trades, 1 .. b(2))
  <2> SUFFICES ASSUME Len(curve) \in 1 .. Limit - 1
               PROVE  /\ Pnl(overall) = TotalOf(trades, 1 .. b(1))
                      /\ \E capital \in Capitals : Last(curve).equity = capital + TotalOf(trades, 1 .. b(2))
    OBVIOUS
  <2>1. curve # <<>> /\ Len(curve) < Limit
    OBVIOUS
  <2>2. Len(curve) = Len(rows) /\ \E capital \in Capitals : Last(curve).equity = capital + Pnl(rows)
    BY <1>0, <2>1 DEF SumsInv
  <2>3. LastDays = 2 /\ reads # <<>> /\ Len(reads) >= 2
    BY <1>1 DEF LastDays
  <2>4. Len(rows) < Limit
    BY <2>1, <2>2
  <2>5. Pnl(rows) = TotalOf(trades, 1 .. reads[2].booked)
    BY <1>0, <2>3, <2>4 DEF SumsInv
  <2>6. Len(overall) < Limit
    <3>1. Len(overall) <= Len(rows)
      BY <1>0, <2>3, <2>4 DEF SumsInv
    <3>2. Len(overall) \in Nat /\ Len(rows) \in Nat
      BY <1>0, ListFacts
    <3> QED BY <2>4, <3>1, <3>2
  <2>7. Pnl(overall) = TotalOf(trades, 1 .. reads[1].booked)
    BY <1>0, <2>3, <2>6 DEF SumsInv
  <2> QED BY <2>2, <2>5, <2>7
<1> HIDE DEF t3, t4, b, n, span, Left, Booked, W3, W4
<1>9. Booked(3) \ Left = W4 \ W3
  BY <1>3, <1>4, <1>5, <1>6
<1>10. Left \ Booked(3) = W3 \ W4
  BY <1>3, <1>4, <1>5, <1>6
<1>11. W3 \in SUBSET (1 .. n) /\ W4 \in SUBSET (1 .. n)
  BY <1>3, <1>6
<1>12. \A A, B \in SUBSET (1 .. n) :
          /\ TotalOf(trades, A) \in Int
          /\ A \cap B = {} => TotalOf(trades, A \cup B) = TotalOf(trades, A) + TotalOf(trades, B)
  BY <1>0, TotalsAreNumbers, TotalsAdd DEF n
<1>13. SumFunction(stats[2]) - SumFunction(stats[1]) = Total(Booked(3) \ Left) - Total(Left \ Booked(3))
  <2> DEFINE C == W3 \cap W4
             A == W3 \ W4
             B == W4 \ W3
  <2>1. W3 = A \cup C /\ W4 = B \cup C /\ A \cap C = {} /\ B \cap C = {}
        /\ A \in SUBSET (1 .. n) /\ B \in SUBSET (1 .. n) /\ C \in SUBSET (1 .. n)
    BY <1>11
  <2>2. Total(Booked(3) \ Left) = TotalOf(trades, B) /\ Total(Left \ Booked(3)) = TotalOf(trades, A)
    BY <1>9, <1>10, TableOf
  <2> HIDE DEF A, B, C
  <2>3. /\ TotalOf(trades, W3) = TotalOf(trades, A) + TotalOf(trades, C)
        /\ TotalOf(trades, W4) = TotalOf(trades, B) + TotalOf(trades, C)
        /\ TotalOf(trades, A) \in Int /\ TotalOf(trades, B) \in Int /\ TotalOf(trades, C) \in Int
    BY <1>12, <2>1
  <2> QED BY <1>7, <2>2, <2>3
<1>14. Len(curve) \in 1 .. Limit - 1 => \E capital \in Capitals :
          Last(curve).equity - capital - Pnl(overall) = Total(Booked(1))
  <2> DEFINE A == 1 .. b(1)
             B == Booked(1)
  <2>1. /\ A \in SUBSET (1 .. n) /\ B \in SUBSET (1 .. n) /\ A \cap B = {}
        /\ 1 .. b(2) = A \cup B
    BY <1>3, <1>6
  <2> HIDE DEF A, B
  <2>2. /\ TotalOf(trades, 1 .. b(2)) = TotalOf(trades, A) + TotalOf(trades, B)
        /\ TotalOf(trades, A) \in Int /\ TotalOf(trades, B) \in Int
    BY <1>12, <2>1
  <2> SUFFICES ASSUME Len(curve) \in 1 .. Limit - 1
               PROVE  \E capital \in Capitals :
                         Last(curve).equity - capital - Pnl(overall) = Total(Booked(1))
    OBVIOUS
  <2>3. PICK capital \in Capitals : Last(curve).equity = capital + TotalOf(trades, 1 .. b(2))
    BY <1>8
  <2>4. Pnl(overall) = TotalOf(trades, A) /\ capital \in Int
    BY <1>8 DEF A
  <2>5. Total(Booked(1)) = TotalOf(trades, B)
    BY TableOf DEF B
  <2>6. Last(curve).equity - capital - Pnl(overall) = Total(Booked(1))
    BY <2>2, <2>3, <2>4, <2>5
  <2> QED BY <2>6
<1> QED BY <1>13, <1>14 DEF PartsDifferByBooked, Pnl, Left, Booked

(* The variables of a report stay in their ranges: the lists are no longer   *)
(* than `days` asks for, and no read is dated later than now or saw trades   *)
(* that are not there.                                                       *)
THEOREM ReportTypeCorrect == ReportSpec => []ReportTypeOK
<1>1. ReportInv => ReportTypeOK
  BY DEF ReportInv
<1> QED BY <1>1, ReportHolds, PTL

(* What get_daily_summaries reports of a day that had ended is settled,      *)
(* whatever is booked while it is read, by query or, later, as a page.       *)
THEOREM PastDaysSettled == ReportSpec => []PastDaysAreSettled
BY InvSettles, ReportHolds, PTL

(* The parts of one GET /report/daily differ by the trades that came, or     *)
(* left the window, between their queries, and by nothing else.              *)
THEOREM PartsDiffer == ReportSpec => []PartsDifferByBooked
BY InvDiffers, ReportHolds, PTL

===============================================================================
