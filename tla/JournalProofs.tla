---------------------------- MODULE JournalProofs ----------------------------
(***************************************************************************)
(* Theorems about Journal, for every number of results, of attempts and of *)
(* faults, and every size of the channel.                                  *)
(***************************************************************************)
EXTENDS Journal, TLAPS

USE SizesAssumption, NoneAssumption

Increasing(s) == \A i, j \in 1 .. Len(s) : i < j => s[i] < s[j]

(* How far a result has come.                                               *)
Queued(r) == r \in ToSet(chan) \cup ToSet(socket)
Fresh(r) ==
    /\ Post("trade", r) \notin ToSet(audit)
    /\ r \notin ToSet(rows) /\ r \notin ToSet(booked)
Seen(r) ==
    \/ Post("trade", r) \in requests \/ Post("postmortem", r) \in requests
    \/ Post("trade", r) \in ToSet(audit) \/ Post("postmortem", r) \in ToSet(audit)
    \/ r \in ToSet(rows) \/ r \in ToSet(booked) \/ r = current

Types ==
    /\ published \in 0 .. MaxResults
    /\ losses \in SUBSET Results
    /\ socket \in Seq(Results) /\ chan \in Seq(Results)
    /\ opc \in {"down", "recv", "postmortem", "push"}
    /\ current \in Results \cup {None} /\ (current # None <=> opc \in {"postmortem", "push"})
    /\ requests \in SUBSET AllPosts
    /\ up \in BOOLEAN
    /\ llm \in Analyses \cup {None}
    /\ trades \in [Results -> {"none", "row", "book"}]
    /\ audit \in Seq(AllPosts) /\ rows \in Seq(Results) /\ booked \in Seq(Results)

(* What waits is in the order of publication, and behind all that has been  *)
(* taken from the channel; what the orchestrator handles is the last taken. *)
QueueInv ==
    /\ Increasing(chan) /\ Increasing(socket)
    /\ \A r \in ToSet(chan), q \in ToSet(socket) : r < q
    /\ \A r \in Results : Queued(r) \/ Seen(r) => r <= published
    /\ \A r, q \in Results : Seen(r) /\ Queued(q) => r < q
    /\ \A r \in Results : current # None /\ Seen(r) => r <= current

(* Each result is posted once, a post-mortem before the trade; a post       *)
(* waits in requests until its handler has answered.                        *)
PostsInv ==
    /\ \A r \in Results : Post("trade", r) \in requests =>
          IF r = current THEN opc = "push" ELSE r \in orphans
    /\ \A r \in Results : Post("postmortem", r) \in requests =>
          /\ IF r = current THEN opc = "postmortem" ELSE r \in orphans
          /\ Post("postmortem", r) \notin ToSet(audit)
    /\ opc = "postmortem" => Fresh(current)
    /\ llm # None => Post("postmortem", llm.result) \in requests
    /\ \A r \in Results : trades[r] # "none" => Post("trade", r) \in requests
    /\ \A r \in Results : Post("trade", r) \in requests /\ trades[r] = "none" => Fresh(r)
    /\ \A r \in Results : trades[r] = "row" => r \notin ToSet(rows) \cup ToSet(booked)
    /\ \A r \in Results : trades[r] = "book" => r \notin ToSet(booked)

StoresInv ==
    /\ CountedOnce /\ BookedInOrder /\ RuleIsRemembered
    /\ \A r \in Results :
          trades[r] # "none" \/ r \in ToSet(rows) \cup ToSet(booked) =>
              Post("trade", r) \in ToSet(audit) \/ r \in unaudited

Inv == Types /\ QueueInv /\ PostsInv /\ StoresInv

-------------------------------------------------------------------------------
(* Posts and sequences.                                                      *)

LEMMA PostsDiffer ==
  /\ \A r, q : Post("trade", r) # Post("postmortem", q)
  /\ \A r, q : Post("trade", r) = Post("trade", q) => r = q
  /\ \A r, q : Post("postmortem", r) = Post("postmortem", q) => r = q
  /\ \A r \in Results : Post("trade", r) \in AllPosts /\ Post("postmortem", r) \in AllPosts
BY DEF Post, AllPosts

LEMMA AllKinds ==
  ASSUME NEW p \in AllPosts
  PROVE  \E r \in Results : p = Post("trade", r) \/ p = Post("postmortem", r)
BY DEF Post, AllPosts

LEMMA Members ==
  ASSUME NEW S, NEW s \in Seq(S)
  PROVE  /\ ToSet(s) \in SUBSET S
         /\ \A e : e \in ToSet(s) <=> \E i \in 1 .. Len(s) : s[i] = e
         /\ \A e : Contains(s, e) <=> e \in ToSet(s)
<1>1. DOMAIN s = 1 .. Len(s) /\ \A i \in 1 .. Len(s) : s[i] \in S
  OBVIOUS
<1> QED BY <1>1 DEF ToSet, Contains

(* Appending what is not there keeps a sequence without repetitions.        *)
LEMMA Appended ==
  ASSUME NEW S, NEW s \in Seq(S), NEW e \in S
  PROVE  /\ Append(s, e) \in Seq(S)
         /\ ToSet(Append(s, e)) = ToSet(s) \cup {e}
         /\ IsInjective(s) /\ e \notin ToSet(s) => IsInjective(Append(s, e))
<1> DEFINE t == Append(s, e)
<1>1. t \in Seq(S) /\ Len(t) = Len(s) + 1 /\ Len(s) \in Nat
  OBVIOUS
<1>2. /\ \A i \in 1 .. Len(s) : s[i] \in S /\ t[i] = s[i]
      /\ t[Len(s) + 1] = e
  OBVIOUS
<1>3. DOMAIN s = 1 .. Len(s) /\ DOMAIN t = 1 .. Len(s) + 1
  BY <1>1
<1> HIDE DEF t
<1>4. ToSet(t) = ToSet(s) \cup {e}
  BY <1>1, <1>2, <1>3 DEF ToSet
<1>5. ASSUME IsInjective(s), e \notin ToSet(s) PROVE IsInjective(t)
  <2> SUFFICES ASSUME NEW a \in 1 .. Len(s) + 1, NEW b \in 1 .. Len(s) + 1, t[a] = t[b]
               PROVE  a = b
    BY <1>3 DEF IsInjective
  <2>1. \A i \in 1 .. Len(s) : s[i] # e
    BY <1>3, <1>5 DEF ToSet
  <2>2. \A i, j \in 1 .. Len(s) : s[i] = s[j] => i = j
    BY <1>3, <1>5 DEF IsInjective
  <2> QED BY <1>1, <1>2, <2>1, <2>2
<1> QED BY <1>1, <1>4, <1>5 DEF t

LEMMA AppendedLater ==
  ASSUME NEW s \in Seq(Results), NEW e \in Results, Increasing(s), \A r \in ToSet(s) : r < e
  PROVE  Increasing(Append(s, e))
<1> DEFINE t == Append(s, e)
<1>1. Len(t) = Len(s) + 1 /\ Len(s) \in Nat
  OBVIOUS
<1>2. /\ \A i \in 1 .. Len(s) : s[i] \in Results /\ t[i] = s[i]
      /\ t[Len(s) + 1] = e
  OBVIOUS
<1> HIDE DEF t
<1>3. \A i \in 1 .. Len(s) : s[i] < e
  BY Members
<1>4. \A i, j \in 1 .. Len(s) : i < j => s[i] < s[j]
  BY DEF Increasing
<1> SUFFICES ASSUME NEW i \in 1 .. Len(t), NEW j \in 1 .. Len(t), i < j PROVE t[i] < t[j]
  BY DEF Increasing, t
<1>5. i \in 1 .. Len(s)
  BY <1>1
<1>6. CASE j = Len(s) + 1
  BY <1>2, <1>3, <1>5, <1>6
<1>7. CASE j \in 1 .. Len(s)
  BY <1>2, <1>4, <1>5, <1>7
<1> QED BY <1>1, <1>6, <1>7

(* The first of an increasing sequence is less than all the rest.           *)
LEMMA Taken ==
  ASSUME NEW s \in Seq(Results), s # <<>>, Increasing(s)
  PROVE  /\ Head(s) \in Results /\ Tail(s) \in Seq(Results)
         /\ ToSet(s) = {Head(s)} \cup ToSet(Tail(s))
         /\ \A r \in ToSet(Tail(s)) : Head(s) < r
         /\ Increasing(Tail(s))
<1> DEFINE h == Head(s)
           t == Tail(s)
<1>1. /\ h \in Results /\ t \in Seq(Results) /\ Len(s) \in Nat \ {0}
      /\ Len(t) = Len(s) - 1 /\ h = s[1]
      /\ \A i \in 1 .. Len(t) : t[i] = s[i + 1]
  OBVIOUS
<1> HIDE DEF h, t
<1>2. \A i, j \in 1 .. Len(s) : i < j => s[i] < s[j]
  BY DEF Increasing
<1>3. \A e : e \in ToSet(t) <=> \E i \in 1 .. Len(t) : t[i] = e
  BY <1>1, Members
<1>4. \A e : e \in ToSet(s) <=> \E i \in 1 .. Len(s) : s[i] = e
  BY Members
<1>5. ASSUME NEW e \in ToSet(t) PROVE h < e /\ e \in ToSet(s)
  <2>1. PICK i \in 1 .. Len(t) : t[i] = e
    BY <1>3
  <2>2. i + 1 \in 1 .. Len(s) /\ 1 \in 1 .. Len(s) /\ 1 < i + 1 /\ s[i + 1] = e
    BY <1>1, <2>1
  <2> QED BY <1>1, <1>2, <1>4, <2>2
<1>6. ASSUME NEW e \in ToSet(s), e # h PROVE e \in ToSet(t)
  <2>1. PICK i \in 1 .. Len(s) : s[i] = e
    BY <1>4
  <2>2. i - 1 \in 1 .. Len(t) /\ (i - 1) + 1 = i
    BY <1>1, <1>6, <2>1
  <2> QED BY <1>1, <1>3, <2>1, <2>2
<1>7. h \in ToSet(s)
  BY <1>1, <1>4
<1>8. Increasing(t)
  <2> SUFFICES ASSUME NEW i \in 1 .. Len(t), NEW j \in 1 .. Len(t), i < j PROVE t[i] < t[j]
    BY DEF Increasing
  <2>1. i + 1 \in 1 .. Len(s) /\ j + 1 \in 1 .. Len(s) /\ i + 1 < j + 1
    BY <1>1
  <2> QED BY <1>1, <1>2, <2>1
<1>9. ToSet(s) = {h} \cup ToSet(t)
  BY <1>5, <1>6, <1>7
<1> QED BY <1>1, <1>5, <1>8, <1>9 DEF h, t

LEMMA NoneWaits == ToSet(<<>>) = {} /\ Increasing(<<>>) /\ <<>> \in Seq(Results)
BY DEF ToSet, Increasing

-------------------------------------------------------------------------------
(* What an action keeps if it takes nothing from the channel, writes to no  *)
(* store, or only answers.                                                  *)

LEMMA QueueKept ==
  ASSUME Types, QueueInv, UNCHANGED <<published, chan, socket>>, current' \in {current, None},
         \A r \in Results : Seen(r)' => Seen(r)
  PROVE  QueueInv'
BY DEF QueueInv, Queued, Increasing

LEMMA StoresKept ==
  ASSUME Types, StoresInv, UNCHANGED <<memory, audit, rows, booked, table>>,
         rules' \in SUBSET rules, \A r \in Results : trades'[r] \in {trades[r], "none"},
         orphans \subseteq orphans', unaudited \subseteq unaudited'
  PROVE  StoresInv'
<1>1. CountedOnce' /\ RuleIsRemembered'
  BY DEF StoresInv, CountedOnce, RuleIsRemembered, IsInjective
<1>2. BookedInOrder'
  BY DEF StoresInv, BookedInOrder
<1> QED BY <1>1, <1>2 DEF StoresInv

(* The sender of a post-mortem goes on to push the trade, that of a trade   *)
(* to receive; a sender that has died does not notice.                      *)
LEMMA Answered ==
  ASSUME Types, PostsInv, NEW r \in Results, NEW what \in {"trade", "postmortem"},
         Post(what, r) \in requests, Answer(what, r)
  PROVE  /\ requests' \in SUBSET AllPosts
         /\ opc' \in {"down", "recv", "postmortem", "push"}
         /\ current' \in {current, None} /\ (current' # None <=> opc' \in {"postmortem", "push"})
         /\ Post(what, r) \notin requests'
         /\ requests \ {Post(what, r)} \subseteq requests'
         /\ \A p \in requests' : p \in requests \/
               (p = Post("trade", r) /\ what = "postmortem" /\ current = r /\ opc = "postmortem")
         /\ \A q \in Results : Post("trade", q) \in requests' =>
               IF q = current' THEN opc' = "push" ELSE q \in orphans
         /\ \A q \in Results : Post("postmortem", q) \in requests' =>
               IF q = current' THEN opc' = "postmortem" ELSE q \in orphans
         /\ opc' = "postmortem" => opc = "postmortem" /\ current' = current
<1>1. CASE current # r
  BY <1>1, PostsDiffer DEF Answer, Types, PostsInv
<1>2. CASE current = r /\ what = "postmortem"
  <2>1. opc = "postmortem" /\ r # None
    BY <1>2 DEF PostsInv, Types
  <2>2. /\ opc' = "push" /\ current' = current
        /\ requests' = (requests \ {Post("postmortem", r)}) \cup {Post("trade", r)}
    BY <1>2 DEF Answer
  <2> QED BY <1>2, <2>1, <2>2, PostsDiffer DEF Types, PostsInv
<1>3. CASE current = r /\ what = "trade"
  <2>1. opc' = "recv" /\ current' = None /\ requests' = requests \ {Post("trade", r)}
    BY <1>3 DEF Answer
  <2>2. opc = "push"
    BY <1>3 DEF PostsInv
  <2>3. ASSUME NEW q \in Results, NEW w \in {"trade", "postmortem"}, Post(w, q) \in requests'
        PROVE  q # r /\ q \in orphans
    BY <1>3, <2>1, <2>2, <2>3, PostsDiffer DEF PostsInv
  <2>4. \A q \in Results : q # current'
    BY <2>1 DEF Results
  <2>5. requests' \in SUBSET AllPosts
    BY <2>1 DEF Types
  <2> QED BY <1>3, <2>1, <2>3, <2>4, <2>5
<1> QED BY <1>1, <1>2, <1>3

-------------------------------------------------------------------------------
LEMMA InitInv == Init => Inv
<1> SUFFICES ASSUME Init PROVE Inv
  OBVIOUS
<1>1. Types
  <2>1. <<>> \in Seq(Results) /\ <<>> \in Seq(AllPosts) /\ {} \in SUBSET AllPosts
    OBVIOUS
  <2>2. trades \in [Results -> {"none", "row", "book"}]
    BY DEF Init
  <2>3. 0 \in 0 .. MaxResults
    OBVIOUS
  <2> QED BY <2>1, <2>2, <2>3 DEF Init, Types
<1>2. QueueInv
  BY NoneWaits DEF Init, QueueInv, Queued, Seen
<1>3. PostsInv
  BY DEF Init, PostsInv
<1>4. StoresInv
  BY NoneWaits DEF Init, StoresInv, CountedOnce, BookedInOrder, RuleIsRemembered, IsInjective
<1> QED BY <1>1, <1>2, <1>3, <1>4 DEF Inv

LEMMA PublishInv == Inv /\ Publish => Inv'
<1> SUFFICES ASSUME Inv, Publish PROVE Inv'
  OBVIOUS
<1> USE DEF Inv
<1>a. /\ published' = published + 1 /\ published' \in Results
      /\ UNCHANGED <<losses, chan, opc, current, requests, up, llm, trades, storeVars, orphans, unaudited>>
      /\ socket' = socket \/ socket' = Append(socket, published + 1)
  BY DEF Publish, Types, Results
<1>1. /\ socket' \in Seq(Results) /\ ToSet(socket') \in SUBSET (ToSet(socket) \cup {published'})
      /\ Increasing(socket')
  <2>1. \A r \in ToSet(socket) : r \in Results /\ r < published'
    BY <1>a, Members DEF QueueInv, Queued, Types, Results
  <2>2. CASE socket' = socket
    BY <2>2 DEF Types, QueueInv
  <2>3. CASE socket' = Append(socket, published')
    BY <1>a, <2>1, <2>3, Appended, AppendedLater DEF Types, QueueInv
  <2> QED BY <1>a, <2>2, <2>3
<1>2. Types'
  BY <1>1, <1>a DEF Types, storeVars, Results
<1>3. QueueInv'
  <2>1. \A r \in Results : Seen(r)' <=> Seen(r)
    BY <1>a DEF Seen, storeVars
  <2>2. \A r \in ToSet(chan) \cup ToSet(socket) : r \in Results /\ r <= published
    BY Members DEF Types, QueueInv, Queued
  <2>3. \A r \in Results : Queued(r)' => Queued(r) \/ r = published'
    BY <1>1, <1>a DEF Queued
  <2>4. published \in Nat /\ published' = published + 1
    BY <1>a DEF Types
  <2>5. \A r \in ToSet(chan'), q \in ToSet(socket') : r < q
    BY <1>1, <1>a, <2>2, <2>4 DEF QueueInv, Results
  <2>6. \A r \in Results : Queued(r)' \/ Seen(r)' => r <= published'
    BY <2>1, <2>3, <2>4 DEF QueueInv, Results
  <2>7. \A r, q \in Results : Seen(r)' /\ Queued(q)' => r < q
    BY <2>1, <2>3, <2>4 DEF QueueInv, Results
  <2>8. \A r \in Results : current' # None /\ Seen(r)' => r <= current'
    BY <1>a, <2>1 DEF QueueInv
  <2>9. Increasing(chan)'
    BY <1>a DEF QueueInv, Increasing
  <2> QED BY <1>1, <2>5, <2>6, <2>7, <2>8, <2>9 DEF QueueInv, Increasing
<1>4. PostsInv'
  BY <1>a DEF PostsInv, Fresh, storeVars
<1>5. StoresInv'
  BY <1>a, StoresKept DEF storeVars
<1> QED BY <1>2, <1>3, <1>4, <1>5

LEMMA SubscriptionInv == Inv /\ Subscription => Inv'
<1> SUFFICES ASSUME Inv, Subscription PROVE Inv'
  OBVIOUS
<1> USE DEF Inv
<1> DEFINE h == Head(socket)
<1>a. /\ socket # <<>> /\ socket' = Tail(socket) /\ chan' \in {chan, Append(chan, h)}
      /\ UNCHANGED <<published, losses, opc, current, requests, up, llm, trades, storeVars, orphans, unaudited>>
  BY DEF Subscription, Enqueue, GiveUp, historyVars
<1>b. /\ h \in Results /\ socket' \in Seq(Results) /\ ToSet(socket) = {h} \cup ToSet(socket')
      /\ \A r \in ToSet(socket') : h < r
      /\ Increasing(socket')
  BY <1>a, Taken DEF Types, QueueInv
<1> HIDE DEF h
<1>1. /\ chan' \in Seq(Results) /\ ToSet(chan') \in SUBSET (ToSet(chan) \cup {h}) /\ Increasing(chan')
  <2>1. CASE chan' = chan
    BY <2>1 DEF Types, QueueInv
  <2>2. CASE chan' = Append(chan, h)
    <3>1. \A r \in ToSet(chan) : r < h
      BY <1>b DEF QueueInv
    <3> QED BY <1>b, <2>2, <3>1, Appended, AppendedLater DEF Types, QueueInv
  <2> QED BY <1>a, <2>1, <2>2
<1>2. Types'
  BY <1>1, <1>a, <1>b DEF Types, storeVars
<1>3. QueueInv'
  <2>1. \A r \in Results : Seen(r)' <=> Seen(r)
    BY <1>a DEF Seen, storeVars
  <2>2. \A r \in Results : Queued(r)' => Queued(r)
    BY <1>1, <1>b DEF Queued
  <2>3. \A r \in ToSet(chan'), q \in ToSet(socket') : r < q
    BY <1>1, <1>b DEF QueueInv
  <2> QED BY <1>1, <1>a, <1>b, <2>1, <2>2, <2>3 DEF QueueInv
<1>4. PostsInv'
  BY <1>a DEF PostsInv, Fresh, storeVars
<1>5. StoresInv'
  BY <1>a, StoresKept DEF storeVars
<1> QED BY <1>2, <1>3, <1>4, <1>5

LEMMA ReceiveInv == Inv /\ Receive => Inv'
<1> SUFFICES ASSUME Inv, Receive PROVE Inv'
  OBVIOUS
<1> USE DEF Inv
<1> DEFINE h == Head(chan)
<1>a. /\ opc = "recv" /\ chan # <<>> /\ chan' = Tail(chan) /\ current = None
      /\ UNCHANGED <<published, losses, socket, up, llm, trades, storeVars, orphans, unaudited>>
      /\ \/ opc' = "postmortem" /\ current' = h /\ requests' = requests \cup {Post("postmortem", h)}
         \/ opc' = "push" /\ current' = h /\ requests' = requests \cup {Post("trade", h)}
         \/ opc' = "recv" /\ current' = None /\ requests' = requests
  BY DEF Receive, RunPostMortem, PushTradeToDash, Types
<1>b. /\ h \in Results /\ chan' \in Seq(Results) /\ ToSet(chan) = {h} \cup ToSet(chan')
      /\ \A r \in ToSet(chan') : h < r
      /\ Increasing(chan')
  BY <1>a, Taken DEF Types, QueueInv
<1>c. \A r \in Results : Seen(r) => r < h
  BY <1>b DEF QueueInv, Queued
<1>d. ~Seen(h)
  BY <1>b, <1>c DEF Results
<1> HIDE DEF h
<1>2. Types'
  <2>1. h # None
    BY <1>b DEF Results
  <2>2. requests' \in SUBSET AllPosts
    BY <1>a, <1>b, PostsDiffer DEF Types
  <2> QED BY <1>a, <1>b, <2>1, <2>2 DEF Types, storeVars
<1>3. QueueInv'
  <2>1. \A r \in Results : Seen(r)' => Seen(r) \/ r = h
    BY <1>a, <1>b, PostsDiffer DEF Seen, storeVars
  <2>2. \A r \in Results : Queued(r)' => Queued(r) /\ h < r
    <3>1. \A r \in ToSet(chan), q \in ToSet(socket) : r < q
      BY DEF QueueInv
    <3> QED BY <1>a, <1>b, <3>1 DEF Queued
  <2>3. h <= published /\ Queued(h)
    BY <1>b DEF QueueInv, Queued
  <2>4. \A r \in ToSet(chan'), q \in ToSet(socket') : r < q
    BY <1>a, <1>b DEF QueueInv
  <2>5. \A r \in Results : Queued(r)' \/ Seen(r)' => r <= published'
    BY <1>a, <2>1, <2>2, <2>3 DEF QueueInv
  <2>6. \A r, q \in Results : Seen(r)' /\ Queued(q)' => r < q
    BY <2>1, <2>2 DEF QueueInv
  <2>7. \A r \in Results : current' # None /\ Seen(r)' => r <= current'
    BY <1>a, <1>b, <1>c, <2>1 DEF Results
  <2>8. Increasing(socket)'
    BY <1>a DEF QueueInv, Increasing
  <2> QED BY <1>b, <2>4, <2>5, <2>6, <2>7, <2>8 DEF QueueInv, Increasing
<1>4. PostsInv'
  <2>1. Fresh(h) /\ Post("postmortem", h) \notin ToSet(audit)
        /\ Post("trade", h) \notin requests /\ Post("postmortem", h) \notin requests
    BY <1>d DEF Seen, Fresh
  <2>2. \A r \in Results : trades[r] # "none" => r # h
    BY <2>1 DEF PostsInv
  <2>3. \A r \in Results : Fresh(r)' <=> Fresh(r)
    BY <1>a DEF Fresh, storeVars
  <2>4. opc' = "postmortem" => Fresh(current)'
    BY <1>a, <2>1 DEF Fresh, storeVars
  <2> QED BY <1>a, <1>b, <2>1, <2>2, <2>3, <2>4, PostsDiffer DEF PostsInv, storeVars, Types
<1>5. StoresInv'
  BY <1>a, StoresKept DEF storeVars
<1> QED BY <1>2, <1>3, <1>4, <1>5

-------------------------------------------------------------------------------
(* POST /postmortem.                                                         *)

LEMMA RunPostmortemInv == ASSUME Inv, NEW r \in Results, RunPostmortem(r) PROVE Inv'
<1> USE DEF Inv
<1>a. /\ Post("postmortem", r) \in requests
      /\ llm' = [result |-> r, attempt |-> 1, at |-> "ask"]
      /\ UNCHANGED <<published, losses, orchVars, requests, up, trades, storeVars, historyVars>>
  BY DEF RunPostmortem
<1>1. Types'
  <2>1. llm' \in Analyses
    BY <1>a DEF Analyses
  <2> QED BY <1>a, <2>1 DEF Types, orchVars, storeVars
<1>2. QueueInv'
  BY <1>a DEF QueueInv, Queued, Seen, Increasing, orchVars, storeVars
<1>3. PostsInv'
  BY <1>a DEF PostsInv, Fresh, orchVars, storeVars, historyVars
<1>4. StoresInv'
  BY <1>a, StoresKept DEF storeVars, historyVars
<1> QED BY <1>1, <1>2, <1>3, <1>4

(* An attempt more, or the answer without a record.                         *)
LEMMA AttemptInv == Inv /\ (AttemptFails \/ AnswerIsUseless) => Inv'
<1> SUFFICES ASSUME Inv, AttemptFails \/ AnswerIsUseless PROVE Inv'
  OBVIOUS
<1> USE DEF Inv
<1>a. /\ llm # None /\ llm \in Analyses
      /\ UNCHANGED <<published, losses, socket, chan, up, trades, storeVars, historyVars>>
      /\ \/ /\ llm.attempt < Attempts /\ llm' = [llm EXCEPT !.attempt = @ + 1]
            /\ UNCHANGED <<opc, current, requests>>
         \/ llm' = None /\ Answer("postmortem", llm.result)
  BY DEF AttemptFails, AnswerIsUseless, Asking, Types
<1> DEFINE r == llm.result
<1>b. r \in Results /\ Post("postmortem", r) \in requests
  BY <1>a DEF PostsInv, Analyses
<1>4. StoresInv'
  BY <1>a, StoresKept DEF storeVars, historyVars
<1>5. CASE /\ llm.attempt < Attempts /\ llm' = [llm EXCEPT !.attempt = @ + 1]
           /\ UNCHANGED <<opc, current, requests>>
  <2>1. llm' \in Analyses /\ llm'.result = r
    BY <1>a, <1>5 DEF Analyses
  <2>2. Types'
    BY <1>a, <1>5, <2>1 DEF Types, storeVars
  <2>3. QueueInv'
    BY <1>a, <1>5 DEF QueueInv, Queued, Seen, Increasing, storeVars
  <2>4. PostsInv'
    BY <1>a, <1>b, <1>5, <2>1 DEF PostsInv, Fresh, storeVars, historyVars
  <2> QED BY <1>4, <2>2, <2>3, <2>4
<1>6. CASE llm' = None /\ Answer("postmortem", r)
  <2> HIDE DEF r
  <2>1. /\ requests' \in SUBSET AllPosts
        /\ opc' \in {"down", "recv", "postmortem", "push"}
        /\ current' \in {current, None} /\ (current' # None <=> opc' \in {"postmortem", "push"})
        /\ requests \ {Post("postmortem", r)} \subseteq requests'
        /\ \A p \in requests' : p \in requests \/
              (p = Post("trade", r) /\ current = r /\ opc = "postmortem")
        /\ \A q \in Results : Post("trade", q) \in requests' =>
              IF q = current' THEN opc' = "push" ELSE q \in orphans
        /\ \A q \in Results : Post("postmortem", q) \in requests' =>
              IF q = current' THEN opc' = "postmortem" ELSE q \in orphans
        /\ opc' = "postmortem" => opc = "postmortem" /\ current' = current
    BY <1>b, <1>6, Answered
  <2>2. Types'
    BY <1>a, <1>6, <2>1 DEF Types, storeVars
  <2>3. QueueInv'
    <3>1. \A q \in Results : Seen(q)' => Seen(q)
      BY <1>a, <1>b, <2>1, PostsDiffer DEF Seen, storeVars, Types, Results
    <3> QED BY <1>a, <2>1, <3>1, QueueKept
  <2>4. PostsInv'
    <3>1. \A q \in Results : Fresh(q)' <=> Fresh(q)
      BY <1>a DEF Fresh, storeVars
    <3>2. \A q \in Results : trades'[q] # "none" => Post("trade", q) \in requests'
      BY <1>a, <2>1, PostsDiffer DEF PostsInv
    <3>3. \A q \in Results : Post("trade", q) \in requests' /\ trades'[q] = "none" => Fresh(q)'
      BY <1>a, <1>b, <2>1, <3>1, PostsDiffer DEF PostsInv
    <3>4. opc' = "postmortem" => Fresh(current)'
      BY <1>a, <2>1 DEF PostsInv, Fresh, storeVars
    <3>5. \A q \in Results : Post("postmortem", q) \in requests' =>
            Post("postmortem", q) \notin ToSet(audit')
      BY <1>a, <2>1, PostsDiffer DEF PostsInv, storeVars
    <3> QED BY <1>a, <1>6, <2>1, <3>2, <3>3, <3>4, <3>5 DEF PostsInv, storeVars, historyVars
  <2> QED BY <1>4, <2>2, <2>3, <2>4
<1> QED BY <1>a, <1>5, <1>6

LEMMA RememberInv == Inv /\ Remember => Inv'
<1> SUFFICES ASSUME Inv, Remember PROVE Inv'
  OBVIOUS
<1> USE DEF Inv
<1>a. /\ llm \in Analyses /\ llm' = [llm EXCEPT !.at = "audit"]
      /\ memory' = memory \cup {llm.result} /\ rules' = rules \cup {llm.result}
      /\ UNCHANGED <<published, losses, orchVars, requests, up, trades, audit, rows, booked, table,
                     historyVars>>
  BY DEF Remember, Asking, Types
<1>b. llm' \in Analyses /\ llm'.result = llm.result /\ llm # None
  BY <1>a DEF Analyses, Remember, Asking
<1>1. Types'
  BY <1>a, <1>b DEF Types, orchVars
<1>2. QueueInv'
  BY <1>a DEF QueueInv, Queued, Seen, Increasing, orchVars
<1>3. PostsInv'
  BY <1>a, <1>b DEF PostsInv, Fresh, orchVars, historyVars
<1>4. StoresInv'
  BY <1>a DEF StoresInv, CountedOnce, BookedInOrder, RuleIsRemembered, IsInjective, historyVars
<1> QED BY <1>1, <1>2, <1>3, <1>4

LEMMA AuditPostmortemInv == Inv /\ AuditPostmortem => Inv'
<1> SUFFICES ASSUME Inv, AuditPostmortem PROVE Inv'
  OBVIOUS
<1> USE DEF Inv
<1> DEFINE r == llm.result
           p == Post("postmortem", r)
<1>a. /\ llm # None /\ llm \in Analyses
      /\ UNCHANGED <<published, losses, socket, chan, up, trades, memory, rows, booked, rules, table,
                     historyVars>>
      /\ llm' = None /\ Answer("postmortem", r)
      /\ audit' = audit \/ audit' = Append(audit, p)
  BY DEF AuditPostmortem, Types
<1>b. r \in Results /\ p \in requests /\ p \in AllPosts /\ p \notin ToSet(audit)
  BY <1>a, PostsDiffer DEF PostsInv, Analyses
<1> HIDE DEF r
<1>c. /\ audit' \in Seq(AllPosts) /\ IsInjective(audit')
      /\ ToSet(audit) \subseteq ToSet(audit') /\ ToSet(audit') \subseteq ToSet(audit) \cup {p}
  <2>1. audit \in Seq(AllPosts) /\ IsInjective(audit)
    BY DEF Types, StoresInv, CountedOnce
  <2>2. CASE audit' = audit
    BY <2>1, <2>2
  <2>3. CASE audit' = Append(audit, p)
    <3> HIDE DEF p
    <3> QED BY <1>b, <2>1, <2>3, Appended
  <2> QED BY <1>a, <2>2, <2>3
<1>d. /\ requests' \in SUBSET AllPosts
      /\ opc' \in {"down", "recv", "postmortem", "push"}
      /\ current' \in {current, None} /\ (current' # None <=> opc' \in {"postmortem", "push"})
      /\ p \notin requests' /\ requests \ {p} \subseteq requests'
      /\ \A x \in requests' : x \in requests \/
            (x = Post("trade", r) /\ current = r /\ opc = "postmortem")
      /\ \A q \in Results : Post("trade", q) \in requests' =>
            IF q = current' THEN opc' = "push" ELSE q \in orphans
      /\ \A q \in Results : Post("postmortem", q) \in requests' =>
            IF q = current' THEN opc' = "postmortem" ELSE q \in orphans
      /\ opc' = "postmortem" => opc = "postmortem" /\ current' = current
  BY <1>a, <1>b, Answered
<1>1. Types'
  BY <1>a, <1>c, <1>d DEF Types
<1>2. QueueInv'
  <2>1. \A q \in Results : Seen(q)' => Seen(q)
    BY <1>a, <1>b, <1>c, <1>d, PostsDiffer DEF Seen, Types, Results
  <2> QED BY <1>a, <1>d, <2>1, QueueKept
<1>3. PostsInv'
  <2>1. \A q \in Results : Fresh(q)' <=> Fresh(q)
    BY <1>a, <1>c, PostsDiffer DEF Fresh
  <2>2. \A q \in Results : trades'[q] # "none" => Post("trade", q) \in requests'
    BY <1>a, <1>d, PostsDiffer DEF PostsInv
  <2>3. \A q \in Results : Post("trade", q) \in requests' /\ trades'[q] = "none" => Fresh(q)'
    BY <1>a, <1>b, <1>d, <2>1, PostsDiffer DEF PostsInv
  <2>4. opc' = "postmortem" => Fresh(current)'
    BY <1>a, <1>c, <1>d, PostsDiffer DEF PostsInv, Fresh
  <2>5. \A q \in Results : Post("postmortem", q) \in requests' =>
          Post("postmortem", q) \notin ToSet(audit')
    BY <1>c, <1>d, PostsDiffer DEF PostsInv
  <2> QED BY <1>a, <1>d, <2>2, <2>3, <2>4, <2>5 DEF PostsInv, historyVars
<1>4. StoresInv'
  BY <1>a, <1>c DEF StoresInv, CountedOnce, BookedInOrder, RuleIsRemembered, IsInjective, historyVars
<1> QED BY <1>1, <1>2, <1>3, <1>4

LEMMA SaveRuleInv == ASSUME Inv, NEW r \in Results, SaveRule(r) PROVE Inv'
<1> USE DEF Inv
<1>a. /\ r \in rules /\ rules' = rules \ {r} /\ table' \in {table, table \cup {r}}
      /\ UNCHANGED <<published, losses, orchVars, requests, up, llm, trades, memory, audit, rows,
                     booked, historyVars>>
  BY DEF SaveRule
<1>1. Types'
  BY <1>a DEF Types, orchVars
<1>2. QueueInv'
  BY <1>a DEF QueueInv, Queued, Seen, Increasing, orchVars
<1>3. PostsInv'
  BY <1>a DEF PostsInv, Fresh, orchVars, historyVars
<1>4. StoresInv'
  BY <1>a DEF StoresInv, CountedOnce, BookedInOrder, RuleIsRemembered, IsInjective, historyVars
<1> QED BY <1>1, <1>2, <1>3, <1>4

-------------------------------------------------------------------------------
(* POST /dash/trade.                                                         *)

LEMMA LogTradeInv == ASSUME Inv, NEW r \in Results, LogTrade(r) PROVE Inv'
<1> USE DEF Inv
<1> DEFINE p == Post("trade", r)
<1>a. /\ p \in requests /\ trades[r] = "none"
      /\ trades' = [trades EXCEPT ![r] = "row"]
      /\ UNCHANGED <<published, losses, orchVars, requests, up, llm, memory, rows, booked, rules,
                     table, lost, orphans>>
      /\ \/ audit' = Append(audit, p) /\ unaudited' = unaudited
         \/ audit' = audit /\ unaudited' = unaudited \cup {r}
  BY DEF LogTrade
<1>b. p \in AllPosts /\ p \notin ToSet(audit) /\ r \notin ToSet(rows) /\ r \notin ToSet(booked)
  BY <1>a, PostsDiffer DEF PostsInv, Fresh
<1>c. /\ audit' \in Seq(AllPosts) /\ IsInjective(audit')
      /\ ToSet(audit) \subseteq ToSet(audit') /\ ToSet(audit') \subseteq ToSet(audit) \cup {p}
      /\ p \in ToSet(audit') \/ r \in unaudited'
  <2>1. audit \in Seq(AllPosts) /\ IsInjective(audit)
    BY DEF Types, StoresInv, CountedOnce
  <2>2. CASE audit' = audit /\ unaudited' = unaudited \cup {r}
    BY <2>1, <2>2
  <2>3. CASE audit' = Append(audit, p)
    <3> HIDE DEF p
    <3> QED BY <1>b, <2>1, <2>3, Appended
  <2> QED BY <1>a, <2>2, <2>3
<1>d. \A q \in Results : trades'[q] = IF q = r THEN "row" ELSE trades[q]
  BY <1>a DEF Types
<1>1. Types'
  BY <1>a, <1>c DEF Types, orchVars
<1>2. QueueInv'
  <2>1. \A q \in Results : Seen(q)' => Seen(q)
    BY <1>a, <1>c, PostsDiffer DEF Seen, orchVars
  <2> QED BY <1>a, <2>1, QueueKept DEF orchVars
<1>3. PostsInv'
  <2>1. \A q \in Results : q # r => (Fresh(q)' <=> Fresh(q))
    BY <1>a, <1>c, PostsDiffer DEF Fresh
  <2>2. opc' = "postmortem" => Fresh(current)'
    <3>1. opc' = opc /\ current' = current
      BY <1>a DEF orchVars
    <3>2. opc = "postmortem" => current # r
      BY <1>a DEF PostsInv
    <3> QED BY <2>1, <3>1, <3>2 DEF PostsInv, Types
  <2>3. \A q \in Results : Post("postmortem", q) \in requests' =>
          Post("postmortem", q) \notin ToSet(audit')
    BY <1>a, <1>c, PostsDiffer DEF PostsInv
  <2> QED BY <1>a, <1>b, <1>d, <2>1, <2>2, <2>3 DEF PostsInv, orchVars
<1>4. StoresInv'
  <2>1. CountedOnce' /\ RuleIsRemembered'
    BY <1>a, <1>c DEF StoresInv, CountedOnce, RuleIsRemembered, IsInjective
  <2>2. BookedInOrder'
    BY <1>a DEF StoresInv, BookedInOrder
  <2>3. unaudited \subseteq unaudited'
    BY <1>a
  <2> QED BY <1>a, <1>c, <1>d, <2>1, <2>2, <2>3 DEF StoresInv
<1> QED BY <1>1, <1>2, <1>3, <1>4

LEMMA InsertTradeInv == ASSUME Inv, NEW r \in Results, InsertTrade(r) PROVE Inv'
<1> USE DEF Inv
<1>a. /\ trades[r] = "row" /\ trades' = [trades EXCEPT ![r] = "book"]
      /\ UNCHANGED <<published, losses, orchVars, requests, up, llm, memory, audit, booked, rules,
                     table, historyVars>>
      /\ rows' = rows \/ rows' = Append(rows, r)
  BY DEF InsertTrade
<1>b. r \notin ToSet(rows) /\ r \notin ToSet(booked) /\ Post("trade", r) \in requests
  BY <1>a DEF PostsInv
<1>c. /\ rows' \in Seq(Results) /\ IsInjective(rows')
      /\ ToSet(rows) \subseteq ToSet(rows') /\ ToSet(rows') \subseteq ToSet(rows) \cup {r}
  <2>1. rows \in Seq(Results) /\ IsInjective(rows)
    BY DEF Types, StoresInv, CountedOnce
  <2>2. CASE rows' = rows
    BY <2>1, <2>2
  <2>3. CASE rows' = Append(rows, r)
    BY <1>b, <2>1, <2>3, Appended
  <2> QED BY <1>a, <2>2, <2>3
<1>d. \A q \in Results : trades'[q] = IF q = r THEN "book" ELSE trades[q]
  BY <1>a DEF Types
<1>1. Types'
  BY <1>a, <1>c DEF Types, orchVars
<1>2. QueueInv'
  <2>1. \A q \in Results : Seen(q)' => Seen(q)
    BY <1>a, <1>b, <1>c DEF Seen, orchVars
  <2> QED BY <1>a, <2>1, QueueKept DEF orchVars
<1>3. PostsInv'
  <2>1. \A q \in Results : q # r => (Fresh(q)' <=> Fresh(q))
    BY <1>a, <1>c DEF Fresh
  <2>2. opc' = "postmortem" => Fresh(current)'
    <3>1. opc' = opc /\ current' = current
      BY <1>a DEF orchVars
    <3>2. opc = "postmortem" => current # r
      BY <1>b DEF PostsInv
    <3> QED BY <2>1, <3>1, <3>2 DEF PostsInv, Types
  <2> QED BY <1>a, <1>b, <1>c, <1>d, <2>1, <2>2 DEF PostsInv, orchVars, historyVars
<1>4. StoresInv'
  <2>1. CountedOnce' /\ RuleIsRemembered'
    BY <1>a, <1>c DEF StoresInv, CountedOnce, RuleIsRemembered, IsInjective
  <2>2. BookedInOrder'
    BY <1>a DEF StoresInv, BookedInOrder, historyVars
  <2> QED BY <1>a, <1>c, <1>d, <2>1, <2>2 DEF StoresInv, historyVars
<1> QED BY <1>1, <1>2, <1>3, <1>4

LEMMA BookTradeInv == ASSUME Inv, NEW r \in Results, BookTrade(r) PROVE Inv'
<1> USE DEF Inv
<1> DEFINE p == Post("trade", r)
<1>a. /\ trades[r] = "book" /\ trades' = [trades EXCEPT ![r] = "none"]
      /\ booked' = Append(booked, r) /\ Answer("trade", r)
      /\ UNCHANGED <<published, losses, socket, chan, up, llm, memory, audit, rows, rules, table,
                     historyVars>>
  BY DEF BookTrade
<1>b. r \notin ToSet(booked) /\ p \in requests
  BY <1>a DEF PostsInv
<1>c. booked' \in Seq(Results) /\ IsInjective(booked') /\ ToSet(booked') = ToSet(booked) \cup {r}
  <2>1. booked \in Seq(Results) /\ IsInjective(booked)
    BY DEF Types, StoresInv, CountedOnce
  <2> QED BY <1>a, <1>b, <2>1, Appended
<1>d. /\ requests' \in SUBSET AllPosts
      /\ opc' \in {"down", "recv", "postmortem", "push"}
      /\ current' \in {current, None} /\ (current' # None <=> opc' \in {"postmortem", "push"})
      /\ p \notin requests' /\ requests \ {p} \subseteq requests' /\ requests' \subseteq requests
      /\ \A q \in Results : Post("trade", q) \in requests' =>
            IF q = current' THEN opc' = "push" ELSE q \in orphans
      /\ \A q \in Results : Post("postmortem", q) \in requests' =>
            IF q = current' THEN opc' = "postmortem" ELSE q \in orphans
      /\ opc' = "postmortem" => opc = "postmortem" /\ current' = current
  BY <1>a, <1>b, Answered
<1>e. \A q \in Results : trades'[q] = IF q = r THEN "none" ELSE trades[q]
  BY <1>a DEF Types
<1>1. Types'
  BY <1>a, <1>c, <1>d DEF Types
<1>2. QueueInv'
  <2>1. \A q \in Results : Seen(q)' => Seen(q)
    BY <1>a, <1>b, <1>c, <1>d DEF Seen, Types, Results
  <2> QED BY <1>a, <1>d, <2>1, QueueKept
<1>3. PostsInv'
  <2>1. \A q \in Results : q # r => (Fresh(q)' <=> Fresh(q))
    BY <1>a, <1>c DEF Fresh
  <2>2. opc' = "postmortem" => Fresh(current)'
    <3>1. opc' = "postmortem" => current' # r /\ current \in Results
      BY <1>b, <1>d DEF PostsInv, Types
    <3> QED BY <1>d, <2>1, <3>1 DEF PostsInv
  <2>3. \A q \in Results : trades'[q] # "none" => Post("trade", q) \in requests'
    BY <1>d, <1>e, PostsDiffer DEF PostsInv
  <2>4. \A q \in Results : Post("trade", q) \in requests' /\ trades'[q] = "none" => Fresh(q)'
    BY <1>d, <1>e, <2>1 DEF PostsInv
  <2>5. llm' # None => Post("postmortem", llm'.result) \in requests'
    BY <1>a, <1>d, PostsDiffer DEF PostsInv
  <2>6. /\ \A q \in Results : trades'[q] = "row" => q \notin ToSet(rows') \cup ToSet(booked')
        /\ \A q \in Results : trades'[q] = "book" => q \notin ToSet(booked')
    BY <1>a, <1>c, <1>e DEF PostsInv
  <2>7. \A q \in Results : Post("postmortem", q) \in requests' =>
          Post("postmortem", q) \notin ToSet(audit')
    BY <1>a, <1>d DEF PostsInv
  <2> QED BY <1>a, <1>d, <2>2, <2>3, <2>4, <2>5, <2>6, <2>7 DEF PostsInv, historyVars
<1>4. StoresInv'
  <2>1. CountedOnce' /\ RuleIsRemembered'
    BY <1>a, <1>c DEF StoresInv, CountedOnce, RuleIsRemembered, IsInjective
  <2>2. BookedInOrder'
    <3>1. /\ Len(booked') = Len(booked) + 1 /\ Len(booked) \in Nat
          /\ \A i \in 1 .. Len(booked) : booked'[i] = booked[i]
          /\ booked'[Len(booked) + 1] = r
      BY <1>a DEF Types
    <3>2. r \in orphans \/ \A i \in 1 .. Len(booked) : booked[i] < r
      <4> SUFFICES ASSUME r \notin orphans, NEW i \in 1 .. Len(booked) PROVE booked[i] < r
        OBVIOUS
      <4>1. r = current /\ current # None
        BY <1>b DEF PostsInv, Results
      <4>2. booked[i] \in ToSet(booked) /\ booked[i] \in Results
        BY Members DEF Types
      <4>3. booked[i] <= r
        BY <4>1, <4>2 DEF QueueInv, Seen
      <4>4. booked[i] # r
        BY <1>b, <4>2
      <4> QED BY <4>2, <4>3, <4>4 DEF Results
    <3> SUFFICES ASSUME NEW i \in 1 .. Len(booked'), NEW j \in 1 .. Len(booked'), i < j
                 PROVE  booked'[i] < booked'[j] \/ booked'[j] \in orphans
      BY <1>a DEF BookedInOrder, historyVars
    <3>3. i \in 1 .. Len(booked)
      BY <3>1
    <3>4. CASE j = Len(booked) + 1
      BY <3>1, <3>2, <3>3, <3>4
    <3>5. CASE j \in 1 .. Len(booked)
      BY <3>1, <3>3, <3>5 DEF StoresInv, BookedInOrder
    <3> QED BY <3>1, <3>4, <3>5
  <2>3. Post("trade", r) \in ToSet(audit) \/ r \in unaudited
    BY <1>a DEF StoresInv
  <2> QED BY <1>a, <1>c, <1>e, <2>1, <2>2, <2>3 DEF StoresInv, historyVars
<1> QED BY <1>1, <1>2, <1>3, <1>4

-------------------------------------------------------------------------------
(* Lives of the two processes.                                               *)

LEMMA StartsInv == Inv /\ (OrchestratorStarts \/ MemoryStarts) => Inv'
<1> SUFFICES ASSUME Inv, OrchestratorStarts \/ MemoryStarts PROVE Inv'
  OBVIOUS
<1> USE DEF Inv
<1>a. /\ UNCHANGED <<published, losses, socket, chan, current, requests, llm, trades, storeVars,
                     historyVars>>
      /\ up' \in BOOLEAN
      /\ opc' = opc \/ (opc = "down" /\ opc' = "recv")
  BY DEF OrchestratorStarts, MemoryStarts, orchVars, Types
<1>1. Types'
  BY <1>a DEF Types, storeVars
<1>2. QueueInv'
  <2>1. \A q \in Results : Seen(q)' => Seen(q)
    BY <1>a DEF Seen, storeVars
  <2> QED BY <1>a, <2>1, QueueKept
<1>3. PostsInv'
  BY <1>a DEF PostsInv, Fresh, storeVars, historyVars
<1>4. StoresInv'
  BY <1>a, StoresKept DEF storeVars, historyVars
<1> QED BY <1>1, <1>2, <1>3, <1>4

LEMMA OrchestratorDiesInv == Inv /\ OrchestratorDies => Inv'
<1> SUFFICES ASSUME Inv, OrchestratorDies PROVE Inv'
  OBVIOUS
<1> USE DEF Inv
<1>a. /\ opc' = "down" /\ current' = None /\ socket' = <<>> /\ chan' = <<>>
      /\ orphans' = orphans \cup ({current} \ {None})
      /\ UNCHANGED <<published, losses, requests, up, llm, trades, storeVars, unaudited>>
  BY DEF OrchestratorDies
<1>b. ToSet(<<>>) = {} /\ Increasing(<<>>) /\ <<>> \in Seq(Results)
  BY NoneWaits
<1>1. Types'
  BY <1>a, <1>b DEF Types, storeVars
<1>2. QueueInv'
  <2>1. \A q \in Results : (Seen(q)' => Seen(q)) /\ ~Queued(q)'
    BY <1>a, <1>b DEF Seen, Queued, storeVars, Results
  <2> QED BY <1>a, <1>b, <2>1 DEF QueueInv, Increasing
<1>3. PostsInv'
  <2>1. \A q \in Results : q # None /\ (q = current => q \in orphans')
    BY <1>a DEF Results
  <2>2. \A q \in Results : Fresh(q)' <=> Fresh(q)
    BY <1>a DEF Fresh, storeVars
  <2> QED BY <1>a, <2>1, <2>2 DEF PostsInv, storeVars
<1>4. StoresInv'
  BY <1>a, StoresKept DEF storeVars
<1> QED BY <1>1, <1>2, <1>3, <1>4

LEMMA MemoryDiesInv == Inv /\ (MemoryDies \/ MemoryBlinks) => Inv'
<1> SUFFICES ASSUME Inv, MemoryDies \/ MemoryBlinks PROVE Inv'
  OBVIOUS
<1> USE DEF Inv
<1>a. /\ llm' = None /\ trades' = [r \in Results |-> "none"] /\ rules' = {} /\ up' \in BOOLEAN
      /\ UNCHANGED <<published, losses, socket, chan, memory, audit, rows, booked, table, orphans,
                     unaudited>>
  BY DEF MemoryDies, MemoryBlinks, Broken, Types
<1>b. \/ requests' = {} /\ current' = None /\ opc' \in {"down", "recv"}
      \/ /\ opc = "postmortem" /\ opc' = "push" /\ current' = current
         /\ requests' = {Post("trade", current)}
  BY DEF MemoryDies, MemoryBlinks
<1>c. opc = "postmortem" => current \in Results /\ Fresh(current)
  BY DEF Types, PostsInv
<1>1. Types'
  <2>1. requests' \in SUBSET AllPosts
    BY <1>b, <1>c, PostsDiffer
  <2>2. trades' \in [Results -> {"none", "row", "book"}]
    BY <1>a
  <2> QED BY <1>a, <1>b, <2>1, <2>2 DEF Types
<1>2. QueueInv'
  <2>1. \A q \in Results : Seen(q)' => Seen(q)
    BY <1>a, <1>b, PostsDiffer DEF Seen, Results
  <2> QED BY <1>a, <1>b, <2>1, QueueKept
<1>3. PostsInv'
  <2>1. \A q \in Results : Fresh(q)' <=> Fresh(q)
    BY <1>a DEF Fresh
  <2>2. /\ \A q \in Results : Post("trade", q) \in requests' =>
              q = current' /\ opc' = "push" /\ Fresh(q)
        /\ \A q \in Results : Post("postmortem", q) \notin requests'
    BY <1>b, <1>c, PostsDiffer
  <2>3. opc' # "postmortem" /\ \A q \in Results : trades'[q] = "none"
    BY <1>a, <1>b
  <2> QED BY <1>a, <2>1, <2>2, <2>3 DEF PostsInv
<1>4. StoresInv'
  BY <1>a, StoresKept
<1> QED BY <1>1, <1>2, <1>3, <1>4

-------------------------------------------------------------------------------
LEMMA NextInv == Inv /\ [Next]_vars => Inv'
<1> SUFFICES ASSUME Inv, [Next]_vars PROVE Inv'
  OBVIOUS
<1>1. ASSUME UNCHANGED vars PROVE Inv'
  <2>1. Types' /\ QueueInv' /\ PostsInv'
    BY <1>1 DEF vars, orchVars, storeVars, Inv, Types, QueueInv, Queued, Seen, Increasing, PostsInv, Fresh
  <2>2. StoresInv'
    BY <1>1, StoresKept DEF vars, Inv
  <2> QED BY <2>1, <2>2 DEF Inv
<1>2. ASSUME Handlers PROVE Inv'
  BY <1>2, RunPostmortemInv, SaveRuleInv, LogTradeInv, InsertTradeInv, BookTradeInv, AttemptInv,
     RememberInv, AuditPostmortemInv DEF Handlers
<1> QED BY <1>1, <1>2, PublishInv, SubscriptionInv, ReceiveInv, StartsInv, OrchestratorDiesInv,
           MemoryDiesInv DEF Next

LEMMA Inductive == Spec => []Inv
BY InitInv, NextInv, PTL DEF Spec

(* Whichever process dies when, and however often the orchestrator starts   *)
(* again while its last post is still being handled, no result is audited,  *)
(* listed or booked twice.                                                  *)
THEOREM NothingIsCountedTwice == Spec => []CountedOnce
<1>1. Inv => CountedOnce
  BY DEF Inv, StoresInv
<1> QED BY <1>1, Inductive, PTL

(* The audit record of router.py:298 comes before the row and the booking,  *)
(* for every number of faults.                                              *)
THEOREM AuditComesFirst == Spec => []AuditedFirst
<1>1. Inv => AuditedFirst
  <2> SUFFICES ASSUME Inv, NEW r \in ToSet(rows) \cup ToSet(booked)
               PROVE  Contains(audit, Post("trade", r)) \/ r \in unaudited
    BY DEF AuditedFirst
  <2>1. r \in Results
    BY Members DEF Inv, Types
  <2>2. Post("trade", r) \in ToSet(audit) \/ r \in unaudited
    BY <2>1 DEF Inv, StoresInv
  <2> QED BY <2>2, Members DEF Inv, Types
<1> QED BY <1>1, Inductive, PTL

(* The wallet gets the results in the order in which the engine published   *)
(* them, but for one whose sender has died.                                 *)
THEOREM OrderIsKept == Spec => []BookedInOrder
<1>1. Inv => BookedInOrder
  BY DEF Inv, StoresInv
<1> QED BY <1>1, Inductive, PTL

(* Whatever write fails and whichever process dies, a rule in Postgres has  *)
(* its lesson in LanceDB.                                                   *)
THEOREM RulesHaveLessons == Spec => []RuleIsRemembered
<1>1. Inv => RuleIsRemembered
  BY DEF Inv, StoresInv
<1> QED BY <1>1, Inductive, PTL

-------------------------------------------------------------------------------
(* Types that the theorems above do not need, and where a result is.         *)

Rest ==
    /\ Len(chan) <= ChanSize
    /\ memory \in SUBSET Results /\ rules \in SUBSET Results /\ table \in SUBSET Results
    /\ lost \in SUBSET Results /\ orphans \in SUBSET Results /\ unaudited \in SUBSET Results
    /\ faults \in 0 .. MaxFaults

Traced(r) ==
    \/ Queued(r) \/ r = current
    \/ Post("postmortem", r) \in requests \/ Post("trade", r) \in requests
    \/ r \in ToSet(booked) \/ r \in lost \cup orphans

(* What the engine has published is on its way, in the wallet, or known to   *)
(* be lost or without a sender: no step lets a result drop out of sight.     *)
NoneVanishes == \A r \in 1 .. published : Traced(r)

LEMMA Numbers == Types => 1 .. published \in SUBSET Results
BY DEF Types, Results

LEMMA TracedKept ==
  ASSUME Types, NoneVanishes, published' = published,
         \A r \in Results : Traced(r) => Traced(r)'
  PROVE  NoneVanishes'
BY Numbers DEF NoneVanishes

LEMMA FaultCounted == ASSUME Rest, Fault PROVE faults' \in 0 .. MaxFaults
BY DEF Rest, Fault

LEMMA InitTraced == Init => Rest /\ NoneVanishes
<1> SUFFICES ASSUME Init PROVE Rest /\ NoneVanishes
  OBVIOUS
<1>1. chan = <<>> /\ published = 0 /\ faults = 0
  BY DEF Init
<1>2. Rest
  BY <1>1 DEF Init, Rest
<1> QED BY <1>1, <1>2 DEF NoneVanishes

LEMMA PublishTraced == Inv /\ Rest /\ NoneVanishes /\ Publish => Rest' /\ NoneVanishes'
<1> SUFFICES ASSUME Inv, Rest, NoneVanishes, Publish PROVE Rest' /\ NoneVanishes'
  OBVIOUS
<1> USE DEF Inv
<1> DEFINE p == published + 1
<1>1. /\ published \in Nat /\ p \in Results /\ published' = p
      /\ UNCHANGED <<chan, current, requests, storeVars, orphans, unaudited, faults>>
      /\ \/ lost' = lost \cup {p} /\ socket' = socket
         \/ lost' = lost /\ socket' = Append(socket, p)
  BY DEF Publish, Types, Results
<1>2. Rest'
  BY <1>1 DEF Rest, storeVars
<1>3. ToSet(socket) \subseteq ToSet(socket') /\ (p \in ToSet(socket') \/ p \in lost')
  <2>1. socket \in Seq(Results)
    BY DEF Types
  <2>2. CASE socket' = Append(socket, p)
    BY <1>1, <2>1, <2>2, Appended
  <2> QED BY <1>1, <2>2
<1>4. \A r : Traced(r) \/ r = p => Traced(r)'
  BY <1>1, <1>3 DEF Traced, Queued, storeVars
<1>5. \A r \in 1 .. p : r \in 1 .. published \/ r = p
  BY <1>1
<1>6. NoneVanishes'
  <2> SUFFICES ASSUME NEW r \in 1 .. p PROVE Traced(r)'
    BY <1>1 DEF NoneVanishes
  <2> QED BY <1>4, <1>5 DEF NoneVanishes
<1> QED BY <1>2, <1>6

LEMMA SubscriptionTraced == Inv /\ Rest /\ NoneVanishes /\ Subscription => Rest' /\ NoneVanishes'
<1> SUFFICES ASSUME Inv, Rest, NoneVanishes, Subscription PROVE Rest' /\ NoneVanishes'
  OBVIOUS
<1> USE DEF Inv
<1> DEFINE h == Head(socket)
<1>1. /\ socket # <<>> /\ socket' = Tail(socket)
      /\ UNCHANGED <<published, current, requests, storeVars, orphans, unaudited, faults>>
      /\ \/ chan' = Append(chan, h) /\ Len(chan) < ChanSize /\ lost' = lost
         \/ chan' = chan /\ lost' = lost \cup {h}
  BY DEF Subscription, Enqueue, GiveUp, historyVars
<1>2. h \in Results /\ ToSet(socket) = {h} \cup ToSet(socket')
  BY <1>1, Taken DEF Types, QueueInv
<1> HIDE DEF h
<1>3. Len(chan') <= ChanSize /\ ToSet(chan) \subseteq ToSet(chan')
      /\ (h \in ToSet(chan') \/ h \in lost')
  <2>1. chan \in Seq(Results) /\ Len(chan) \in Nat /\ Len(chan) <= ChanSize
    BY DEF Types, Rest
  <2>2. CASE chan' = chan /\ lost' = lost \cup {h}
    BY <2>1, <2>2
  <2>3. CASE chan' = Append(chan, h) /\ Len(chan) < ChanSize
    <3>1. Len(chan') = Len(chan) + 1
      BY <1>2, <2>1, <2>3
    <3>2. ToSet(chan') = ToSet(chan) \cup {h}
      BY <1>2, <2>1, <2>3, Appended
    <3> QED BY <2>1, <2>3, <3>1, <3>2
  <2> QED BY <1>1, <2>2, <2>3
<1>4. Rest'
  BY <1>1, <1>2, <1>3 DEF Rest, storeVars
<1>5. \A r \in Results : Traced(r) => Traced(r)'
  BY <1>1, <1>2, <1>3 DEF Traced, Queued, storeVars
<1> QED BY <1>1, <1>4, <1>5, TracedKept

LEMMA ReceiveTraced == Inv /\ Rest /\ NoneVanishes /\ Receive => Rest' /\ NoneVanishes'
<1> SUFFICES ASSUME Inv, Rest, NoneVanishes, Receive PROVE Rest' /\ NoneVanishes'
  OBVIOUS
<1> USE DEF Inv
<1> DEFINE h == Head(chan)
<1>1. /\ chan # <<>> /\ chan' = Tail(chan) /\ current = None
      /\ UNCHANGED <<published, socket, storeVars, orphans, unaudited, faults>>
      /\ requests \subseteq requests'
      /\ \/ current' = h /\ lost' = lost
         \/ current' = None /\ lost' = lost \cup {h}
  BY DEF Receive, RunPostMortem, PushTradeToDash, Types
<1>2. h \in Results /\ ToSet(chan) = {h} \cup ToSet(chan')
  BY <1>1, Taken DEF Types, QueueInv
<1>3. Len(chan') <= ChanSize
  <2>1. Len(chan) \in Nat \ {0} /\ Len(Tail(chan)) = Len(chan) - 1
    BY <1>1 DEF Types
  <2> QED BY <1>1, <2>1 DEF Rest
<1> HIDE DEF h
<1>4. Rest'
  BY <1>1, <1>2, <1>3 DEF Rest, storeVars
<1>5. \A r \in Results : r # None
  BY DEF Results
<1>6. \A r \in Results : Traced(r) => Traced(r)'
  BY <1>1, <1>2, <1>5 DEF Traced, Queued, storeVars
<1> QED BY <1>1, <1>4, <1>6, TracedKept

(* A sender that still waits goes on with the result, and a post without one *)
(* is an orphan's.                                                           *)
LEMMA AnsweredTraced ==
  ASSUME Inv, NEW r \in Results, Post("postmortem", r) \in requests, Answer("postmortem", r),
         UNCHANGED <<socket, chan, booked, lost, orphans>>
  PROVE  \A q \in Results : Traced(q) => Traced(q)'
<1> USE DEF Inv
<1>1. CASE current # r
  <2>1. requests' = requests \ {Post("postmortem", r)} /\ current' = current /\ r \in orphans
    BY <1>1 DEF Answer, PostsInv
  <2> QED BY <2>1, PostsDiffer DEF Traced, Queued
<1>2. CASE current = r
  <2>1. /\ requests' = (requests \ {Post("postmortem", r)}) \cup {Post("trade", r)}
        /\ current' = current
    BY <1>2 DEF Answer
  <2> QED BY <1>2, <2>1, PostsDiffer DEF Traced, Queued
<1> QED BY <1>1, <1>2

LEMMA PostmortemTraced ==
  /\ Inv /\ Rest /\ NoneVanishes
  /\ AttemptFails \/ AnswerIsUseless \/ Remember \/ AuditPostmortem
  => Rest' /\ NoneVanishes'
<1> SUFFICES ASSUME Inv, Rest, NoneVanishes,
                    AttemptFails \/ AnswerIsUseless \/ Remember \/ AuditPostmortem
             PROVE  Rest' /\ NoneVanishes'
  OBVIOUS
<1> USE DEF Inv
<1> DEFINE r == llm.result
<1>1. llm # None
  BY DEF AttemptFails, AnswerIsUseless, Remember, AuditPostmortem, Asking
<1>2. r \in Results /\ Post("postmortem", r) \in requests
  BY <1>1 DEF Types, PostsInv, Analyses
<1>3. /\ UNCHANGED <<published, socket, chan, booked, table, historyVars>>
      /\ memory' \in {memory, memory \cup {r}} /\ rules' \in {rules, rules \cup {r}}
      /\ \/ UNCHANGED <<current, requests>>
         \/ Answer("postmortem", r)
      /\ faults' = faults \/ Fault
  BY DEF AttemptFails, AnswerIsUseless, Remember, AuditPostmortem, storeVars, orchVars
<1> HIDE DEF r
<1>4. Rest'
  BY <1>2, <1>3, FaultCounted DEF Rest, historyVars
<1>5. \A q \in Results : Traced(q) => Traced(q)'
  <2>1. CASE UNCHANGED <<current, requests>>
    BY <1>3, <2>1 DEF Traced, Queued, historyVars
  <2>2. CASE Answer("postmortem", r)
    BY <1>2, <1>3, <2>2, AnsweredTraced DEF historyVars
  <2> QED BY <1>3, <2>1, <2>2
<1> QED BY <1>3, <1>4, <1>5, TracedKept

LEMMA TasksTraced ==
  ASSUME Inv, Rest, NoneVanishes, NEW r \in Results,
         RunPostmortem(r) \/ SaveRule(r) \/ LogTrade(r) \/ InsertTrade(r)
  PROVE  Rest' /\ NoneVanishes'
<1> USE DEF Inv
<1>1. /\ UNCHANGED <<published, orchVars, requests, memory, booked, lost, orphans>>
      /\ rules' \in SUBSET rules /\ table' \in {table, table \cup {r}}
      /\ unaudited' \in {unaudited, unaudited \cup {r}}
      /\ faults' = faults \/ Fault
  BY DEF RunPostmortem, SaveRule, LogTrade, InsertTrade, storeVars, historyVars
<1>2. Rest'
  BY <1>1, FaultCounted DEF Rest, orchVars
<1>3. \A q \in Results : Traced(q) => Traced(q)'
  BY <1>1 DEF Traced, Queued, orchVars
<1> QED BY <1>1, <1>2, <1>3, TracedKept

LEMMA BookTradeTraced ==
  ASSUME Inv, Rest, NoneVanishes, NEW r \in Results, BookTrade(r)
  PROVE  Rest' /\ NoneVanishes'
<1> USE DEF Inv
<1>1. /\ booked' = Append(booked, r) /\ Answer("trade", r)
      /\ UNCHANGED <<published, socket, chan, memory, rules, table, historyVars, faults>>
  BY DEF BookTrade
<1>2. ToSet(booked') = ToSet(booked) \cup {r}
  BY <1>1, Appended DEF Types
<1>3. requests' = requests \ {Post("trade", r)} /\ (current = r \/ current' = current)
  BY <1>1 DEF Answer
<1>4. Rest'
  BY <1>1 DEF Rest, historyVars
<1>5. \A q \in Results : Traced(q) => Traced(q)'
  BY <1>1, <1>2, <1>3, PostsDiffer DEF Traced, Queued, historyVars
<1> QED BY <1>1, <1>4, <1>5, TracedKept

LEMMA StartsTraced ==
  Inv /\ Rest /\ NoneVanishes /\ (OrchestratorStarts \/ MemoryStarts) => Rest' /\ NoneVanishes'
<1> SUFFICES ASSUME Inv, Rest, NoneVanishes, OrchestratorStarts \/ MemoryStarts
             PROVE  Rest' /\ NoneVanishes'
  OBVIOUS
<1>1. UNCHANGED <<published, socket, chan, current, requests, storeVars, historyVars, faults>>
  BY DEF OrchestratorStarts, MemoryStarts, orchVars
<1>2. Rest'
  BY <1>1 DEF Rest, storeVars, historyVars
<1>3. \A q \in Results : Traced(q) => Traced(q)'
  BY <1>1 DEF Traced, Queued, storeVars, historyVars
<1> QED BY <1>1, <1>2, <1>3, TracedKept DEF Inv

(* What waits is lost with the orchestrator, and what it handles has no      *)
(* sender any more.                                                          *)
LEMMA OrchestratorDiesTraced ==
  Inv /\ Rest /\ NoneVanishes /\ OrchestratorDies => Rest' /\ NoneVanishes'
<1> SUFFICES ASSUME Inv, Rest, NoneVanishes, OrchestratorDies PROVE Rest' /\ NoneVanishes'
  OBVIOUS
<1> USE DEF Inv
<1>1. /\ Fault /\ chan' = <<>>
      /\ lost \cup ToSet(socket) \cup ToSet(chan) \subseteq lost'
      /\ lost' = lost \cup ToSet(socket) \cup ToSet(chan)
                   \cup (IF opc = "postmortem" THEN {current} ELSE {})
      /\ orphans' = orphans \cup ({current} \ {None})
      /\ UNCHANGED <<published, requests, storeVars, unaudited>>
  BY DEF OrchestratorDies
<1>2. Rest'
  <2>1. ToSet(socket) \in SUBSET Results /\ ToSet(chan) \in SUBSET Results
    BY Members DEF Types
  <2>2. opc = "postmortem" => current \in Results
    BY DEF Types
  <2>3. {current} \ {None} \in SUBSET Results
    BY DEF Types
  <2>4. Len(chan') <= ChanSize
    BY <1>1
  <2> QED BY <1>1, <2>1, <2>2, <2>3, <2>4, FaultCounted DEF Rest, storeVars
<1>3. \A r \in Results : r # None
  BY DEF Results
<1>4. \A r \in Results : Traced(r) => Traced(r)'
  BY <1>1, <1>3 DEF Traced, Queued, storeVars
<1> QED BY <1>1, <1>2, <1>4, TracedKept

(* A post in vain is the current result's, or an orphan's.                   *)
LEMMA MemoryDiesTraced ==
  Inv /\ Rest /\ NoneVanishes /\ (MemoryDies \/ MemoryBlinks) => Rest' /\ NoneVanishes'
<1> SUFFICES ASSUME Inv, Rest, NoneVanishes, MemoryDies \/ MemoryBlinks
             PROVE  Rest' /\ NoneVanishes'
  OBVIOUS
<1> USE DEF Inv
<1>1. /\ Fault /\ rules' = {}
      /\ UNCHANGED <<published, socket, chan, memory, booked, table, orphans, unaudited>>
      /\ \/ current' = None /\ lost' = lost \cup ({current} \ {None})
         \/ current' = current /\ lost' = lost
  BY DEF MemoryDies, MemoryBlinks, Broken
<1>2. Rest'
  <2>1. {current} \ {None} \in SUBSET Results
    BY DEF Types
  <2> QED BY <1>1, <2>1, FaultCounted DEF Rest
<1>3. \A r \in Results : r # None
  BY DEF Results
<1>4. \A r \in Results : Post("postmortem", r) \in requests \/ Post("trade", r) \in requests =>
         r = current \/ r \in orphans
  BY DEF PostsInv
<1>5. \A r \in Results : Traced(r) => Traced(r)'
  BY <1>1, <1>3, <1>4 DEF Traced, Queued
<1> QED BY <1>1, <1>2, <1>5, TracedKept

LEMMA NextTraced == Inv /\ Rest /\ NoneVanishes /\ [Next]_vars => Rest' /\ NoneVanishes'
<1> SUFFICES ASSUME Inv, Rest, NoneVanishes, [Next]_vars PROVE Rest' /\ NoneVanishes'
  OBVIOUS
<1>1. ASSUME UNCHANGED vars PROVE Rest' /\ NoneVanishes'
  BY <1>1 DEF vars, orchVars, storeVars, historyVars, Rest, NoneVanishes, Traced, Queued
<1>2. ASSUME Handlers PROVE Rest' /\ NoneVanishes'
  BY <1>2, TasksTraced, BookTradeTraced, PostmortemTraced DEF Handlers
<1> QED BY <1>1, <1>2, PublishTraced, SubscriptionTraced, ReceiveTraced, StartsTraced,
           OrchestratorDiesTraced, MemoryDiesTraced DEF Next

LEMMA InductiveToo == Spec => [](Inv /\ Rest /\ NoneVanishes)
<1>1. Init => Rest /\ NoneVanishes
  BY InitTraced
<1> QED BY <1>1, InitInv, NextInv, NextTraced, PTL DEF Spec

(* The variables have their types; in particular the channel never holds     *)
(* more than its size, and only results the engine published are written.    *)
THEOREM TypeCorrect == Spec => []TypeOK
<1>1. Inv /\ Rest => TypeOK
  BY DEF Inv, Types, Rest, TypeOK
<1> QED BY <1>1, InductiveToo, PTL

(* The safety side of ReceivedIsSettled: what the engine has published is    *)
(* still on its way, or in the wallet, or a process died or a channel was    *)
(* full on its way (signalLoop, main.go).                                    *)
THEOREM NothingVanishes == Spec => []NoneVanishes
BY InductiveToo, PTL

===============================================================================
