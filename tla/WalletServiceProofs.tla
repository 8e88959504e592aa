------------------------ MODULE WalletServiceProofs ------------------------
(***************************************************************************)
(* Theorems about WalletService, for any tickers, prices, pool and bounds. *)
(***************************************************************************)
EXTENDS WalletService, TLAPS

(* What a partial close hands back is at most what the position cost.       *)
LEMMA ReturnedBounds ==
    ASSUME NEW cost \in Nat, NEW q \in Nat \ {0}, NEW k \in 0 .. q
    PROVE  (cost * k) \div q \in 0 .. cost
<1> DEFINE prod == cost * k
           d == prod \div q
<1>1. prod \in Nat /\ prod <= cost * q
  <2>1. cost * k \in Nat  OBVIOUS
  <2>2. cost * k <= cost * q  OBVIOUS
  <2> QED  BY <2>1, <2>2
<1>2. d \in Int /\ q * d <= prod /\ d >= 0
  <2> HIDE DEF prod
  <2> QED  BY <1>1
<1>3. d <= cost
  <2>1. ASSUME d > cost PROVE FALSE
    <3>1. q * d >= q * (cost + 1)
      <4> HIDE DEF d
      <4> QED  BY <1>2, <2>1
    <3>2. q * (cost + 1) = q * cost + q /\ q * cost = cost * q  OBVIOUS
    <3>3. q * cost \in Nat /\ q * d \in Int  BY <1>2
    <3> HIDE DEF d, prod
    <3> QED  BY <3>1, <3>2, <3>3, <1>1, <1>2
  <2> HIDE DEF d
  <2> QED  BY <2>1, <1>2
<1> QED  BY <1>2, <1>3

(* A wallet is sound: its money is accounted for and its cash not negative. *)
Sound(m) == Accounted(m) /\ m.available >= 0

LEMMA FreshSound ==
    ASSUME NEW capital \in Nat
    PROVE  /\ Fresh(capital) \in Wallets
           /\ Sound(Fresh(capital))
BY DEF Fresh, Wallets, Sound, Accounted, NoPos, Position

(* Both operations move money between three accounts and replace a position.*)
Moved(w, t, cash, inv, pnl, p) ==
    [initial |-> w.initial, available |-> w.available + cash,
     invested |-> w.invested + inv, realized |-> w.realized + pnl,
     positions |-> [w.positions EXCEPT ![t] = p]]

LEMMA MovedSound ==
    ASSUME NEW w \in Wallets, NEW t \in Tickers, NEW p \in Position, NEW cash \in Int,
           NEW inv \in Int, NEW pnl \in Int, cash + inv = pnl,
           w.available + cash >= 0, Sound(w)
    PROVE  /\ Moved(w, t, cash, inv, pnl, p) \in Wallets
           /\ Sound(Moved(w, t, cash, inv, pnl, p))
<1>1. [w.positions EXCEPT ![t] = p] \in [Tickers -> Position]  BY DEF Wallets
<1>2. Moved(w, t, cash, inv, pnl, p) \in Wallets  BY <1>1 DEF Moved, Wallets
<1>3. Sound(Moved(w, t, cash, inv, pnl, p))
  BY DEF Moved, Wallets, Sound, Accounted
<1> QED  BY <1>2, <1>3

(* open_position keeps a wallet sound.                                      *)
LEMMA OpenedSound ==
    ASSUME NEW w \in Wallets, NEW t \in Tickers, NEW qty \in Nat, NEW price \in Nat,
           CanOpen(w, qty, price), Sound(w)
    PROVE  /\ Opened(w, t, qty, price) \in Wallets
           /\ Sound(Opened(w, t, qty, price))
<1> DEFINE n == qty * price
<1>1. n \in Nat  OBVIOUS
<1> HIDE DEF n
<1>2. Opened(w, t, qty, price) =
        [w EXCEPT !.available = @ - n, !.invested = @ + n,
                  !.positions[t] = [qty |-> @.qty + qty, cost |-> @.cost + n]]
  BY DEF Opened, n
<1>3. n <= w.available  BY DEF CanOpen, n
<1> DEFINE p == [qty |-> w.positions[t].qty + qty, cost |-> w.positions[t].cost + n]
<1>4. p \in Position  BY <1>1 DEF Wallets, Position
<1>5. Opened(w, t, qty, price) = Moved(w, t, 0 - n, n, 0, p)
  <2> DEFINE v == Opened(w, t, qty, price)
  <2>1. v = [initial |-> w.initial, available |-> w.available - n,
             invested |-> w.invested + n, realized |-> w.realized,
             positions |-> [w.positions EXCEPT ![t] = p]]
    BY <1>2 DEF Wallets
  <2>2. w.available - n = w.available + (0 - n) /\ w.realized = w.realized + 0
    BY <1>1 DEF Wallets
  <2> HIDE DEF v, p
  <2> QED  BY <2>1, <2>2 DEF Moved, v
<1> HIDE DEF p
<1> QED  BY <1>1, <1>3, <1>4, <1>5, MovedSound DEF Wallets

(* close_position keeps a wallet sound.                                     *)
LEMMA ClosedSound ==
    ASSUME NEW w \in Wallets, NEW t \in Tickers, NEW qty \in Nat, NEW price \in Nat,
           CanClose(w, t), Sound(w)
    PROVE  /\ Closed(w, t, qty, price) \in Wallets
           /\ Sound(Closed(w, t, qty, price))
<1> DEFINE k    == CloseQty(w, t, qty)
           back == Returned(w, t, k)
           pos  == w.positions[t]
           paid == k * price
<1>1. pos \in Position /\ pos.qty \in Nat \ {0} /\ pos.cost \in Nat
  BY DEF Wallets, Position, CanClose
<1>2. k \in 0 .. pos.qty  BY <1>1 DEF CloseQty
<1>3. back \in 0 .. pos.cost
  <2> HIDE DEF k
  <2> QED  BY <1>1, <1>2, ReturnedBounds DEF Returned
<1>4. paid \in Nat
  <2> HIDE DEF k
  <2>1. k \in Nat  BY <1>1, <1>2
  <2> QED  BY <2>1
<1>5. Closed(w, t, qty, price) =
        [w EXCEPT !.available = @ + paid, !.invested = @ - back,
                  !.realized = @ + paid - back,
                  !.positions[t] = IF k = pos.qty THEN NoPos
                                   ELSE [qty |-> pos.qty - k, cost |-> pos.cost - back]]
  BY DEF Closed
<1>6. (IF k = pos.qty THEN NoPos
       ELSE [qty |-> pos.qty - k, cost |-> pos.cost - back]) \in Position
  <2> HIDE DEF k, back, pos
  <2> QED  BY <1>1, <1>2, <1>3 DEF Position, NoPos
<1> DEFINE p == IF k = pos.qty THEN NoPos
                ELSE [qty |-> pos.qty - k, cost |-> pos.cost - back]
<1>7. Closed(w, t, qty, price) =
        [w EXCEPT !.available = @ + paid, !.invested = @ - back,
                  !.realized = @ + paid - back, !.positions[t] = p]
  BY <1>5
<1>8. p \in Position  BY <1>6
<1>9. back \in Int  BY <1>1, <1>3
<1>10. Closed(w, t, qty, price) = Moved(w, t, paid, 0 - back, paid - back, p)
  <2> HIDE DEF k, back, pos, paid, p
  <2>1. Closed(w, t, qty, price) =
          [initial |-> w.initial, available |-> w.available + paid,
           invested |-> w.invested - back, realized |-> w.realized + paid - back,
           positions |-> [w.positions EXCEPT ![t] = p]]
    BY <1>7 DEF Wallets
  <2>2. /\ w.invested - back = w.invested + (0 - back)
        /\ w.realized + paid - back = w.realized + (paid - back)
    BY <1>4, <1>9 DEF Wallets
  <2> QED  BY <2>1, <2>2 DEF Moved
<1> HIDE DEF k, back, pos, paid, p
<1>11. /\ paid \in Int /\ 0 - back \in Int /\ paid - back \in Int
       /\ paid + (0 - back) = paid - back
       /\ w.available + paid >= 0
  BY <1>4, <1>9 DEF Wallets, Sound
<1> QED  BY <1>8, <1>10, <1>11, MovedSound

-------------------------------------------------------------------------------
(* The wallet after a trade.                                                *)
LEMMA TradedSound ==
    ASSUME NEW w \in Wallets, NEW r \in Trade, Sound(w)
    PROVE  Traded(w, r) \in Wallets /\ Sound(Traded(w, r))
<1>1. r.ticker \in Tickers /\ r.qty \in Nat /\ r.price \in Nat
  BY QtysAssumption, PricesAssumption DEF Trade
<1>2. CASE r.dir = "BUY" /\ CanOpen(w, r.qty, r.price)
  BY <1>1, <1>2, OpenedSound DEF Traded
<1>3. CASE r.dir = "BUY" /\ ~CanOpen(w, r.qty, r.price)
  BY <1>3 DEF Traded
<1>4. CASE r.dir # "BUY" /\ CanClose(w, r.ticker)
  BY <1>1, <1>4, ClosedSound DEF Traded
<1>5. CASE r.dir # "BUY" /\ ~CanClose(w, r.ticker)
  BY <1>5 DEF Traded
<1> QED  BY <1>2, <1>3, <1>4, <1>5

(* The induction: every wallet the service or the database holds, or a save *)
(* carries, is sound.                                                       *)
AllSound ==
    /\ Sound(mem) /\ Sound(boot) /\ Sound(row)
    /\ \A c \in Connections : saves[c] # Idle => Sound(saves[c].snap)

IInv == TypeOK /\ AllSound

LEMMA IInvInit == Init => IInv
<1> SUFFICES ASSUME Init PROVE IInv  OBVIOUS
<1>1. Fresh(TableCapital) \in Wallets /\ Sound(Fresh(TableCapital))
  BY FreshSound, CapitalAssumption
<1>2. row \in Row /\ Sound(row)
  BY <1>1, CapitalAssumption
  DEF Init, Money, Row, Fresh, Wallets, Sound, Accounted
<1>3. rows \in [Tickers -> Position]  BY DEF Init, Position, NoPos
<1>4. TypeOK
  <2>1. mem \in Wallets /\ boot \in Wallets  BY <1>1 DEF Init
  <2>2. request \in Trade \cup {None} /\ saves \in [Connections -> Save \cup {Idle}]
    BY DEF Init
  <2>3. ops \in 0 .. MaxOps /\ faults \in 0 .. MaxFaults  BY BoundsAssumption DEF Init
  <2>4. /\ up \in BOOLEAN /\ own \in BOOLEAN /\ dbUp \in BOOLEAN
        /\ lost \in BOOLEAN /\ mixed \in BOOLEAN /\ torn \in BOOLEAN
        /\ reset \in {"none", "saving", "saved"}
    BY DEF Init
  <2> QED  BY <1>2, <1>3, <2>1, <2>2, <2>3, <2>4 DEF TypeOK
<1> QED  BY <1>1, <1>2, <1>4 DEF Init, IInv, AllSound, Idle

(* A save started for a sound wallet.                                       *)
LEMMA SaveStarted ==
    ASSUME IInv, NEW w \in Wallets, Sound(w), NEW b \in BOOLEAN, StartSave(w, b)
    PROVE  /\ saves' \in [Connections -> Save \cup {Idle}]
           /\ \A c \in Connections : saves'[c] # Idle => Sound(saves'[c].snap)
           /\ mixed' \in BOOLEAN
<1> DEFINE new == [at |-> "update", snap |-> w, left |-> Held(w), resets |-> b]
<1>1. new \in Save  BY DEF Save, Held
<1>2. new.snap = w  OBVIOUS
<1> HIDE DEF new
<1>3. PICK c \in Connections : saves' = [saves EXCEPT ![c] = new]
  BY DEF StartSave, new
<1>4. saves \in [Connections -> Save \cup {Idle}]  BY DEF IInv, TypeOK
<1>5. mixed' \in BOOLEAN  BY DEF StartSave, Quiet
<1> QED  BY <1>1, <1>2, <1>3, <1>4, <1>5 DEF IInv, AllSound

(* Ending a save leaves only sound ones.                                    *)
LEMMA SaveEnded ==
    ASSUME IInv, NEW c \in Connections, Finished(c) \/ Died(c)
    PROVE  /\ saves' \in [Connections -> Save \cup {Idle}]
           /\ \A d \in Connections : saves'[d] # Idle => Sound(saves'[d].snap)
           /\ lost' \in BOOLEAN /\ reset' \in {"none", "saving", "saved"}
<1>1. saves \in [Connections -> Save \cup {Idle}] /\ saves' = [saves EXCEPT ![c] = Idle]
  BY DEF IInv, TypeOK, Finished, Died
<1>2. lost' \in BOOLEAN  BY DEF Finished, Died
<1>3. reset' \in {"none", "saving", "saved"}  BY DEF Finished, Died, IInv, TypeOK
<1>4. \A d \in Connections : saves'[d] # Idle => saves'[d] = saves[d]  BY <1>1
<1> QED  BY <1>1, <1>2, <1>3, <1>4 DEF IInv, AllSound

(* A save that goes on keeps its snapshot.                                  *)
LEMMA SaveContinues ==
    ASSUME IInv, NEW c \in Connections, saves[c] # Idle,
           NEW at \in {"update", "delete", "insert"}, NEW left \in SUBSET Tickers,
           saves' = [saves EXCEPT ![c] = [saves[c] EXCEPT !.at = at, !.left = left]]
    PROVE  /\ saves' \in [Connections -> Save \cup {Idle}]
           /\ \A d \in Connections : saves'[d] # Idle => Sound(saves'[d].snap)
<1> DEFINE new == [saves[c] EXCEPT !.at = at, !.left = left]
<1>1. saves \in [Connections -> Save \cup {Idle}] /\ saves[c] \in Save
  BY DEF IInv, TypeOK
<1>2. new \in Save /\ new.snap = saves[c].snap  BY <1>1 DEF Save
<1> HIDE DEF new
<1>3. saves' = [saves EXCEPT ![c] = new]  BY DEF new
<1> QED  BY <1>1, <1>2, <1>3 DEF IInv, AllSound

(* Every step keeps the induction.                                          *)
LEMMA IInvStep == IInv /\ [Next]_vars => IInv'
<1> SUFFICES ASSUME IInv, [Next]_vars PROVE IInv'  OBVIOUS
<1> USE DEF IInv
<1>1. CASE TradeArrives
  <2>1. ops' \in 0 .. MaxOps
    BY <1>1, BoundsAssumption DEF TradeArrives, TypeOK
  <2>2. request' \in Trade \cup {None}  BY <1>1 DEF TradeArrives
  <2> QED  BY <1>1, <2>1, <2>2 DEF TradeArrives, TypeOK, AllSound, tables
<1>2. CASE LogTrade
  <2>1. request \in Trade  BY <1>2 DEF LogTrade, TypeOK
  <2>2. mem' \in Wallets /\ Sound(mem')
    BY <1>2, <2>1, TradedSound DEF LogTrade, TypeOK, AllSound
  <2>3. boot' \in Wallets /\ Sound(boot')
    BY <1>2, <2>2 DEF LogTrade, TypeOK, AllSound
  <2>4. /\ saves' \in [Connections -> Save \cup {Idle}]
        /\ \A c \in Connections : saves'[c] # Idle => Sound(saves'[c].snap)
        /\ reset' \in {"none", "saving", "saved"} /\ mixed' \in BOOLEAN
    <3>1. CASE Accepts(mem, request)
      <4>1. StartSave(mem', FALSE) /\ reset' = "none"  BY <1>2, <3>1 DEF LogTrade
      <4> QED  BY <4>1, <2>2, SaveStarted
    <3>2. CASE ~Accepts(mem, request)
      BY <1>2, <3>2 DEF LogTrade, TypeOK, AllSound
    <3> QED  BY <3>1, <3>2
  <2> QED  BY <1>2, <2>2, <2>3, <2>4 DEF LogTrade, TypeOK, AllSound, tables
<1>3. CASE WalletReset
  <2>1. PICK capital \in ResetCapitals : mem' = Fresh(capital)  BY <1>3 DEF WalletReset
  <2>2. mem' \in Wallets /\ Sound(mem')
    BY <2>1, FreshSound, CapitalAssumption
  <2>3. /\ saves' \in [Connections -> Save \cup {Idle}]
        /\ \A c \in Connections : saves'[c] # Idle => Sound(saves'[c].snap)
        /\ mixed' \in BOOLEAN
    BY <1>3, <2>2, SaveStarted DEF WalletReset
  <2>4. ops' \in 0 .. MaxOps
    BY <1>3, BoundsAssumption DEF WalletReset, TypeOK
  <2> QED  BY <1>3, <2>2, <2>3, <2>4 DEF WalletReset, TypeOK, AllSound, tables
<1>4. CASE SaveStep
  <2> SUFFICES ASSUME NEW c \in Connections,
                      UpdateRow(c) \/ DeleteRows(c) \/ InsertRow(c) \/ SaveFails(c)
               PROVE  IInv'
    BY <1>4 DEF SaveStep
  <2>1. UNCHANGED <<memory, dbUp, mixed, torn, ops, faults>>
    BY DEF UpdateRow, DeleteRows, InsertRow, SaveFails
  <2>2. saves[c] # Idle => saves[c] \in Save  BY DEF TypeOK
  <2>3. CASE UpdateRow(c)
    <3>1. saves[c] # Idle /\ saves[c] \in Save
      BY <2>2, <2>3 DEF UpdateRow, Idle
    <3>2. row' \in Row /\ Sound(row')
      <4>1. saves[c].snap \in Wallets /\ Sound(saves[c].snap)
        BY <3>1 DEF Save, AllSound
      <4> QED  BY <2>3, <4>1 DEF UpdateRow, Money, Row, Wallets, Sound, Accounted
    <3>3. saves' = [saves EXCEPT ![c] = [saves[c] EXCEPT !.at = "delete", !.left = saves[c].left]]
      BY <2>3, <3>1 DEF UpdateRow, Save, TypeOK
    <3>4. saves[c].left \in SUBSET Tickers  BY <3>1 DEF Save
    <3>5. /\ saves' \in [Connections -> Save \cup {Idle}]
          /\ \A d \in Connections : saves'[d] # Idle => Sound(saves'[d].snap)
      BY <3>1, <3>3, <3>4, SaveContinues
    <3> QED  BY <2>1, <2>3, <3>2, <3>5 DEF UpdateRow, memory, TypeOK, AllSound
  <2>4. CASE DeleteRows(c)
    <3>1. saves[c] # Idle /\ saves[c] \in Save
      BY <2>2, <2>4 DEF DeleteRows, Idle
    <3>2. rows' \in [Tickers -> Position] /\ row' = row
      BY <2>4 DEF DeleteRows, NoPos, Position
    <3>3. CASE saves[c].left = {}
      BY <2>1, <2>4, <3>2, <3>3, SaveEnded DEF DeleteRows, memory, TypeOK, AllSound
    <3>4. CASE saves[c].left # {}
      <4>1. saves' = [saves EXCEPT ![c] = [saves[c] EXCEPT !.at = "insert", !.left = saves[c].left]]
        BY <2>4, <3>1, <3>4 DEF DeleteRows, Save, TypeOK
      <4>2. saves[c].left \in SUBSET Tickers  BY <3>1 DEF Save
      <4>3. /\ saves' \in [Connections -> Save \cup {Idle}]
            /\ \A d \in Connections : saves'[d] # Idle => Sound(saves'[d].snap)
        BY <3>1, <4>1, <4>2, SaveContinues
      <4> QED
        BY <2>1, <2>4, <3>2, <3>4, <4>3 DEF DeleteRows, memory, TypeOK, AllSound
    <3> QED  BY <3>3, <3>4
  <2>5. CASE InsertRow(c)
    <3>1. saves[c] # Idle /\ saves[c] \in Save
      BY <2>2, <2>5 DEF InsertRow, Idle
    <3>2. PICK t \in saves[c].left :
             IF rows[t] # NoPos
             THEN Died(c) /\ UNCHANGED rows
             ELSE /\ rows' = [rows EXCEPT ![t] = saves[c].snap.positions[t]]
                  /\ IF saves[c].left = {t}
                     THEN Finished(c)
                     ELSE saves' = [saves EXCEPT ![c].left = @ \ {t}]
                          /\ UNCHANGED <<lost, reset>>
      BY <2>5 DEF InsertRow
    <3>3. t \in Tickers /\ saves[c].snap.positions[t] \in Position
      BY <3>1 DEF Save, Wallets
    <3>4. rows' \in [Tickers -> Position] /\ row' = row
      BY <2>5, <3>2, <3>3 DEF InsertRow, TypeOK
    <3>5. CASE Finished(c) \/ Died(c)
      BY <2>1, <3>4, <3>5, SaveEnded DEF memory, TypeOK, AllSound
    <3>6. CASE ~(Finished(c) \/ Died(c))
      <4>1. saves' = [saves EXCEPT ![c].left = @ \ {t}] /\ UNCHANGED <<lost, reset>>
        BY <3>2, <3>6
      <4>2. saves[c].at \in {"update", "delete", "insert"}
            /\ saves[c].left \ {t} \in SUBSET Tickers
        BY <3>1 DEF Save
      <4>3. saves' = [saves EXCEPT ![c] = [saves[c] EXCEPT !.at = saves[c].at,
                                                          !.left = saves[c].left \ {t}]]
        BY <3>1, <4>1 DEF Save, TypeOK
      <4>4. /\ saves' \in [Connections -> Save \cup {Idle}]
            /\ \A d \in Connections : saves'[d] # Idle => Sound(saves'[d].snap)
        BY <3>1, <4>2, <4>3, SaveContinues
      <4> QED  BY <2>1, <3>4, <4>1, <4>4 DEF memory, TypeOK, AllSound
    <3> QED  BY <3>5, <3>6
  <2>6. CASE SaveFails(c)
    BY <2>1, <2>6, SaveEnded DEF SaveFails, memory, tables, TypeOK, AllSound
  <2> QED  BY <2>3, <2>4, <2>5, <2>6
<1>5. CASE Start
  <2>1. mem' \in Wallets /\ Sound(mem')
    <3>1. Fresh(Capital) \in Wallets /\ Sound(Fresh(Capital))
      BY FreshSound, CapitalAssumption
    <3>2. Stored \in Wallets /\ Sound(Stored)
      BY DEF Stored, Wallets, Row, Sound, Accounted, TypeOK, AllSound
    <3> QED  BY <1>5, <3>1, <3>2 DEF Start
  <2> QED  BY <1>5, <2>1 DEF Start, tables, TypeOK, AllSound
<1>6. CASE Crash
  <2>1. faults' \in 0 .. MaxFaults
    BY <1>6, BoundsAssumption DEF Crash, Fault, TypeOK
  <2>2. /\ saves' \in [Connections -> Save \cup {Idle}]
        /\ \A c \in Connections : saves'[c] # Idle => Sound(saves'[c].snap)
    BY <1>6 DEF Crash
  <2>3. lost' \in BOOLEAN  BY <1>6 DEF Crash, TypeOK
  <2>4. reset' \in {"none", "saving", "saved"} /\ up' \in BOOLEAN
        /\ request' \in Trade \cup {None}
    BY <1>6 DEF Crash, TypeOK
  <2> QED
    BY <1>6, <2>1, <2>2, <2>3, <2>4 DEF Crash, tables, TypeOK, AllSound
<1>7. CASE PostgresDown
  <2>1. faults' \in 0 .. MaxFaults
    BY <1>7, BoundsAssumption DEF PostgresDown, Fault, TypeOK
  <2> QED  BY <1>7, <2>1 DEF PostgresDown, memory, tables, TypeOK, AllSound
<1>8. CASE PostgresBack
  BY <1>8 DEF PostgresBack, memory, tables, TypeOK, AllSound
<1>9. CASE UNCHANGED vars
  BY <1>9 DEF vars, memory, tables, TypeOK, AllSound
<1> QED
  BY <1>1, <1>2, <1>3, <1>4, <1>5, <1>6, <1>7, <1>8, <1>9 DEF Next

-------------------------------------------------------------------------------
(* The state stays within its types (and the counters within their bounds), *)
(* for any pool and any interleaving of saves, crashes and outages.         *)
THEOREM TypeCorrect == Spec => []TypeOK
<1>1. IInv => TypeOK  BY DEF IInv
<1> QED  BY <1>1, IInvInit, IInvStep, PTL DEF Spec

(* Equity is initial capital plus realized profit in memory and in the      *)
(* table, however the saves of db.py:138-150 overlap or break off.          *)
THEOREM MoneyIsAccounted == Spec => []EquityAccounted
<1>1. IInv => EquityAccounted  BY DEF IInv, AllSound, Sound, EquityAccounted
<1> QED  BY <1>1, IInvInit, IInvStep, PTL DEF Spec

(* No trade or restart leaves the wallet with negative cash                 *)
(* (wallet.py:34-79).                                                       *)
THEOREM CashStaysPositive == Spec => []CashNeverNegative
<1>1. IInv => CashNeverNegative  BY DEF IInv, AllSound, Sound, CashNeverNegative
<1> QED  BY <1>1, IInvInit, IInvStep, PTL DEF Spec

-------------------------------------------------------------------------------
(* What a restart loads.                                                    *)

(* A wallet, and the table of positions, lists only what is held.           *)
Listed(positions) == \A t \in Tickers : positions[t].qty = 0 => positions[t] = NoPos

HeldIsListed ==
    /\ Listed(mem.positions) /\ Listed(rows)
    /\ \A c \in Connections :
          saves[c] # Idle => /\ Listed(saves[c].snap.positions)
                             /\ saves[c].left \subseteq Held(saves[c].snap)

(* How far the save on c has got with the wallet in memory, if it is the    *)
(* only one: the row first, then the rows of the positions, one by one.     *)
Writing(c) ==
    /\ saves[c] # Idle /\ \A d \in Connections \ {c} : saves[d] = Idle
    /\ saves[c].snap = mem
    /\ saves[c].at # "insert" => saves[c].left = Held(mem)
    /\ saves[c].at # "update" => row = Money(mem)
    /\ saves[c].at = "insert" =>
          \A t \in Tickers : rows[t] = IF t \in saves[c].left THEN NoPos ELSE mem.positions[t]

(* Unless saves ran side by side, one is being written or the tables hold   *)
(* what memory holds; one that died is remembered.                          *)
TablesFollow ==
    /\ ~up => Quiet
    /\ ~mixed => (\E c \in Connections : Writing(c)) \/ (Quiet /\ (lost \/ Stored = mem))

Follows == IInv /\ HeldIsListed /\ TablesFollow

LEMMA OpenedListed ==
    ASSUME NEW w \in Wallets, NEW t \in Tickers, NEW qty \in Nat \ {0}, NEW price \in Nat,
           Listed(w.positions)
    PROVE  Listed(Opened(w, t, qty, price).positions)
<1> DEFINE p == [qty |-> w.positions[t].qty + qty, cost |-> w.positions[t].cost + qty * price]
<1>1. Opened(w, t, qty, price).positions = [w.positions EXCEPT ![t] = p]
  BY DEF Opened, Wallets
<1>2. w.positions \in [Tickers -> Position] /\ w.positions[t].qty \in Nat
  BY DEF Wallets, Position
<1>3. p.qty # 0
  BY <1>2
<1> HIDE DEF p
<1> QED  BY <1>1, <1>2, <1>3 DEF Listed

LEMMA ClosedListed ==
    ASSUME NEW w \in Wallets, NEW t \in Tickers, NEW qty \in Nat, NEW price \in Nat,
           CanClose(w, t), Listed(w.positions)
    PROVE  Listed(Closed(w, t, qty, price).positions)
<1> DEFINE k    == CloseQty(w, t, qty)
           back == Returned(w, t, k)
           pos  == w.positions[t]
           p    == IF k = pos.qty THEN NoPos ELSE [qty |-> pos.qty - k, cost |-> pos.cost - back]
<1>1. pos \in Position /\ pos.qty \in Nat /\ w.positions \in [Tickers -> Position]
  BY DEF Wallets, Position
<1>2. k \in 0 .. pos.qty  BY <1>1 DEF CloseQty
<1>3. Closed(w, t, qty, price).positions = [w.positions EXCEPT ![t] = p]
  BY DEF Closed, Wallets
<1> HIDE DEF k, back, pos
<1>4. p.qty = 0 => p = NoPos
  BY <1>1, <1>2 DEF NoPos
<1> HIDE DEF p
<1> QED  BY <1>1, <1>3, <1>4 DEF Listed

LEMMA TradedListed ==
    ASSUME NEW w \in Wallets, NEW r \in Trade, Listed(w.positions)
    PROVE  Listed(Traded(w, r).positions)
<1>1. r.ticker \in Tickers /\ r.qty \in Nat \ {0} /\ r.price \in Nat
  BY QtysAssumption, PricesAssumption DEF Trade
<1> QED  BY <1>1, OpenedListed, ClosedListed DEF Traded

(* A save begins with all that is held, and counts as mixed unless it is    *)
(* alone.                                                                   *)
LEMMA StartFollows ==
    ASSUME Follows, NEW b \in BOOLEAN, StartSave(mem', b), mem' \in Wallets,
           Listed(mem'.positions), UNCHANGED <<tables, up>>, up
    PROVE  HeldIsListed' /\ TablesFollow'
<1> DEFINE new == [at |-> "update", snap |-> mem', left |-> Held(mem'), resets |-> b]
<1>1. PICK c \in Connections :
         saves[c] = Idle /\ saves' = [saves EXCEPT ![c] = new] /\ mixed' = ~Quiet
  BY DEF StartSave
<1>2. /\ new.at = "update" /\ new.snap = mem' /\ new.left = Held(mem') /\ new # Idle
      /\ Held(mem') \subseteq Tickers
  BY DEF Idle, Held
<1>3. saves \in [Connections -> Save \cup {Idle}]
  BY DEF Follows, IInv, TypeOK
<1> HIDE DEF new
<1>4. saves'[c] = new /\ \A d \in Connections \ {c} : saves'[d] = saves[d]
  BY <1>1, <1>3
<1>5. HeldIsListed'
  <2>1. Listed(mem.positions)' /\ Listed(rows)'
    BY DEF Follows, HeldIsListed, tables, Listed
  <2>2. ASSUME NEW d \in Connections, saves'[d] # Idle
        PROVE  Listed(saves'[d].snap.positions) /\ saves'[d].left \subseteq Held(saves'[d].snap)
    <3>1. CASE d = c
      BY <1>2, <1>4, <3>1
    <3>2. CASE d # c
      BY <1>4, <2>2, <3>2 DEF Follows, HeldIsListed
    <3> QED  BY <3>1, <3>2
  <2>3. \A d \in Connections : saves'[d] # Idle =>
            (Listed(saves[d].snap.positions) /\ saves[d].left \subseteq Held(saves[d].snap))'
    BY <2>2 DEF Listed, Held
  <2> QED  BY <2>1, <2>3 DEF HeldIsListed
<1>6. TablesFollow'
  <2>1. ASSUME Quiet PROVE Writing(c)'
    BY <1>2, <1>4, <2>1 DEF Quiet, Writing, Held
  <2> QED  BY <1>1, <2>1 DEF TablesFollow
<1> QED  BY <1>5, <1>6

(* What a save does to its connection.                                      *)
LEMMA Proceeds ==
    ASSUME Follows, NEW c \in Connections, saves[c] # Idle, UNCHANGED memory,
           UNCHANGED mixed, Listed(rows)',
           \A d \in Connections \ {c} : saves'[d] = saves[d],
           \/ saves'[c] = Idle
           \/ saves'[c].snap = saves[c].snap /\ saves'[c].left \subseteq saves[c].left,
           Writing(c) => \/ Writing(c)'
                         \/ saves'[c] = Idle /\ (lost' \/ Stored' = mem')
    PROVE  HeldIsListed' /\ TablesFollow'
<1>1. HeldIsListed'
  <2>1. Listed(mem.positions)'
    BY DEF Follows, HeldIsListed, memory
  <2>2. ASSUME NEW d \in Connections, saves'[d] # Idle
        PROVE  Listed(saves'[d].snap.positions) /\ saves'[d].left \subseteq Held(saves'[d].snap)
    <3>1. saves[d] # Idle /\ saves'[d].snap = saves[d].snap /\ saves'[d].left \subseteq saves[d].left
      BY <2>2
    <3>2. Listed(saves[d].snap.positions) /\ saves[d].left \subseteq Held(saves[d].snap)
      BY <3>1 DEF Follows, HeldIsListed
    <3> QED  BY <3>1, <3>2
  <2>3. \A d \in Connections : saves'[d] # Idle =>
            (Listed(saves[d].snap.positions) /\ saves[d].left \subseteq Held(saves[d].snap))'
    BY <2>2 DEF Listed, Held
  <2> QED  BY <2>1, <2>3 DEF HeldIsListed
<1>2. ~Quiet
  BY DEF Quiet
<1>3. up' /\ UNCHANGED <<up, mem>>
  BY <1>2 DEF Follows, TablesFollow, memory
<1>4. ASSUME ~mixed' PROVE (\E d \in Connections : Writing(d)') \/ (Quiet' /\ (lost' \/ Stored' = mem'))
  <2>1. PICK d \in Connections : Writing(d)
    BY <1>2, <1>4 DEF Follows, TablesFollow
  <2>2. d = c
    BY <2>1 DEF Writing
  <2>3. \A e \in Connections \ {c} : saves'[e] = Idle
    BY <2>1, <2>2 DEF Writing
  <2> QED  BY <2>1, <2>2, <2>3 DEF Quiet
<1> QED  BY <1>1, <1>3, <1>4 DEF TablesFollow

LEMMA FollowsInit == Init => Follows
<1> SUFFICES ASSUME Init PROVE Follows  OBVIOUS
<1>1. Quiet /\ Listed(rows) /\ Listed(mem.positions)
  BY DEF Init, Quiet, Listed, Fresh
<1>2. Stored = mem
  BY DEF Init, Stored, Money, Fresh
<1>3. HeldIsListed
  BY <1>1 DEF HeldIsListed, Quiet
<1> QED  BY <1>1, <1>2, <1>3, IInvInit DEF Follows, TablesFollow

LEMMA FollowsStep == Follows /\ [Next]_vars => Follows'
<1> SUFFICES ASSUME Follows, [Next]_vars PROVE HeldIsListed' /\ TablesFollow'
  BY IInvStep DEF Follows
<1>0. IInv /\ TypeOK /\ HeldIsListed /\ TablesFollow
  BY DEF Follows, IInv
\* A step away from wallet, tables and saves.
<1>s. ASSUME UNCHANGED <<up, mem, saves, tables, mixed>>, lost => lost'
      PROVE  HeldIsListed' /\ TablesFollow'
  <2>1. HeldIsListed'
    BY <1>0, <1>s DEF HeldIsListed, tables, Listed, Held
  <2>2. Stored' = Stored /\ Quiet' = Quiet /\ \A c \in Connections : Writing(c)' <=> Writing(c)
    BY <1>s DEF Stored, Quiet, Writing, tables, Money, Held
  <2> QED  BY <1>0, <1>s, <2>1, <2>2 DEF TablesFollow
<1>1. CASE TradeArrives
  BY <1>1, <1>s DEF TradeArrives
<1>2. CASE LogTrade
  <2>1. request \in Trade /\ mem \in Wallets /\ Sound(mem) /\ Listed(mem.positions)
    BY <1>0, <1>2 DEF LogTrade, TypeOK, IInv, AllSound, HeldIsListed
  <2>2. mem' = Traded(mem, request) /\ mem' \in Wallets /\ Listed(mem'.positions)
    <3>1. mem' = Traded(mem, request)  BY <1>2 DEF LogTrade
    <3> QED  BY <2>1, <3>1, TradedSound, TradedListed
  <2>3. CASE Accepts(mem, request)
    <3>1. StartSave(mem', FALSE) /\ UNCHANGED <<tables, up>> /\ up
      BY <1>2, <2>3 DEF LogTrade
    <3> QED  BY <2>2, <3>1, StartFollows
  <2>4. CASE ~Accepts(mem, request)
    <3>1. mem' = mem
      BY <2>2, <2>4 DEF Accepts, Traded
    <3> QED  BY <1>2, <1>s, <2>4, <3>1 DEF LogTrade
  <2> QED  BY <2>3, <2>4
<1>3. CASE WalletReset
  <2>1. PICK capital \in ResetCapitals : mem' = Fresh(capital)  BY <1>3 DEF WalletReset
  <2>2. mem' \in Wallets
    BY <2>1, FreshSound, CapitalAssumption
  <2>3. Listed(mem'.positions)
    BY <2>1 DEF Fresh, Listed
  <2>4. StartSave(mem', TRUE) /\ UNCHANGED <<tables, up>> /\ up
    BY <1>3 DEF WalletReset
  <2> QED  BY <2>2, <2>3, <2>4, StartFollows
<1>4. CASE SaveStep
  <2> SUFFICES ASSUME NEW c \in Connections,
                      UpdateRow(c) \/ DeleteRows(c) \/ InsertRow(c) \/ SaveFails(c)
               PROVE  HeldIsListed' /\ TablesFollow'
    BY <1>4 DEF SaveStep
  <2>1. UNCHANGED memory /\ UNCHANGED mixed /\ mem' = mem
    BY DEF UpdateRow, DeleteRows, InsertRow, SaveFails, memory
  <2>2. /\ saves[c] # Idle /\ saves[c] \in Save /\ Listed(rows)
        /\ saves \in [Connections -> Save \cup {Idle}]
        /\ rows \in [Tickers -> Position] /\ mem \in Wallets
        /\ Listed(saves[c].snap.positions) /\ saves[c].left \subseteq Held(saves[c].snap)
    <3>1. saves[c] # Idle
      BY DEF UpdateRow, DeleteRows, InsertRow, SaveFails, Idle
    <3> QED  BY <1>0, <3>1 DEF TypeOK, HeldIsListed
  <2>e. ASSUME Finished(c) \/ Died(c)
        PROVE  saves'[c] = Idle /\ \A d \in Connections \ {c} : saves'[d] = saves[d]
    BY <2>2, <2>e DEF Finished, Died
  <2>3. CASE UpdateRow(c)
    <3>1. saves[c].at = "update" /\ row' = Money(saves[c].snap) /\ rows' = rows
      BY <2>3 DEF UpdateRow
    <3>2. /\ \A d \in Connections \ {c} : saves'[d] = saves[d]
          /\ saves'[c].at = "delete" /\ saves'[c].snap = saves[c].snap
          /\ saves'[c].left = saves[c].left /\ saves'[c] # Idle
      BY <2>2, <2>3 DEF UpdateRow, Save, Idle
    <3>3. ASSUME Writing(c) PROVE Writing(c)'
      <4>1. saves[c].left = Held(mem) /\ Held(mem)' = Held(mem)
        BY <2>1, <3>1, <3>3 DEF Writing, Held
      <4> QED  BY <2>1, <3>1, <3>2, <3>3, <4>1 DEF Writing, Money
    <3>4. Listed(rows)'
      BY <2>2, <3>1
    <3> QED  BY <2>1, <2>2, <3>2, <3>3, <3>4, Proceeds
  <2>4. CASE DeleteRows(c)
    <3>1. /\ saves[c].at = "delete" /\ rows' = [t \in Tickers |-> NoPos] /\ row' = row
      BY <2>4 DEF DeleteRows
    <3>2. Listed(rows)'
      BY <3>1 DEF Listed
    <3>3. CASE saves[c].left = {}
      <4>1. Finished(c)
        BY <2>4, <3>3 DEF DeleteRows
      <4>2. ASSUME Writing(c) PROVE Stored' = mem'
        <5>1. Held(mem) = {} /\ row = Money(mem)
          BY <3>1, <3>3, <4>2 DEF Writing
        <5>2. \A t \in Tickers : mem.positions[t] = NoPos
          BY <1>0, <2>2, <5>1 DEF Held, HeldIsListed, Listed, Wallets, Position
        <5>3. rows' = mem.positions
          BY <2>2, <3>1, <5>2 DEF Wallets
        <5> QED  BY <2>1, <2>2, <3>1, <5>1, <5>3 DEF Stored, Money, Wallets
      <4> QED  BY <2>1, <2>2, <2>e, <3>2, <4>1, <4>2, Proceeds
    <3>4. CASE saves[c].left # {}
      <4>1. /\ \A d \in Connections \ {c} : saves'[d] = saves[d]
            /\ saves'[c].at = "insert" /\ saves'[c].snap = saves[c].snap
            /\ saves'[c].left = saves[c].left /\ saves'[c] # Idle
        BY <2>2, <2>4, <3>4 DEF DeleteRows, Save, Idle
      <4>2. ASSUME Writing(c) PROVE Writing(c)'
        <5>1. saves[c].left = Held(mem) /\ row = Money(mem)
          BY <3>1, <4>2 DEF Writing
        <5>2. ASSUME NEW t \in Tickers
              PROVE  rows'[t] = IF t \in saves[c].left THEN NoPos ELSE mem.positions[t]
          BY <1>0, <2>2, <3>1, <5>1 DEF Held, HeldIsListed, Listed, Wallets, Position
        <5> QED  BY <2>1, <3>1, <4>1, <4>2, <5>1, <5>2 DEF Writing, Money
      <4> QED  BY <2>1, <2>2, <3>2, <4>1, <4>2, Proceeds
    <3> QED  BY <3>3, <3>4
  <2>5. CASE InsertRow(c)
    <3>1. PICK t \in saves[c].left :
             IF rows[t] # NoPos
             THEN Died(c) /\ UNCHANGED rows
             ELSE /\ rows' = [rows EXCEPT ![t] = saves[c].snap.positions[t]]
                  /\ IF saves[c].left = {t}
                     THEN Finished(c)
                     ELSE saves' = [saves EXCEPT ![c].left = @ \ {t}]
                          /\ UNCHANGED <<lost, reset>>
      BY <2>5 DEF InsertRow
    <3>2. saves[c].at = "insert" /\ row' = row /\ t \in Tickers
      BY <2>2, <2>5 DEF InsertRow, Save
    <3>3. CASE rows[t] # NoPos
      <4>1. Died(c) /\ rows' = rows /\ lost'
        BY <3>1, <3>3 DEF Died
      <4>2. Listed(rows)'
        BY <2>2, <4>1
      <4> QED  BY <2>1, <2>2, <2>e, <4>1, <4>2, Proceeds
    <3>4. CASE rows[t] = NoPos
      <4>1. rows' = [rows EXCEPT ![t] = saves[c].snap.positions[t]]
        BY <3>1, <3>4
      <4>2. \A u \in Tickers : rows'[u] = IF u = t THEN saves[c].snap.positions[t] ELSE rows[u]
        BY <2>2, <4>1
      <4>3. Listed(rows)'
        BY <2>2, <4>2 DEF Listed
      <4>4. CASE saves[c].left = {t}
        <5>1. Finished(c)
          BY <3>1, <3>4, <4>4
        <5>2. ASSUME Writing(c) PROVE Stored' = mem'
          <6>1. row = Money(mem) /\ saves[c].snap = mem
            BY <3>2, <5>2 DEF Writing
          <6>2. \A u \in Tickers : rows'[u] = mem.positions[u]
            BY <3>2, <4>2, <4>4, <5>2 DEF Writing
          <6>3. rows' \in [Tickers -> Position] /\ mem.positions \in [Tickers -> Position]
            BY <2>2, <4>1, <6>1 DEF Wallets
          <6>4. rows' = mem.positions
            BY <6>2, <6>3
          <6> QED  BY <2>1, <2>2, <3>2, <6>1, <6>4 DEF Stored, Money, Wallets
        <5> QED  BY <2>1, <2>2, <2>e, <4>3, <5>1, <5>2, Proceeds
      <4>5. CASE saves[c].left # {t}
        <5>1. saves' = [saves EXCEPT ![c].left = @ \ {t}]
          BY <3>1, <3>4, <4>5
        <5>2. /\ \A d \in Connections \ {c} : saves'[d] = saves[d]
              /\ saves'[c].at = "insert" /\ saves'[c].snap = saves[c].snap
              /\ saves'[c].left = saves[c].left \ {t} /\ saves'[c] # Idle
          BY <2>2, <3>2, <5>1 DEF Save, Idle
        <5>3. ASSUME Writing(c) PROVE Writing(c)'
          <6>1. ASSUME NEW u \in Tickers
                PROVE  rows'[u] = IF u \in saves[c].left \ {t} THEN NoPos ELSE mem.positions[u]
            BY <3>2, <4>2, <5>3 DEF Writing
          <6> QED  BY <2>1, <3>2, <5>2, <5>3, <6>1 DEF Writing, Money
        <5> QED  BY <2>1, <2>2, <4>3, <5>2, <5>3, Proceeds
      <4> QED  BY <4>4, <4>5
    <3> QED  BY <3>3, <3>4
  <2>6. CASE SaveFails(c)
    <3>1. Died(c) /\ rows' = rows /\ lost'
      BY <2>6 DEF SaveFails, Died, tables
    <3>2. Listed(rows)'
      BY <2>2, <3>1
    <3> QED  BY <2>1, <2>2, <2>e, <3>1, <3>2, Proceeds
  <2> QED  BY <2>3, <2>4, <2>5, <2>6
<1>5. CASE Start
  <2>1. Quiet /\ UNCHANGED <<saves, tables>> /\ up' /\ lost' = ~dbUp
        /\ mem' = IF dbUp THEN Stored ELSE Fresh(Capital)
    BY <1>0, <1>5 DEF Start, TablesFollow
  <2>2. Quiet' /\ Stored' = Stored
    BY <2>1 DEF Quiet, Stored, tables
  <2>3. Listed(mem.positions)' /\ Listed(rows)'
    BY <1>0, <2>1 DEF HeldIsListed, Stored, Fresh, Listed, tables
  <2>4. HeldIsListed'
    BY <2>2, <2>3 DEF HeldIsListed, Quiet
  <2>5. TablesFollow'
    BY <2>1, <2>2 DEF TablesFollow
  <2> QED  BY <2>4, <2>5
<1>6. CASE Crash
  <2>1. Quiet' /\ UNCHANGED <<mem, tables, mixed>> /\ lost' = (lost \/ ~Quiet)
    BY <1>6 DEF Crash, Quiet
  <2>2. HeldIsListed'
    BY <1>0, <2>1 DEF HeldIsListed, Quiet, tables, Listed
  <2>3. Stored' = Stored
    BY <2>1 DEF Stored, tables
  <2>4. ASSUME Quiet PROVE \A c \in Connections : ~Writing(c)
    BY <2>4 DEF Quiet, Writing
  <2>5. TablesFollow'
    BY <1>0, <2>1, <2>3, <2>4 DEF TablesFollow
  <2> QED  BY <2>2, <2>5
<1>7. CASE PostgresDown
  BY <1>7, <1>s DEF PostgresDown, memory
<1>8. CASE PostgresBack
  BY <1>8, <1>s DEF PostgresBack, memory
<1>9. CASE UNCHANGED vars
  BY <1>9, <1>s DEF vars, tables
<1> QED
  BY <1>1, <1>2, <1>3, <1>4, <1>5, <1>6, <1>7, <1>8, <1>9 DEF Next

(* What a restart loads, when no save died and the last was alone, is the   *)
(* wallet that was in memory (db.py:122-150, wallet.py load_from_db).       *)
THEOREM RestartsKeepWallet == Spec => RestartKeepsWallet
<1>1. Follows /\ [Next]_vars => [~up /\ up' /\ dbUp /\ ~lost /\ ~mixed => mem' = mem]_vars
  <2> SUFFICES ASSUME Follows, [Next]_vars, ~up, up', dbUp, ~lost, ~mixed PROVE mem' = mem
    OBVIOUS
  <2>1. Quiet /\ \A c \in Connections : ~Writing(c)
    BY DEF Follows, TablesFollow, Quiet, Writing
  <2>2. Stored = mem
    BY <2>1 DEF Follows, TablesFollow
  <2>3. SaveStep => up' = up
    BY DEF SaveStep, UpdateRow, DeleteRows, InsertRow, SaveFails, memory
  <2>4. Start
    BY <2>3 DEF Next, TradeArrives, LogTrade, WalletReset, Crash, PostgresDown, PostgresBack,
                memory, vars
  <2> QED  BY <2>2, <2>4 DEF Start
<1> QED  BY <1>1, FollowsInit, FollowsStep, PTL DEF Spec, RestartKeepsWallet

===============================================================================
