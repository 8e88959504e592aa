------------------------------ MODULE Execution ------------------------------
(***************************************************************************)
(* What the execution engine promises those who send it signals, whatever  *)
(* crashes and outages there are: each signal is executed at most once and *)
(* in the order of publication, and each result is that of an execution,   *)
(* is sent at most once and in that order, and is reckoned against a price *)
(* that was paid.  Engine implements it.                                   *)
(***************************************************************************)
EXTENDS Naturals

CONSTANTS
    Orders,           \* the signals there may be
    Buys, Sells       \* the directions that open and that close a position

VARIABLES
    accepted,         \* the orders the broker has taken
    placed,           \* how often it has taken one
    published         \* the results sent

vars == <<accepted, placed, published>>

Init == accepted = {} /\ placed = 0 /\ published = {}

Execute(o) ==
    /\ \A a \in accepted : a.id < o.id
    /\ accepted' = accepted \cup {o}
    /\ placed' = placed + 1
    /\ UNCHANGED published

\* Zero on zero is no profit.
Outcome(entry, exit) ==
    IF exit >= entry /\ (entry > 0 \/ exit > 0) THEN "WIN" ELSE "LOSS"

Send(o, status, entry) ==
    /\ \A r \in published : r.id < o.id
    /\ published' = published \cup
         {[id |-> o.id, ticker |-> o.ticker, status |-> status,
           entry |-> entry, exit |-> o.price]}
    /\ UNCHANGED <<accepted, placed>>

ReportBuy(o) ==
    /\ o.dir \in Buys
    /\ Send(o, "OPEN", o.price)

\* b is a purchase of what o sells.
ReportSell(o, b) ==
    /\ o.dir \in Sells
    /\ b.dir \in Buys /\ b.ticker = o.ticker
    /\ Send(o, Outcome(b.price, o.price), b.price)

Next ==
    \/ \E o \in Orders : Execute(o)
    \/ \E o \in accepted : ReportBuy(o)
    \/ \E o, b \in accepted : ReportSell(o, b)

Spec == Init /\ [][Next]_vars

===============================================================================
