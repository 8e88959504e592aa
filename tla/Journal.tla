------------------------------- MODULE Journal -------------------------------
(***************************************************************************)
(* What becomes of a trade result: the orchestrator's subscription and its *)
(* signalLoop (src/cmd/orchestrator/main.go), and the two handlers of the  *)
(* memory service it posts to, /postmortem and /dash/trade                 *)
(* (src/app/router.py), with the LLM's attempts, the audit trail, the      *)
(* memory of lessons, the trades table, the rules table and the wallet.    *)
(*                                                                         *)
(* The handlers run in one asyncio loop.  /postmortem has no await: while  *)
(* it asks the LLM nothing else in the memory service runs.                *)
(***************************************************************************)
EXTENDS Naturals, Sequences, SequencesExt

CONSTANTS
    MaxResults,       \* bound on the results the engine publishes
    ChanSize,         \* size of the channel of pubsub.Channel()
    Attempts,         \* max_retries + 1 of generate_json
    MaxFaults,        \* bound on deaths of processes and on failed writes
    None

ASSUME SizesAssumption ==
    MaxResults \in Nat /\ ChanSize \in Nat \ {0} /\ Attempts \in Nat \ {0} /\ MaxFaults \in Nat
ASSUME NoneAssumption == None \notin Nat

Results == 1 .. MaxResults        \* numbered in the order of publication

VARIABLES
    published,        \* number of results published so far
    losses,           \* the results that are losses of 0.1 % or more
    socket,           \* results that have reached the orchestrator's connection
    chan,             \* the Go channel
    opc,              \* where signalLoop stands: "down", "recv", "postmortem", "push"
    current,          \* the result it handles, or None
    requests,         \* posts that have reached the memory service, not yet handled
    up,               \* the memory service runs
    llm,              \* the post-mortem that blocks the event loop, or None
    trades,           \* where each /dash/trade handler stands: "row", "book"
    memory,           \* LanceDB trading_memory: losses with a lesson
    audit,            \* LanceDB audit_trail
    rows,             \* Postgres: table trades
    booked,           \* results given to the wallet, in order
    rules,            \* rules whose save_postmortem task has not run yet
    table,            \* Postgres: rules in table events
    lost,             \* history: results dropped before or at the memory service
    orphans,          \* history: results whose sender died before the answer
    unaudited,        \* history: results whose audit record could not be written
    faults

vars == <<published, losses, socket, chan, opc, current, requests, up, llm, trades, memory, audit,
          rows, booked, rules, table, lost, orphans, unaudited, faults>>
orchVars == <<socket, chan, opc, current>>
storeVars == <<memory, audit, rows, booked, rules, table>>
historyVars == <<lost, orphans, unaudited>>

Post(what, r) == [what |-> what, result |-> r]
AllPosts == [what : {"postmortem", "trade"}, result : Results]
Analyses == [result : Results, attempt : 1 .. Attempts, at : {"ask", "audit"}]

Init ==
    /\ published = 0
    /\ losses \in SUBSET Results
    /\ socket = <<>> /\ chan = <<>>
    /\ opc = "down" /\ current = None
    /\ requests = {}
    /\ up = FALSE
    /\ llm = None
    /\ trades = [r \in Results |-> "none"]
    /\ memory = {} /\ audit = <<>> /\ rows = <<>> /\ booked = <<>>
    /\ rules = {} /\ table = {}
    /\ lost = {} /\ orphans = {} /\ unaudited = {}
    /\ faults = 0

Fault == faults < MaxFaults /\ faults' = faults + 1

-------------------------------------------------------------------------------
(* The subscription.                                                         *)

\* The engine publishes; Redis drops what nobody subscribes to.
Publish ==
    /\ published < MaxResults
    /\ published' = published + 1
    /\ IF opc = "down"
       THEN lost' = lost \cup {published + 1} /\ UNCHANGED socket
       ELSE socket' = Append(socket, published + 1) /\ UNCHANGED lost
    /\ UNCHANGED <<losses, chan, opc, current, requests, up, llm, trades, storeVars, orphans,
                   unaudited, faults>>

\* go-redis reads a message into the channel ...
Enqueue ==
    /\ socket # <<>> /\ Len(chan) < ChanSize
    /\ chan' = Append(chan, Head(socket))
    /\ socket' = Tail(socket)
    /\ UNCHANGED <<published, losses, opc, current, requests, up, llm, trades, storeVars,
                   historyVars, faults>>

\* ... or has waited a minute for room in it and gives the message up.
GiveUp ==
    /\ socket # <<>> /\ Len(chan) = ChanSize
    /\ lost' = lost \cup {Head(socket)}
    /\ socket' = Tail(socket)
    /\ UNCHANGED <<published, losses, chan, opc, current, requests, up, llm, trades, storeVars,
                   orphans, unaudited, faults>>

-------------------------------------------------------------------------------
(* signalLoop.  A post to a service that is down fails at once; an error is  *)
(* logged or dropped.                                                        *)

\* Mutant of PushTradeToDash: it runs in a goroutine of its own.
PushTradeToDashGo(r) ==
    /\ opc' = "recv" /\ current' = None
    /\ IF up THEN requests' = requests \cup {Post("trade", r)} /\ UNCHANGED lost
             ELSE lost' = lost \cup {r} /\ UNCHANGED requests

\* pushTradeToDash(result, memoryURL)
PushTradeToDash(r) ==
    IF up
    THEN /\ opc' = "push" /\ current' = r
         /\ requests' = requests \cup {Post("trade", r)}
         /\ UNCHANGED lost
    ELSE /\ opc' = "recv" /\ current' = None
         /\ lost' = lost \cup {r}
         /\ UNCHANGED requests

\* runPostMortem(result, memoryURL); fetchMarketState before it changes nothing.
RunPostMortem(r) ==
    /\ up
    /\ opc' = "postmortem" /\ current' = r
    /\ requests' = requests \cup {Post("postmortem", r)}
    /\ UNCHANGED lost

\* A loss has a post-mortem first, if its post gets through (the service may
\* be down for it and up again for the push).
Receive ==
    /\ opc = "recv" /\ chan # <<>>
    /\ chan' = Tail(chan)
    /\ \/ Head(chan) \in losses /\ RunPostMortem(Head(chan))
       \/ PushTradeToDash(Head(chan))
    /\ UNCHANGED <<published, losses, socket, up, llm, trades, storeVars, orphans, unaudited,
                   faults>>

\* The answer to a post, if the process that sent it still waits for it.
Answer(what, r) ==
    IF current # r THEN UNCHANGED <<opc, current>> /\ requests' = requests \ {Post(what, r)}
    ELSE IF what = "postmortem"
         THEN /\ opc' = "push" /\ UNCHANGED current
              /\ requests' = (requests \ {Post(what, r)}) \cup {Post("trade", r)}
         ELSE /\ opc' = "recv" /\ current' = None
              /\ requests' = requests \ {Post(what, r)}

-------------------------------------------------------------------------------
(* POST /postmortem.                                                         *)

Free == up /\ llm = None

RunPostmortem(r) ==
    /\ Free
    /\ Post("postmortem", r) \in requests
    /\ llm' = [result |-> r, attempt |-> 1, at |-> "ask"]
    /\ UNCHANGED <<published, losses, orchVars, requests, up, trades, storeVars, historyVars,
                   faults>>

Asking == up /\ llm # None /\ llm.at = "ask"

\* Mutant of AttemptFails: it is tried until it succeeds.
AttemptFailsForEver ==
    /\ Asking
    /\ llm' = [llm EXCEPT !.attempt = IF @ < Attempts THEN @ + 1 ELSE 1]
    /\ UNCHANGED <<published, losses, orchVars, requests, up, trades, storeVars, historyVars,
                   faults>>

\* An exception, an empty answer, or JSON beyond repair; the last one raises,
\* and the handler with it.
AttemptFails ==
    /\ Asking
    /\ IF llm.attempt < Attempts
       THEN llm' = [llm EXCEPT !.attempt = @ + 1] /\ UNCHANGED <<opc, current, requests>>
       ELSE llm' = None /\ Answer("postmortem", llm.result)
    /\ UNCHANGED <<published, losses, socket, chan, up, trades, storeVars, historyVars, faults>>

\* An answer that is JSON but not a CriticResponse, or a failing store.store.
AnswerIsUseless ==
    /\ Asking
    /\ llm' = None
    /\ Answer("postmortem", llm.result)
    /\ UNCHANGED <<published, losses, socket, chan, up, trades, storeVars, historyVars, faults>>

\* Mutant of Remember: the rule is announced before the lesson is stored.
RememberLater ==
    /\ Asking
    /\ llm' = [llm EXCEPT !.at = "audit"]
    /\ rules' = rules \cup {llm.result}
    /\ memory' \in {memory, memory \cup {llm.result}}
    /\ UNCHANGED <<published, losses, orchVars, requests, up, trades, audit, rows, booked, table,
                   historyVars, faults>>

\* store.store(entry); add_postmortem starts a task that saves the rule.
Remember ==
    /\ Asking
    /\ llm' = [llm EXCEPT !.at = "audit"]
    /\ memory' = memory \cup {llm.result}
    /\ rules' = rules \cup {llm.result}
    /\ UNCHANGED <<published, losses, orchVars, requests, up, trades, audit, rows, booked, table,
                   historyVars, faults>>

\* audit_log("postmortem", ...), which swallows its errors, and the answer.
AuditPostmortem ==
    /\ up /\ llm # None /\ llm.at = "audit"
    /\ \/ audit' = Append(audit, Post("postmortem", llm.result)) /\ UNCHANGED faults
       \/ Fault /\ UNCHANGED audit
    /\ llm' = None
    /\ Answer("postmortem", llm.result)
    /\ UNCHANGED <<published, losses, socket, chan, up, trades, memory, rows, booked, rules, table,
                   historyVars>>

\* The task of add_postmortem.
SaveRule(r) ==
    /\ Free
    /\ r \in rules
    /\ rules' = rules \ {r}
    /\ \/ table' = table \cup {r} /\ UNCHANGED faults
       \/ Fault /\ UNCHANGED table
    /\ UNCHANGED <<published, losses, orchVars, requests, up, llm, trades, memory, audit, rows,
                   booked, historyVars>>

-------------------------------------------------------------------------------
(* POST /dash/trade.                                                         *)

\* Mutant of LogTrade: only losses are audited.
LogTradeLosses(r) ==
    /\ Free
    /\ Post("trade", r) \in requests /\ trades[r] = "none"
    /\ audit' = IF r \in losses THEN Append(audit, Post("trade", r)) ELSE audit
    /\ trades' = [trades EXCEPT ![r] = "row"]
    /\ UNCHANGED <<published, losses, orchVars, requests, up, llm, memory, rows, booked, rules,
                   table,
                   historyVars, faults>>

\* audit_log("trade", ...); the handler goes on to await db.log_trade.
LogTrade(r) ==
    /\ Free
    /\ Post("trade", r) \in requests /\ trades[r] = "none"
    /\ \/ audit' = Append(audit, Post("trade", r)) /\ UNCHANGED <<unaudited, faults>>
       \/ Fault /\ unaudited' = unaudited \cup {r} /\ UNCHANGED audit
    /\ trades' = [trades EXCEPT ![r] = "row"]
    /\ UNCHANGED <<published, losses, orchVars, requests, up, llm, memory, rows, booked, rules,
                   table,
                   lost, orphans>>

\* Postgres inserts the row, or raises and the handler skips it.
InsertTrade(r) ==
    /\ up
    /\ trades[r] = "row"
    /\ \/ rows' = Append(rows, r) /\ UNCHANGED faults
       \/ Fault /\ UNCHANGED rows
    /\ trades' = [trades EXCEPT ![r] = "book"]
    /\ UNCHANGED <<published, losses, orchVars, requests, up, llm, memory, audit, booked, rules,
                   table,
                   historyVars>>

\* The handler resumes: the wallet, the event, the answer.
BookTrade(r) ==
    /\ Free
    /\ trades[r] = "book"
    /\ booked' = Append(booked, r)
    /\ trades' = [trades EXCEPT ![r] = "none"]
    /\ Answer("trade", r)
    /\ UNCHANGED <<published, losses, socket, chan, up, llm, memory, audit, rows, rules, table,
                   historyVars, faults>>

-------------------------------------------------------------------------------
(* Lives of the two processes.                                               *)

OrchestratorStarts ==
    /\ opc = "down"
    /\ opc' = "recv"
    /\ UNCHANGED <<published, losses, socket, chan, current, requests, up, llm, trades, storeVars,
                   historyVars, faults>>

\* What it has not read is lost; what it has posted goes on.
OrchestratorDies ==
    /\ Fault
    /\ opc # "down"
    /\ opc' = "down" /\ current' = None
    /\ lost' = lost \cup ToSet(socket) \cup ToSet(chan)
                 \cup (IF opc = "postmortem" THEN {current} ELSE {})
    /\ orphans' = orphans \cup ({current} \ {None})
    /\ socket' = <<>> /\ chan' = <<>>
    /\ UNCHANGED <<published, losses, requests, up, llm, trades, storeVars, unaudited>>

MemoryStarts ==
    /\ ~up
    /\ up' = TRUE
    /\ UNCHANGED <<published, losses, orchVars, requests, llm, trades, storeVars, historyVars,
                   faults>>

\* Its handlers and tasks die with it, and the orchestrator's post fails.
\* After a failed post-mortem it tries to push the trade, which fails too.
\* (If the service is up again by then, see MemoryBlinks.)
Broken ==
    /\ llm' = None
    /\ trades' = [r \in Results |-> "none"]
    /\ rules' = {}
    /\ UNCHANGED <<published, losses, socket, chan, memory, audit, rows, booked, table, orphans,
                   unaudited>>

\* Mutant of MemoryDies: a failed post is repeated.
MemoryDiesRetried ==
    /\ Fault
    /\ up
    /\ IF opc = "push"
       THEN up' = TRUE /\ requests' = {Post("trade", current)} /\ UNCHANGED <<opc, current, lost>>
       ELSE /\ up' = FALSE
            /\ requests' = {}
            /\ lost' = lost \cup ({current} \ {None})
            /\ opc' = (IF opc = "down" THEN "down" ELSE "recv") /\ current' = None
    /\ Broken

MemoryDies ==
    /\ Fault
    /\ up
    /\ up' = FALSE
    /\ requests' = {}
    /\ lost' = lost \cup ({current} \ {None})
    /\ opc' = (IF opc = "down" THEN "down" ELSE "recv") /\ current' = None
    /\ Broken

\* It dies during a post-mortem and is up again when the trade is pushed.
MemoryBlinks ==
    /\ Fault
    /\ up /\ opc = "postmortem"
    /\ opc' = "push"
    /\ requests' = {Post("trade", current)}
    /\ UNCHANGED <<up, current, lost>>
    /\ Broken

-------------------------------------------------------------------------------
Subscription == Enqueue \/ GiveUp
Handlers ==
    \/ \E r \in Results :
          RunPostmortem(r) \/ SaveRule(r) \/ LogTrade(r) \/ InsertTrade(r) \/ BookTrade(r)
    \/ AttemptFails \/ AnswerIsUseless \/ Remember \/ AuditPostmortem

Next ==
    \/ Publish \/ Subscription \/ Receive
    \/ Handlers
    \/ OrchestratorStarts \/ OrchestratorDies
    \/ MemoryStarts \/ MemoryDies \/ MemoryBlinks

Spec == Init /\ [][Next]_vars

\* docker restarts both services; an attempt of the LLM ends (its clients have
\* time-outs, but for Gemini's, providers.py:226, of which this is assumed) and the
\* attempts are counted; Postgres answers or raises.
FairSpec ==
    /\ Spec
    /\ WF_vars(Subscription) /\ WF_vars(Receive)
    /\ WF_vars(OrchestratorStarts) /\ WF_vars(MemoryStarts)
    /\ WF_vars(AttemptFails \/ AnswerIsUseless \/ Remember \/ AuditPostmortem)
    /\ \A r \in Results :
          WF_vars(RunPostmortem(r)) /\ WF_vars(LogTrade(r) \/ InsertTrade(r) \/ BookTrade(r))

-------------------------------------------------------------------------------
TypeOK ==
    /\ published \in 0 .. MaxResults
    /\ losses \subseteq Results
    /\ socket \in Seq(Results)
    /\ chan \in Seq(Results) /\ Len(chan) <= ChanSize
    /\ opc \in {"down", "recv", "postmortem", "push"}
    /\ current \in Results \cup {None} /\ (current # None <=> opc \in {"postmortem", "push"})
    /\ requests \subseteq AllPosts
    /\ up \in BOOLEAN
    /\ llm \in Analyses \cup {None}
    /\ trades \in [Results -> {"none", "row", "book"}]
    /\ memory \subseteq Results /\ rules \subseteq Results /\ table \subseteq Results
    /\ audit \in Seq(AllPosts)
    /\ rows \in Seq(Results) /\ booked \in Seq(Results)
    /\ lost \subseteq Results /\ orphans \subseteq Results /\ unaudited \subseteq Results
    /\ faults \in 0 .. MaxFaults

(* No trade is counted twice: whichever process dies when, a result is        *)
(* audited, listed in the trades table and booked in the wallet at most once. *)
CountedOnce ==
    IsInjective(audit) /\ IsInjective(rows) /\ IsInjective(booked)

(* "SEBI audit trail" (router.py:298): the record comes first.  Whatever      *)
(* reaches the trades table or the wallet is in the audit trail, unless       *)
(* writing that record itself failed.                                         *)
AuditedFirst ==
    \A r \in ToSet(rows) \cup ToSet(booked) :
        Contains(audit, Post("trade", r)) \/ r \in unaudited

(* A SELL is never booked before its BUY: the wallet gets the results in the  *)
(* order of the engine, except for one whose post outlived the orchestrator   *)
(* that sent it.                                                              *)
BookedInOrder ==
    \A i, j \in 1 .. Len(booked) :
        i < j => booked[i] < booked[j] \/ booked[j] \in orphans

(* A rule shown to the operator as learnt is a rule the pre-trade check can   *)
(* find: the two are kept in two databases, and the one that decides is       *)
(* written first.                                                             *)
RuleIsRemembered == (rules \cup table) \subseteq memory

(* What the orchestrator has received it deals with: the result comes to be   *)
(* booked, or a process died or a channel was full on its way.  A post-mortem *)
(* that fails, at whatever step, does not hold up the results behind it.      *)
ReceivedIsSettled ==
    \A r \in Results :
        Contains(socket, r) \/ Contains(chan, r) ~> Contains(booked, r) \/ r \in lost \cup orphans

(* vector_store.py:118, "append-only log of all trading events": a trade the  *)
(* engine has executed is in the audit trail, or on its way there.            *)
AllAudited ==
    \A r \in 1 .. published :
        \/ Contains(audit, Post("trade", r))
        \/ Contains(socket, r) \/ Contains(chan, r) \/ current = r
        \/ Post("trade", r) \in requests \/ r \in unaudited

===============================================================================
