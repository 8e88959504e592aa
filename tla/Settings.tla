------------------------------ MODULE Settings ------------------------------
(***************************************************************************)
(* The strategy's parameters: the JSON file of src/app/settings_store.py,  *)
(* the copy the trading loop runs with (strategy.py:148-170), and the      *)
(* optimizer's suggestions, from the analysis in the background to the     *)
(* operator's Approve button (src/app/router.py:685-796,                   *)
(* src/app/optimizer_bridge.py, src/app/templates/dashboard.html:440-500). *)
(*                                                                         *)
(* Handlers have no await between reading and writing, so each is one      *)
(* step; what can come between is what travels to the browsers, the        *)
(* analysis, a restart, and the instant at which write_text has truncated  *)
(* the file.                                                               *)
(***************************************************************************)
EXTENDS Integers, Sequences

CONSTANTS
    Keys,             \* the keys of DEFAULTS
    Bounded,          \* the keys of BOUNDS
    Lo, Hi,           \* BOUNDS, as functions of the bounded keys
    Default,          \* DEFAULTS, taken from the environment unchecked
    Fallback,         \* the second arguments of cfg.get in _load_config
    Inputs,           \* values a form or an LLM may send
    Bad,              \* a value dtype(v) rejects
    Suggestions,      \* lists of suggestions an LLM may return
    Browsers,
    None,
    MaxOps            \* bound on the operations

ASSUME BoundsAssumption ==
    /\ Bounded \subseteq Keys
    /\ Lo \in [Bounded -> Int] /\ Hi \in [Bounded -> Int]
    /\ \A k \in Bounded : Lo[k] <= Hi[k]
ASSUME ValuesAssumption ==
    /\ Inputs \subseteq Int /\ Bad \notin Int /\ None \notin Int
    /\ Default \in [Keys -> Int] /\ Fallback \in [Keys -> Int]
ASSUME SuggestionsAssumption ==
    Suggestions \subseteq Seq([param : STRING, value : Int \cup {Bad, None}])
\* The literals of strategy.py:151-155 respect the guardrails.  Nothing is assumed
\* of DEFAULTS: .env.example:73 sets a stop loss of 3.0 against bounds of 0.5 to 2.0.
ASSUME FallbackAssumption == \A k \in Bounded : Fallback[k] \in Lo[k] .. Hi[k]

VARIABLES
    file,             \* settings.json: a value for each key, or None
    fileIs,           \* "absent", "json", or "torn" after an interrupted write
    running,          \* the parameters the trading loop uses
    recs,             \* _recommendations
    garbled,          \* history: the last list was taken over only in part
    lastResult,       \* optimizer_bridge.last_result and optimizer.json
    analyses,         \* analyses under way
    linked,           \* the browsers whose /ws/optimizer is open
    mail,             \* what is on its way to each browser
    shown,            \* the list on each browser's page
    ops

vars == <<file, fileIs, running, recs, garbled, lastResult, analyses, linked, mail, shown, ops>>
storeVars == <<file, fileIs, running>>
recVars == <<recs, garbled, lastResult, analyses>>
pageVars == <<linked, mail, shown>>

Empty == [k \in Keys |-> None]

\* load(): a missing or unreadable file gives the defaults.
Load == [k \in Keys |-> IF file[k] = None THEN Default[k] ELSE file[k]]

\* max(min_val, min(max_val, val))
Guarded(k, v) ==
    IF k \notin Bounded THEN v
    ELSE IF v < Lo[k] THEN Lo[k] ELSE IF v > Hi[k] THEN Hi[k] ELSE v

\* What save keeps of its argument: known keys, converted and bounded.
Safe(data) ==
    [k \in Keys |-> IF data[k] \in {None, Bad} THEN None ELSE Guarded(k, data[k])]

\* Mutant of Reloaded: new values take effect at the next start.
ReloadedLater(safe) == [k \in Keys |-> IF safe[k] = None THEN Fallback[k] ELSE running[k]]

\* _on_settings_change(safe): the strategy takes its own default for a
\* missing key.
Reloaded(safe) == [k \in Keys |-> IF safe[k] = None THEN Fallback[k] ELSE safe[k]]

Pending(list) ==
    [i \in 1 .. Len(list) |->
        [param |-> list[i].param, value |-> list[i].value, status |-> "pending"]]

Init ==
    /\ file = Empty
    /\ fileIs = "absent"
    /\ running = Default
    /\ recs = <<>>
    /\ garbled = FALSE
    /\ lastResult = None
    /\ analyses = 0
    /\ linked = {}
    /\ mail = [b \in Browsers |-> <<>>]
    /\ shown = [b \in Browsers |-> <<>>]
    /\ ops = 0

Count == ops < MaxOps /\ ops' = ops + 1

-------------------------------------------------------------------------------
\* Mutant of Save: the callback gets what was posted.
SaveUnguarded(data) ==
    /\ file' = Safe(data)
    /\ fileIs' = "json"
    /\ running' = [k \in Keys |-> IF data[k] \in {None, Bad} THEN Fallback[k] ELSE data[k]]

\* settings_store.save(data), its file and its one callback.
Save(data) ==
    /\ file' = Safe(data)
    /\ fileIs' = "json"
    /\ running' = Reloaded(Safe(data))

\* POST /settings with any of the keys.
SaveSettings(data) ==
    /\ Count
    /\ Save(data)
    /\ UNCHANGED <<recVars, pageVars>>

\* write_text has opened the file for writing, and raises or never returns.
Torn ==
    /\ file' = Empty
    /\ fileIs' = "torn"
    /\ UNCHANGED running

SaveTorn ==
    /\ Count
    /\ Torn
    /\ UNCHANGED <<recVars, pageVars>>

-------------------------------------------------------------------------------
\* POST /optimize with recent trades.
Optimize ==
    /\ Count
    /\ analyses' = analyses + 1
    /\ UNCHANGED <<storeVars, recs, garbled, lastResult, pageVars>>

\* analyze_week: suggestions, or none (no trades, none made, or a failed LLM).
Answers == Suggestions \cup {<<>>}

\* optimizer_bridge.push: to every page that is connected.
Push(list) ==
    mail' = [b \in Browsers |-> IF b \in linked THEN Append(mail[b], list) ELSE mail[b]]

\* Mutant of RunOptimizer: new suggestions are added to the old ones.
RunOptimizerAppends(list) ==
    /\ analyses > 0
    /\ analyses' = analyses - 1
    /\ recs' = recs \o Pending(list)
    /\ garbled' = (garbled /\ list = <<>>)
    /\ lastResult' = list
    /\ Push(list)
    /\ UNCHANGED <<storeVars, linked, shown, ops>>

\* _run_optimizer after analyze_week: the suggestions replace the list, and
\* the result is stored and pushed.  A failed analysis has none.
RunOptimizer(list) ==
    /\ analyses > 0
    /\ analyses' = analyses - 1
    /\ recs' = IF list = <<>> THEN recs ELSE Pending(list)
    /\ garbled' = (garbled /\ list = <<>>)
    /\ lastResult' = list
    /\ Push(list)
    /\ UNCHANGED <<storeVars, linked, shown, ops>>

\* The n+1st item is no object: s.get raises with the list half filled, and
\* an error without suggestions is pushed.
RunOptimizerRaises(list, n) ==
    /\ analyses > 0
    /\ analyses' = analyses - 1
    /\ recs' = SubSeq(Pending(list), 1, n)
    /\ garbled' = TRUE
    /\ lastResult' = <<>>
    /\ Push(<<>>)
    /\ UNCHANGED <<storeVars, linked, shown, ops>>

\* cfg[param] = suggested; save drops a parameter DEFAULTS does not have.
With(rec) == IF rec.param \in Keys THEN [Load EXCEPT ![rec.param] = rec.value] ELSE Load

\* rec["status"] = "approved", and the parameter is saved if there is a value.
Approved(i) ==
    /\ recs' = [recs EXCEPT ![i].status = "approved"]
    /\ IF recs[i].value # None THEN Save(With(recs[i])) ELSE UNCHANGED storeVars

\* A click on Approve or Reject: the page names the suggestion by its index.
Approve(b, i) ==
    /\ Count
    /\ shown[b][i].status = "pending"
    /\ IF i <= Len(recs)
       THEN /\ Approved(i)
            /\ shown' = [shown EXCEPT ![b][i].status = "approved"]
       ELSE UNCHANGED <<storeVars, recs, shown>>
    /\ UNCHANGED <<garbled, lastResult, analyses, linked, mail>>

\* The same, but the write fails: the status is kept, the page gets an error.
ApproveTorn(b, i) ==
    /\ Count
    /\ shown[b][i].status = "pending"
    /\ i <= Len(recs) /\ recs[i].value # None
    /\ recs' = [recs EXCEPT ![i].status = "approved"]
    /\ Torn
    /\ UNCHANGED <<garbled, lastResult, analyses, pageVars>>

Reject(b, i) ==
    /\ Count
    /\ shown[b][i].status = "pending"
    /\ i <= Len(recs)
    /\ recs' = [recs EXCEPT ![i].status = "rejected"]
    /\ shown' = [shown EXCEPT ![b][i].status = "rejected"]
    /\ UNCHANGED <<storeVars, garbled, lastResult, analyses, linked, mail>>

\* What approve-all saves: the pending suggestions with a value, in order.
Wanted(k) == {i \in 1 .. Len(recs) :
    recs[i].status = "pending" /\ recs[i].param = k /\ recs[i].value # None}

WithAll == [k \in Keys |->
    IF Wanted(k) = {} THEN Load[k]
    ELSE recs[CHOOSE i \in Wanted(k) : \A j \in Wanted(k) : j <= i].value]

Applied == {i \in 1 .. Len(recs) : recs[i].status = "pending" /\ recs[i].value # None}

\* The list with the pending ones among indices given another status.
Marked(list, indices, status) == [i \in 1 .. Len(list) |->
    IF i \in indices /\ list[i].status = "pending"
    THEN [list[i] EXCEPT !.status = status] ELSE list[i]]

AllShown(b, status) == [shown EXCEPT ![b] = Marked(@, DOMAIN @, status)]

\* A click on Approve All; the write may fail here too.
ApproveAll(b) ==
    /\ Count
    /\ \E i \in 1 .. Len(shown[b]) : shown[b][i].status = "pending"
    /\ recs' = Marked(recs, Applied, "approved")
    /\ \/ /\ IF Applied # {} THEN Save(WithAll) ELSE UNCHANGED storeVars
          /\ shown' = AllShown(b, "approved")
       \/ Applied # {} /\ Torn /\ UNCHANGED shown
    /\ UNCHANGED <<garbled, lastResult, analyses, linked, mail>>

\* rejectAll(): the page tells nobody.
RejectAll(b) ==
    /\ Count
    /\ \E i \in 1 .. Len(shown[b]) : shown[b][i].status = "pending"
    /\ shown' = AllShown(b, "rejected")
    /\ UNCHANGED <<storeVars, recVars, linked, mail>>

-------------------------------------------------------------------------------
\* A page is loaded: an empty list, the last result sent, an analysis asked for.
OpenPage(b) ==
    /\ Count
    /\ linked' = linked \cup {b}
    /\ mail' = [mail EXCEPT ![b] = IF lastResult = None THEN <<>> ELSE <<lastResult>>]
    /\ shown' = [shown EXCEPT ![b] = <<>>]
    /\ analyses' = analyses + 1
    /\ UNCHANGED <<storeVars, recs, garbled, lastResult>>

\* ws.onmessage: an empty list of suggestions is ignored.
Receive(b) ==
    /\ mail[b] # <<>>
    /\ mail' = [mail EXCEPT ![b] = Tail(@)]
    /\ shown' = IF Head(mail[b]) = <<>> THEN shown
                ELSE [shown EXCEPT ![b] = Pending(Head(mail[b]))]
    /\ UNCHANGED <<storeVars, recVars, linked, ops>>

\* The socket closes; the page stays, and does not open another.
Unlink(b) ==
    /\ Count
    /\ b \in linked
    /\ linked' = linked \ {b}
    /\ mail' = [mail EXCEPT ![b] = <<>>]
    /\ UNCHANGED <<storeVars, recVars, shown>>

\* The service is restarted: _recommendations and analyses are gone, the two
\* files are read, all sockets are closed.
Restart ==
    /\ Count
    /\ running' = Load
    /\ recs' = <<>>
    /\ garbled' = FALSE
    /\ analyses' = 0
    /\ linked' = {}
    /\ mail' = [b \in Browsers |-> <<>>]
    /\ UNCHANGED <<file, fileIs, lastResult, shown>>

Page(b) ==
    \/ \E i \in 1 .. Len(shown[b]) : Approve(b, i) \/ ApproveTorn(b, i) \/ Reject(b, i)
    \/ ApproveAll(b) \/ RejectAll(b)
    \/ OpenPage(b) \/ Receive(b) \/ Unlink(b)

Next ==
    \/ \E data \in [Keys -> Inputs \cup {Bad, None}] : SaveSettings(data)
    \/ SaveTorn
    \/ Optimize
    \/ \E list \in Answers : RunOptimizer(list)
    \/ \E list \in Suggestions : \E n \in 0 .. Len(list) - 1 : RunOptimizerRaises(list, n)
    \/ \E b \in Browsers : Page(b)
    \/ Restart

Spec == Init /\ [][Next]_vars

-------------------------------------------------------------------------------
Status == {"pending", "approved", "rejected"}

TypeOK ==
    /\ file \in [Keys -> Int \cup {None}]
    /\ fileIs \in {"absent", "json", "torn"}
    /\ running \in [Keys -> Int]
    /\ \A i \in 1 .. Len(recs) : recs[i].status \in Status
    /\ garbled \in BOOLEAN
    /\ lastResult \in Answers \cup {None}
    /\ analyses \in Nat
    /\ linked \subseteq Browsers
    /\ DOMAIN mail = Browsers /\ DOMAIN shown = Browsers
    /\ \A b \in Browsers : \A i \in 1 .. Len(shown[b]) : shown[b][i].status \in Status
    /\ ops \in 0 .. MaxOps

(* Whatever a form or an LLM sends, however it is approved, and after a       *)
(* restart or a torn file: what is in the file keeps to the bounds, and so    *)
(* does what the trading loop makes of it; the loop leaves them only with the *)
(* value the environment gave it, which load passes on unchecked and the next *)
(* approval of any suggestion pulls back (settings_store.py:43-50, 54-71).     *)
WithinGuardrails ==
    \A k \in Bounded :
        /\ file[k] # None => file[k] \in Lo[k] .. Hi[k] /\ running[k] \in Lo[k] .. Hi[k]
        /\ running[k] \in Lo[k] .. Hi[k] \/ running[k] = Default[k]

(* A restart does not change the strategy: each parameter the loop runs with  *)
(* is the one the next start will load.  Left out are keys missing from a     *)
(* file that has others (the loop takes its own default, load another), and   *)
(* a torn file.                                                               *)
RunningIsStored ==
    \A k \in Keys :
        (fileIs = "absent" \/ (fileIs = "json" /\ file[k] # None)) => running[k] = Load[k]

(* The index a click sends names the suggestion the operator reads: a page    *)
(* whose socket is open and has nothing on its way shows the server's list,   *)
(* once both have one, unless the server has taken over half a list.          *)
ShownIsListed ==
    \A b \in linked :
        (~garbled /\ mail[b] = <<>> /\ shown[b] # <<>> /\ recs # <<>>) =>
            /\ Len(shown[b]) = Len(recs)
            /\ \A i \in 1 .. Len(recs) :
                  shown[b][i].param = recs[i].param /\ shown[b][i].value = recs[i].value

-------------------------------------------------------------------------------
(* Claims of the documentation that the code does not keep.                   *)

(* settings_store.py:62, "Risk Guardrails (SEBI/Safety)": the trading loop    *)
(* never runs with a bounded parameter outside its bounds.                    *)
GuardrailsHold == \A k \in Bounded : running[k] \in Lo[k] .. Hi[k]

(* docs/persistence_report.md:18 says that pending suggestions are persisted  *)
(* ("Optimizer recs | Pending suggestions | JSON file"): what is in the file  *)
(* can be approved.                                                           *)
SuggestionsSurvive ==
    (lastResult # None /\ lastResult # <<>>) => recs # <<>>

===============================================================================
