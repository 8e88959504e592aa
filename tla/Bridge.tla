------------------------------- MODULE Bridge -------------------------------
(***************************************************************************)
(* The three loops that push state to the browsers                         *)
(* (src/app/dashboard_bridge.py) and their websocket endpoints             *)
(* (src/app/main.py:275-295, 324-339).  All run in one asyncio loop, so    *)
(* they interleave only at awaits: the build of a payload, where it asks   *)
(* the database or a thread, and every send.                               *)
(*   "dashboard"  builds when dirty or every 5 s, skips an unchanged payload *)
(*   "wallet"     builds when dirty, without an await, and always sends    *)
(*   "services"   builds every 30 s in a thread, skips an unchanged payload *)
(***************************************************************************)
EXTENDS Integers, Sequences, SequencesExt

CONSTANTS
    Clients,          \* the sockets browsers may open; a page that reconnects has a new one
    States,           \* what there is to show
    MaxEvents,        \* bound on changes, joins, disconnections and time-outs
    None

ASSUME StatesAssumption == None \notin States /\ States # {}
ASSUME MaxEventsAssumption == MaxEvents \in Nat

Kinds == {"dashboard", "wallet", "services"}

VARIABLES
    kind,             \* which of the three loops this is; never changes
    state,            \* what _build would return now
    dirty,            \* self._dirty
    last,             \* last_payload or last_state
    clients,          \* self.clients
    pc,               \* where run stands: "sleep", "build", "send", "await"
    payload,          \* what is built or being sent
    next,             \* index of the list iterator over self.clients
    target,           \* the client the pending send is for
    dead,             \* the sends that failed
    joined,           \* the sockets accepted so far
    open,             \* the sockets that have not closed
    initial,          \* a client's state read by send_initial, not yet sent, or None
    listening,        \* the sockets whose endpoint has come to receive_text
    shown,            \* what each page shows; None before its first message and when it has gone
    behind,           \* history: the clients left behind by one of the windows below
    unremoved,        \* history: the closed sockets whose endpoint ended without remove
    events

bridgeVars == <<kind, state, dirty, last, clients, pc, payload, next, target, dead, joined, open,
          initial, listening, shown, behind, unremoved, events>>
loopVars == <<last, pc, payload, next, target, dead>>
socketVars == <<joined, open, initial, listening>>

\* The endpoint of c is still to come to its remove.
Served(c) == initial[c] # None \/ c \in listening

\* The loop stands at an await, and other tasks may run.
Awaiting == pc # "send"

BridgeInit ==
    /\ kind \in Kinds
    /\ state \in States
    /\ dirty = (kind = "wallet")
    /\ last = None
    /\ clients = <<>>
    /\ pc = "sleep"
    /\ payload = None
    /\ next = 1
    /\ target = None
    /\ dead = {}
    /\ joined = {} /\ open = {} /\ listening = {}
    /\ initial = [c \in Clients |-> None]
    /\ shown = [c \in Clients |-> None]
    /\ behind = {} /\ unremoved = {}
    /\ events = 0

Count == events < MaxEvents /\ events' = events + 1

-------------------------------------------------------------------------------
\* Mutant of Change: mark_dirty is forgotten.
ChangeUnmarked ==
    /\ Count
    /\ Awaiting
    /\ state' \in States \ {state}
    /\ UNCHANGED <<kind, dirty, clients, loopVars, socketVars, shown, behind, unremoved>>

\* A trade, an event, a position: the state changes and mark_dirty is called.
\* A service going up or down marks nothing.
Change ==
    /\ Count
    /\ Awaiting
    /\ state' \in States \ {state}
    /\ dirty' = (dirty \/ kind # "services")
    /\ UNCHANGED <<kind, clients, loopVars, socketVars, shown, behind, unremoved>>

\* send_initial up to its first await.  The wallet's state is built and handed to
\* the socket at once; window 1: the build raises, which is swallowed.
ReadInitial(c) ==
    IF kind = "wallet"
    THEN /\ listening' = listening \cup {c}
         /\ \/ shown' = [shown EXCEPT ![c] = state] /\ UNCHANGED behind
            \/ behind' = behind \cup {c} /\ UNCHANGED shown
         /\ UNCHANGED initial
    ELSE initial' = [initial EXCEPT ![c] = state] /\ UNCHANGED <<listening, shown, behind>>

\* accept, add, and the first half of send_initial.
Join(c) ==
    /\ Count
    /\ Awaiting
    /\ c \notin joined
    /\ joined' = joined \cup {c}
    /\ open' = open \cup {c}
    /\ clients' = Append(clients, c)
    /\ ReadInitial(c)
    /\ UNCHANGED <<kind, state, dirty, loopVars, unremoved>>

\* The rest of send_initial.  Window 1 again: the build or the send raises, or the
\* loop has shown this client something newer in the meantime.  When the socket
\* has closed the send raises too; then receive_text raises WebSocketDisconnect,
\* or a RuntimeError (the send has marked the socket), which nobody catches.
SendInitial(c) ==
    /\ Awaiting
    /\ initial[c] # None
    /\ initial' = [initial EXCEPT ![c] = None]
    /\ IF c \in open
       THEN /\ \/ /\ shown' = [shown EXCEPT ![c] = initial[c]]
                  /\ behind' = IF shown[c] \notin {None, initial[c]} THEN behind \cup {c}
                               ELSE behind
               \/ behind' = behind \cup {c} /\ UNCHANGED shown
            /\ listening' = listening \cup {c}
            /\ UNCHANGED unremoved
       ELSE /\ \/ listening' = listening \cup {c} /\ UNCHANGED unremoved
               \/ unremoved' = unremoved \cup {c} /\ UNCHANGED listening
            /\ UNCHANGED <<shown, behind>>
    /\ UNCHANGED <<kind, state, dirty, clients, loopVars, joined, open, events>>

\* The browser goes, or a ping is not answered; or it sends a frame that is not
\* text: receive_text raises a KeyError, the endpoint ends and the server closes
\* the socket.
Disconnect(c) ==
    /\ Count
    /\ Awaiting
    /\ c \in open
    /\ open' = open \ {c}
    /\ shown' = [shown EXCEPT ![c] = None]
    /\ behind' = behind \ {c}
    /\ \/ UNCHANGED <<listening, unremoved>>
       \/ /\ c \in listening
          /\ listening' = listening \ {c}
          /\ unremoved' = unremoved \cup {c}
    /\ UNCHANGED <<kind, state, dirty, clients, loopVars, joined, initial>>

\* self.remove(ws) for each of those gone, in any order: nobody is listed twice.
Unless(gone, c, list) == IF c \in gone THEN list ELSE Append(list, c)
Without(gone) ==
    LET upto[n \in 0 .. Len(clients)] ==
            IF n = 0 THEN <<>> ELSE Unless(gone, clients[n], upto[n - 1])
    IN  upto[Len(clients)]

\* Mutant of Removed: nothing is removed.
RemovedNot(c) == clients

Removed(c) == Without({c})

Position(c) == CHOOSE i \in 1 .. Len(clients) : clients[i] = c

\* receive_text raises WebSocketDisconnect: remove(ws).  Window 2: the loop is
\* iterating over the list past this place, so the next client moves under the
\* iterator.
Leave(c) ==
    /\ Awaiting
    /\ c \in listening \ open
    /\ listening' = listening \ {c}
    /\ clients' = Removed(c)
    /\ behind' = behind \cup
         {d \in open : pc = "await" /\ Contains(clients, c) /\ Position(c) < next
                        /\ next <= Len(clients) /\ d = clients[next]}
    /\ UNCHANGED <<kind, state, dirty, loopVars, joined, open, initial, shown, unremoved, events>>

-------------------------------------------------------------------------------
Skips == kind # "wallet"

\* The payload is built.  Window 3: it is the last one again, and not sent,
\* although a client has been shown another by send_initial since.
Push(p) ==
    /\ IF Skips /\ p = last
       THEN /\ pc' = "sleep"
            /\ behind' = behind \cup {c \in open : shown[c] \notin {None, p}}
            /\ UNCHANGED <<last, payload, next>>
       ELSE /\ pc' = "send"
            /\ last' = p
            /\ payload' = p
            /\ next' = 1
            /\ UNCHANGED behind
    /\ dead' = {}
    /\ UNCHANGED <<kind, state, clients, target, socketVars, shown, unremoved, events>>

\* The sleep is over and there is something to build.  The dashboard's five
\* seconds may always have passed.
Wake ==
    /\ pc = "sleep"
    /\ clients # <<>>
    /\ kind = "wallet" => dirty
    /\ dirty' = FALSE
    /\ IF kind = "wallet"
       THEN Push(state)
       ELSE /\ pc' = "build"
            /\ payload' = state
            /\ UNCHANGED <<kind, state, last, clients, next, target, dead, socketVars, shown,
                         behind, unremoved, events>>

\* The database or the thread has answered.
Built ==
    /\ pc = "build"
    /\ Push(payload)
    /\ UNCHANGED dirty

\* The build raises, and the loop goes on with the dirty flag cleared.  Window 4:
\* nothing builds the wallet's state again until it changes.
BuildRaises ==
    /\ Count
    /\ \/ /\ pc = "sleep" /\ kind = "wallet" /\ clients # <<>> /\ dirty
          /\ dirty' = FALSE
          /\ behind' = behind \cup {c \in open : shown[c] # state}
       \/ pc = "build" /\ UNCHANGED <<dirty, behind>>
    /\ pc' = "sleep"
    /\ UNCHANGED <<kind, state, last, clients, payload, next, target, dead, socketVars, shown,
                   unremoved>>

\* ws.send_text(payload) for the client under the iterator.
SendNext ==
    /\ pc = "send"
    /\ next <= Len(clients)
    /\ target' = clients[next]
    /\ next' = next + 1
    /\ pc' = "await"
    /\ UNCHANGED <<kind, state, dirty, last, clients, payload, dead, socketVars, shown,
                   behind, unremoved, events>>

\* The send returns, or raises because the socket has gone.
Sent ==
    /\ pc = "await"
    /\ pc' = "send"
    /\ IF target \in open
       THEN /\ shown' = [shown EXCEPT ![target] = payload]
            /\ behind' = behind \ {target}
            /\ UNCHANGED <<dead, unremoved>>
       ELSE /\ dead' = dead \cup {target}
            /\ unremoved' = unremoved \ {target}
            /\ UNCHANGED <<shown, behind>>
    /\ UNCHANGED <<kind, state, dirty, last, clients, payload, next, target, socketVars, events>>

\* wait_for gives up after a second.  Window 5: the client is taken for dead,
\* but its socket stays open.
TimesOut ==
    /\ Count
    /\ pc = "await"
    /\ target \in open
    /\ pc' = "send"
    /\ dead' = dead \cup {target}
    /\ behind' = behind \cup {target}
    /\ UNCHANGED <<kind, state, dirty, last, clients, payload, next, target, socketVars, shown,
                   unremoved>>

\* The iterator is at the end: for ws in dead: self.remove(ws).
EndPass ==
    /\ pc = "send"
    /\ next > Len(clients)
    /\ clients' = Without(dead)
    /\ behind' = behind \cup (dead \cap open)
    /\ pc' = "sleep"
    /\ UNCHANGED <<kind, state, dirty, last, payload, next, target, dead, socketVars, shown,
                   unremoved, events>>

BridgeNext ==
    \/ Change
    \/ \E c \in Clients : Join(c) \/ SendInitial(c) \/ Disconnect(c) \/ Leave(c)
    \/ Wake \/ Built \/ BuildRaises \/ SendNext \/ Sent \/ TimesOut \/ EndPass

BridgeSpec == BridgeInit /\ [][BridgeNext]_bridgeVars

\* The loop's sleeps end, the database and the threads answer or raise, a send
\* returns, raises or is cut off after a second, receive_text notices that its
\* socket has closed.  A build does not raise for ever (MaxEvents).
BridgeFairSpec ==
    /\ BridgeSpec
    /\ WF_bridgeVars(Wake) /\ WF_bridgeVars(Built)
    /\ WF_bridgeVars(SendNext) /\ WF_bridgeVars(Sent) /\ WF_bridgeVars(EndPass)
    /\ \A c \in Clients : WF_bridgeVars(SendInitial(c)) /\ WF_bridgeVars(Leave(c))

-------------------------------------------------------------------------------
BridgeTypeOK ==
    /\ kind \in Kinds
    /\ state \in States
    /\ dirty \in BOOLEAN
    /\ last \in States \cup {None}
    /\ clients \in Seq(Clients) /\ IsInjective(clients)
    /\ pc \in {"sleep", "build", "send", "await"}
    /\ payload \in States \cup {None}
    /\ next \in 1 .. MaxEvents + 1
    /\ target \in Clients \cup {None}
    /\ dead \subseteq joined /\ joined \subseteq Clients
    /\ open \subseteq joined /\ listening \subseteq joined /\ unremoved \subseteq joined \ open
    /\ initial \in [Clients -> States \cup {None}]
    /\ shown \in [Clients -> States \cup {None}]
    /\ behind \subseteq Clients
    /\ events \in 0 .. MaxEvents

(* The list of clients follows the open sockets, however pages come and go   *)
(* under the iterator and whatever raises: a socket that stays open is        *)
(* dropped only by a send that timed out, and one that has closed is listed   *)
(* only until its endpoint removes it or, if that ended without doing so      *)
(* (main.py:321-327 catches WebSocketDisconnect alone), until the end of the  *)
(* first push that tries it (dashboard_bridge.py:83-90).                      *)
ListIsOpen ==
    /\ \A c \in open \ behind : Contains(clients, c)
    /\ \A i \in 1 .. Len(clients) :
          LET c == clients[i]
          IN  c \in open \/ Served(c) \/ c \in unremoved \/ (pc # "sleep" /\ c \in dead)

(* "Real-time dashboard" (README.md:55): a browser that stays connected comes *)
(* to show the current state, unless one of the five windows has left it      *)
(* behind and nothing has been sent to it since.                              *)
EventuallyShown ==
    \A c \in Clients : []<>(c \notin open \/ c \in behind \/ shown[c] = state)

(* The same without the exception.                                            *)
AlwaysCatchesUp ==
    \A c \in Clients : []<>(c \notin open \/ shown[c] = state)

===============================================================================
