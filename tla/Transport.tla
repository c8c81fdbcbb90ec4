----------------------------- MODULE Transport ------------------------------
(***************************************************************************)
(* How the messages of one node reach another: the pools of connections    *)
(* (pkg/sender, and the menu's own in internal/adapters/cli), the client's *)
(* readLoop (pkg/tcpclient), and the hub that reads them (pkg/hub,         *)
(* pkg/tcp_server).  Every message is sent by a goroutine of its own, and  *)
(* they share the pool's one connection.  A connection is named after the  *)
(* goroutine that dialled it.                                              *)
(***************************************************************************)
EXTENDS Naturals, FiniteSets

CONSTANTS
    Msgs,      \* messages, and the goroutines that send them
    CliMsgs,   \* those that the operator sends from the menu
    LongMsgs,  \* those that do not fit into the buffer of the receiver's scanner
    Room,      \* capacity of hub.broadcast
    NoConn,    \* model value: the pool has no connection
    MaxFaults  \* bound: crashes of the receiver, connections cut

Kinds == {"crash", "cut"}
Pools == {"sender", "cli"}

ASSUME MsgsAssumption ==
    /\ IsFiniteSet(Msgs) /\ NoConn \notin Msgs
    /\ CliMsgs \subseteq Msgs /\ LongMsgs \subseteq Msgs
ASSUME BoundsAssumption == Room \in Nat \ {0} /\ MaxFaults \in [Kinds -> Nat]

VARIABLES
    up,       \* the receiver runs
    conns,    \* the connection in each pool
    link,     \* of each connection: not dialled, open, or broken
    closed,   \* connections whose readLoop has ended: IsClosed
    wire,     \* messages written to each connection and not yet read
    pc,       \* where each Send stands
    using,    \* the connection it got
    pump,     \* where the receiver's goroutines of a connection stand
    clients,  \* hub.clients
    queue,    \* hub.broadcast
    handled,  \* how often Dispatch was called with a message
    budget    \* what is left of MaxFaults

sendVars == <<conns, closed, pc, using>>
hubVars == <<pump, clients, queue, handled>>
vars == <<up, link, wire, sendVars, hubVars, budget>>

TypeOK ==
    /\ up \in BOOLEAN
    /\ conns \in [Pools -> Msgs \cup {NoConn}]
    /\ link \in [Msgs -> {"none", "open", "broken"}]
    /\ closed \in SUBSET Msgs
    /\ wire \in [Msgs -> SUBSET Msgs]
    /\ pc \in [Msgs -> {"idle", "got", "failing", "sent", "refused"}]
    /\ using \in [Msgs -> Msgs \cup {NoConn}]
    /\ pump \in [Msgs -> {"none", "serve", "read", "leave", "gone"}]
    /\ clients \in SUBSET Msgs
    /\ queue \in SUBSET Msgs
    /\ handled \in [Msgs -> Nat]
    /\ budget \in [Kinds -> Nat]

Init ==
    /\ up \in BOOLEAN
    /\ conns = [p \in Pools |-> NoConn]
    /\ link = [c \in Msgs |-> "none"]
    /\ closed = {}
    /\ wire = [c \in Msgs |-> {}]
    /\ pc = [m \in Msgs |-> "idle"]
    /\ using = [m \in Msgs |-> NoConn]
    /\ pump = [c \in Msgs |-> "none"]
    /\ clients = {} /\ queue = {}
    /\ handled = [m \in Msgs |-> 0]
    /\ budget = MaxFaults

Pool(m) == IF m \in CliMsgs THEN "cli" ELSE "sender"

-----------------------------------------------------------------------------
(* Send: the sender's side.                                                *)

\* Mutant: the test of IsClosed is turned round.
UsableIfClosed(c) == c # NoConn /\ c \in closed

Usable(c) == c # NoConn /\ c \notin closed

\* Under the pool's mutex, the dial included.  A dial may fail although the
\* receiver runs.
get(m) ==
    /\ pc[m] = "idle"
    /\ LET c == conns[Pool(m)] IN
       \/ /\ Usable(c)
          /\ pc' = [pc EXCEPT ![m] = "got"]
          /\ using' = [using EXCEPT ![m] = c]
          /\ UNCHANGED <<conns, link, pump>>
       \/ /\ ~Usable(c) /\ up
          /\ pc' = [pc EXCEPT ![m] = "got"]
          /\ using' = [using EXCEPT ![m] = m]
          /\ conns' = [conns EXCEPT ![Pool(m)] = m]
          /\ link' = [link EXCEPT ![m] = "open"]
          /\ pump' = [pump EXCEPT ![m] = "serve"]
       \/ /\ ~Usable(c)
          /\ pc' = [pc EXCEPT ![m] = "refused"]
          /\ UNCHANGED <<using, conns, link, pump>>
    /\ UNCHANGED <<up, closed, wire, clients, queue, handled, budget>>

\* Mutant: an error is reported although the line was written.
WriteReportsError(m) ==
    /\ pc[m] = "got"
    /\ pc' = [pc EXCEPT ![m] = "failing"]
    /\ wire' = [wire EXCEPT ![using[m]] = @ \cup {m}]
    /\ UNCHANGED <<up, conns, closed, using, link, hubVars, budget>>

\* The first writes to a broken connection may still succeed, and are lost.
Write(m) ==
    /\ pc[m] = "got"
    /\ IF link[using[m]] = "open"
       THEN /\ wire' = [wire EXCEPT ![using[m]] = @ \cup {m}]
            /\ pc' = [pc EXCEPT ![m] = "sent"]
       ELSE /\ \/ pc' = [pc EXCEPT ![m] = "sent"]
               \/ pc' = [pc EXCEPT ![m] = IF Pool(m) = "cli" THEN "refused" ELSE "failing"]
            /\ UNCHANGED wire
    /\ UNCHANGED <<up, conns, closed, using, link, hubVars, budget>>

\* "delete(p.conns, to.ID)": whichever connection is there by now.
Forget(m) ==
    /\ pc[m] = "failing"
    /\ pc' = [pc EXCEPT ![m] = "refused"]
    /\ conns' = [conns EXCEPT ![Pool(m)] = NoConn]
    /\ UNCHANGED <<up, closed, using, link, wire, hubVars, budget>>

readLoop(c) ==
    /\ link[c] = "broken" /\ c \notin closed
    /\ closed' = closed \cup {c}
    /\ UNCHANGED <<up, conns, pc, using, link, wire, hubVars, budget>>

-----------------------------------------------------------------------------
(* The hub: the receiver's side.                                           *)

Serve(c) ==
    /\ pump[c] = "serve"
    /\ pump' = [pump EXCEPT ![c] = "read"]
    /\ clients' = clients \cup {c}
    /\ UNCHANGED <<up, link, wire, sendVars, queue, handled, budget>>

\* The lines of a connection are read in order; Dispatch loses it anyway.
\* A line that is too long ends the loop, and so does the end of the connection.
\* A full channel makes the loop wait.
readPump(c) ==
    /\ pump[c] = "read"
    /\ \/ \E m \in wire[c] :
            /\ wire' = [wire EXCEPT ![c] = @ \ {m}]
            /\ \/ /\ m \in LongMsgs
                  /\ pump' = [pump EXCEPT ![c] = "leave"]
                  /\ UNCHANGED queue
               \/ /\ m \notin LongMsgs /\ Cardinality(queue) < Room
                  /\ queue' = queue \cup {m}
                  /\ UNCHANGED pump
       \/ /\ link[c] = "broken" /\ wire[c] = {}
          /\ pump' = [pump EXCEPT ![c] = "leave"]
          /\ UNCHANGED <<wire, queue>>
    /\ UNCHANGED <<up, link, sendVars, clients, handled, budget>>

\* Mutant: the hub has no case for unregister, and the pump waits for ever.
NeverUnregister(c) == FALSE /\ UNCHANGED vars

\* The deferred function: unregister, after which writePump ends too, and Close.
unregister(c) ==
    /\ pump[c] = "leave"
    /\ pump' = [pump EXCEPT ![c] = "gone"]
    /\ clients' = clients \ {c}
    /\ link' = [link EXCEPT ![c] = "broken"]
    /\ wire' = [wire EXCEPT ![c] = {}]
    /\ UNCHANGED <<up, sendVars, queue, handled, budget>>

\* "go h.dispatcher.Dispatch(msg)"
Run(m) ==
    /\ m \in queue
    /\ queue' = queue \ {m}
    /\ handled' = [handled EXCEPT ![m] = @ + 1]
    /\ UNCHANGED <<up, link, wire, sendVars, pump, clients, budget>>

-----------------------------------------------------------------------------
(* Faults.                                                                 *)

Spend(kind) == budget[kind] > 0 /\ budget' = [budget EXCEPT ![kind] = @ - 1]

\* What was written may or may not be there to read.
Cut(c) == \E left \in SUBSET wire[c] :
    /\ link[c] = "open" /\ Spend("cut")
    /\ link' = [link EXCEPT ![c] = "broken"]
    /\ wire' = [wire EXCEPT ![c] = left]
    /\ UNCHANGED <<up, sendVars, hubVars>>

Crash ==
    /\ up /\ Spend("crash")
    /\ up' = FALSE
    /\ link' = [c \in Msgs |-> IF link[c] = "open" THEN "broken" ELSE link[c]]
    /\ wire' = [c \in Msgs |-> {}]
    /\ pump' = [c \in Msgs |-> IF pump[c] = "none" THEN "none" ELSE "gone"]
    /\ clients' = {} /\ queue' = {}
    /\ UNCHANGED <<sendVars, handled>>

Start ==
    /\ ~up
    /\ up' = TRUE
    /\ UNCHANGED <<link, wire, sendVars, hubVars, budget>>

Next ==
    \/ \E m \in Msgs : get(m) \/ Write(m) \/ Forget(m) \/ Run(m)
    \/ \E c \in Msgs : readLoop(c) \/ Serve(c) \/ readPump(c) \/ unregister(c) \/ Cut(c)
    \/ Crash \/ Start

Spec == Init /\ [][Next]_vars

(***************************************************************************)
(* Fairness: goroutines run.  When a message is sent is free, and so are   *)
(* the faults and the restart.                                             *)
(***************************************************************************)
Fairness ==
    /\ \A m \in Msgs : WF_vars(Write(m) \/ Forget(m)) /\ WF_vars(Run(m))
    /\ \A c \in Msgs : /\ WF_vars(readLoop(c)) /\ WF_vars(Serve(c))
                       /\ WF_vars(readPump(c)) /\ WF_vars(unregister(c))

FairSpec == Spec /\ Fairness

-----------------------------------------------------------------------------
(* Properties.                                                             *)

\* The refinement mapping: what has become of a message.
Status(m) ==
    CASE handled[m] = 1 -> "handled"
      [] handled[m] > 1 -> "handled again"
      [] pc[m] \in {"idle", "got"} -> "unsent"
      [] pc[m] \in {"failing", "refused"} -> "refused"
      [] OTHER -> "sent"

Net == INSTANCE Network WITH Msgs <- Msgs, status <- [m \in Msgs |-> Status(m)]

\* The pool and the hub are a Network, whatever breaks: consensus.go:89 and
\* ticket_service.go:391 count on it that a send that failed is never answered.
ImplementsNetwork == Net!Spec

\* Connections of the sender's pool that nobody will use or close any more.
Leaked == {c \in Msgs \ CliMsgs : link[c] = "open" /\ conns["sender"] # c
                                  /\ \A m \in Msgs : pc[m] = "got" => using[m] # c}
Failures == {m \in Msgs : pc[m] = "refused" /\ using[m] # NoConn}

\* sender.go:57 says that a dead connection is removed.  A live one may be, if it
\* was dialled meanwhile; it is then open for ever.  Each costs a failed write.
LeaksAreFailures == Cardinality(Leaked) <= Cardinality(Failures)

\* hub.go:30: what was written to a connection is dispatched, unless the
\* connection breaks; then it leaves the hub.
WrittenIsHandled ==
    /\ \A m, c \in Msgs : m \in wire[c] ~> (handled[m] > 0 \/ link[c] = "broken")
    /\ \A c \in Msgs : link[c] = "broken" ~> c \notin clients

-----------------------------------------------------------------------------
(* The inductive invariant.                                                *)

\* A message is in one place only, and only after its Send has reported success.
InOnePlace(m) ==
    /\ \A c \in Msgs : m \in wire[c] => pc[m] = "sent" /\ using[m] = c
    /\ m \in queue => pc[m] = "sent" /\ \A c \in Msgs : m \notin wire[c]
    /\ handled[m] > 0 => /\ pc[m] = "sent" /\ handled[m] = 1
                         /\ m \notin queue /\ \A c \in Msgs : m \notin wire[c]

HasConn(m) ==
    /\ pc[m] = "idle" => link[m] = "none" /\ pump[m] = "none"
    /\ pc[m] \in {"got", "failing", "sent"} => using[m] \in Msgs

\* Dialled by the sender's pool, open, and not in it any more.
Outside == {c \in Msgs \ CliMsgs : link[c] = "open" /\ conns["sender"] # c}

IInv ==
    /\ TypeOK
    /\ \A m \in Msgs : InOnePlace(m) /\ HasConn(m)
    /\ \A m \in CliMsgs : pc[m] # "failing"
    /\ \A c \in closed : link[c] = "broken"
    /\ Cardinality(Outside) <= Cardinality(Failures)
=============================================================================
