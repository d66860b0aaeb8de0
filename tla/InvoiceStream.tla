------------------------------ MODULE InvoiceStream ------------------------------
(***************************************************************************)
(* How the updates of invoices reach the clients: a goroutine of           *)
(* broadcastUpdatedInvoice (internal/processor/base.go) offers an update   *)
(* to invoiceCn; the loop of load (internal/processor/main.go) takes one   *)
(* at a time and starts a goroutine for each channel of newInvoicesCns;    *)
(* InvoiceStatusStream (internal/handler/v1/invoice.go) has registered the *)
(* channel and sends to its client what it receives.                       *)
(*                                                                         *)
(* An update is its number in the order in which broadcastUpdatedInvoice   *)
(* was called.  Between two receptions the loop only starts goroutines: it *)
(* is assumed that no offer waits SEND_TIMEOUT for it, although a select   *)
(* of the code would drop the update then.                                 *)
(***************************************************************************)
EXTENDS Naturals, Sequences

CONSTANTS
    Streams,    \* calls of InvoiceStatusStream
    MaxUpdates, \* bound on the number of updates
    None        \* no update

ASSUME StreamAssumption == MaxUpdates \in Nat /\ None \notin Nat

VARIABLES
    issued,     \* how many updates there have been
    offering,   \* updates in a goroutine of broadcastUpdatedInvoice
    loop,       \* of load
    update,     \* the update it has taken
    unvisited,  \* the channels Range has yet to come to
    channels,   \* newInvoicesCns, by stream
    sending,    \* the goroutines started by Range: stream and update
    handler,    \* InvoiceStatusStream: not called yet, in select, in Send, returned
    received,   \* what it has received, in order
    ctxDone     \* the context of the processor is cancelled

distributor == <<loop, update, unvisited>>
clients     == <<channels, handler, received>>
vars        == <<issued, offering, distributor, clients, sending, ctxDone>>

Init ==
    /\ issued = 0
    /\ offering = {}
    /\ loop = "receive"
    /\ update = None
    /\ unvisited = {}
    /\ channels = {}
    /\ sending = {}
    /\ handler = [s \in Streams |-> "none"]
    /\ received = [s \in Streams |-> <<>>]
    /\ ctxDone = FALSE

-----------------------------------------------------------------------------
(* broadcastUpdatedInvoice                                                 *)

BroadcastUpdatedInvoice ==
    /\ issued < MaxUpdates
    /\ issued' = issued + 1
    /\ offering' = offering \cup {issued + 1}
    /\ UNCHANGED <<distributor, clients, sending, ctxDone>>

OfferCancelled(u) ==
    /\ ctxDone
    /\ u \in offering
    /\ offering' = offering \ {u}
    /\ UNCHANGED <<issued, distributor, clients, sending, ctxDone>>

-----------------------------------------------------------------------------
(* load                                                                    *)

\* Slip: invoiceCn is closed and yields no update.
ReceiveZeroValue(u) ==
    /\ loop = "receive"
    /\ u \in offering
    /\ offering' = offering \ {u}
    /\ loop' = "range"
    /\ update' = None
    /\ unvisited' = channels
    /\ UNCHANGED <<issued, clients, sending, ctxDone>>

\* The loop receives an update and begins to Range over newInvoicesCns.
ReceiveUpdate(u) ==
    /\ loop = "receive"
    /\ u \in offering
    /\ offering' = offering \ {u}
    /\ loop' = "range"
    /\ update' = u
    /\ unvisited' = channels
    /\ UNCHANGED <<issued, clients, sending, ctxDone>>

Rest(s) == unvisited \ {s}

\* A channel that has been deleted meanwhile is not visited.
VisitChannel(s) ==
    /\ loop = "range"
    /\ s \in unvisited
    /\ unvisited' = Rest(s)
    /\ sending' = IF s \in channels THEN sending \cup {<<s, update>>} ELSE sending
    /\ UNCHANGED <<issued, offering, loop, update, clients, ctxDone>>

EndRange ==
    /\ loop = "range"
    /\ unvisited = {}
    /\ loop' = "receive"
    /\ update' = None
    /\ UNCHANGED <<issued, offering, unvisited, clients, sending, ctxDone>>

LoopReturns ==
    /\ ctxDone
    /\ loop = "receive"
    /\ loop' = "returned"
    /\ UNCHANGED <<issued, offering, update, unvisited, clients, sending, ctxDone>>

\* The handler's select receives the update, and the handler calls Send.
HandlerReceives(s, u) ==
    /\ handler[s] = "select"
    /\ handler' = [handler EXCEPT ![s] = "send"]
    /\ received' = [received EXCEPT ![s] = Append(@, u)]
    /\ UNCHANGED channels

\* Slip: the channel stays in newInvoicesCns.
KeepChannel(s) == channels

DeleteChannel(s) == channels \ {s}

\* For SEND_TIMEOUT the handler has been in Send, or has returned.
SendTimesOut(s) ==
    /\ handler[s] \in {"send", "returned"}
    /\ channels' = DeleteChannel(s)
    /\ UNCHANGED <<handler, received>>

\* Slip: the goroutine sends in a loop.
StillSending(s, u) == sending

Sent(s, u) == sending \ {<<s, u>>}

\* The goroutine ends in one of the three cases of its select.
SendUpdate(s, u) ==
    /\ <<s, u>> \in sending
    /\ sending' = Sent(s, u)
    /\ \/ HandlerReceives(s, u)
       \/ SendTimesOut(s)
       \/ ctxDone /\ UNCHANGED clients
    /\ UNCHANGED <<issued, offering, distributor, ctxDone>>

-----------------------------------------------------------------------------
(* InvoiceStatusStream                                                     *)

\* NewInvoicesChan; a Range under way may come to the new channel or not.
NewInvoicesChan(s) ==
    /\ handler[s] = "none"
    /\ handler' = [handler EXCEPT ![s] = "select"]
    /\ channels' = channels \cup {s}
    /\ \/ UNCHANGED unvisited
       \/ loop = "range" /\ unvisited' = unvisited \cup {s}
    /\ UNCHANGED <<issued, offering, loop, update, received, sending, ctxDone>>

SendReturns(s) ==
    /\ handler[s] = "send"
    /\ handler' = [handler EXCEPT ![s] = "select"]
    /\ UNCHANGED <<issued, offering, distributor, channels, received, sending, ctxDone>>

\* Send fails or the client has closed the stream; the channel stays registered.
StreamEnds(s) ==
    /\ handler[s] \in {"send", "select"}
    /\ handler' = [handler EXCEPT ![s] = "returned"]
    /\ UNCHANGED <<issued, offering, distributor, channels, received, sending, ctxDone>>

\* App.Start cancels the context and waits in GracefulStop for the streams.
Shutdown ==
    /\ ~ctxDone
    /\ ctxDone' = TRUE
    /\ UNCHANGED <<issued, offering, distributor, clients, sending>>

Next ==
    \/ BroadcastUpdatedInvoice
    \/ \E u \in offering : OfferCancelled(u) \/ ReceiveUpdate(u)
    \/ \E s \in unvisited : VisitChannel(s)
    \/ EndRange \/ LoopReturns
    \/ \E m \in sending : SendUpdate(m[1], m[2])
    \/ \E s \in Streams : NewInvoicesChan(s) \/ SendReturns(s) \/ StreamEnds(s)
    \/ Shutdown

Spec == Init /\ [][Next]_vars

\* The goroutines run and the timers fire; nothing is promised of the clients.
Fairness ==
    /\ WF_vars(\E u \in offering : OfferCancelled(u) \/ ReceiveUpdate(u))
    /\ WF_vars(\E s \in unvisited : VisitChannel(s))
    /\ WF_vars(EndRange) /\ WF_vars(LoopReturns)
    /\ \A s \in Streams, u \in 1..MaxUpdates : WF_vars(SendUpdate(s, u))

FairSpec == Spec /\ Fairness

-----------------------------------------------------------------------------
(* Properties                                                              *)

Updates == 1..issued

\* The type of every variable.
TypeOK ==
    /\ issued \in Nat
    /\ offering \subseteq Updates
    /\ loop \in {"receive", "range", "returned"}
    /\ update \in Updates \cup {None}
    /\ loop = "range" => update \in Updates
    /\ unvisited \subseteq Streams
    /\ channels \subseteq Streams
    /\ sending \subseteq Streams \X Updates
    /\ handler \in [Streams -> {"none", "select", "send", "returned"}]
    /\ received \in [Streams -> Seq(Updates)]
    /\ ctxDone \in BOOLEAN

Got(s) == {received[s][n] : n \in 1..Len(received[s])}

\* A client is told of an update at most once, whatever registers, stalls, closes
\* and times out while the update is on its way.
AtMostOnce ==
    \A s \in Streams : \A m, n \in 1..Len(received[s]) :
        received[s][m] = received[s][n] => m = n

\* An update reaches every client registered when it is broadcast, or the client
\* has stalled or gone and its channel is dropped, unless the service stops.  No
\* client holds up another, and none that is gone keeps a goroutine for ever.  It is
\* about updates the loop takes within SEND_TIMEOUT, as it does unless the process
\* stands still for that long.
Delivered ==
    \A s \in Streams, u \in 1..MaxUpdates :
        u \in offering /\ s \in channels ~> u \in Got(s) \/ s \notin channels \/ ctxDone
=============================================================================
