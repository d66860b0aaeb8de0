--------------------------- MODULE InvoiceStreamProofs ---------------------------
(* Proofs about InvoiceStream, for every set of streams and any number of        *)
(* updates.                                                                      *)
EXTENDS InvoiceStream, TLAPS

\* Update u is on its way to stream s, or has reached it.
OnItsWay(s, u) == <<s, u>> \in sending
Reached(s, u)  == \E n \in 1..Len(received[s]) : received[s][n] = u

\* An update is in one place at a time: offered, with the loop and still to be
\* given to the stream, in one goroutine for the stream, or received.
OnePlace ==
    /\ update \notin offering
    /\ \A s \in Streams : \A u \in Updates :
          /\ OnItsWay(s, u) => u \notin offering /\ ~Reached(s, u)
          /\ Reached(s, u) => u \notin offering
          /\ (OnItsWay(s, u) \/ Reached(s, u)) /\ u = update => s \notin unvisited

\* Nothing is sent to a stream that has not been called.
NotCalled ==
    /\ loop # "range" => update = None
    /\ \A s \in Streams : handler[s] = "none" =>
          /\ s \notin channels /\ s \notin unvisited
          /\ received[s] = <<>>
          /\ \A u \in Updates : ~OnItsWay(s, u)

Inv == TypeOK /\ AtMostOnce /\ OnePlace /\ NotCalled

\* A goroutine that ends has delivered its update once, or not at all.
LEMMA SendStep ==
  ASSUME Inv, NEW s \in Streams, NEW u \in Updates, SendUpdate(s, u)
  PROVE  Inv'
<1> USE StreamAssumption DEF Updates
<1>1. /\ sending' = sending \ {<<s, u>>} /\ <<s, u>> \in sending
      /\ UNCHANGED <<issued, offering, loop, update, unvisited, ctxDone>>
  BY DEF SendUpdate, Sent, distributor
<1>2. CASE HandlerReceives(s, u)
  <2>1. /\ handler[s] = "select" /\ handler' = [handler EXCEPT ![s] = "send"]
        /\ received' = [received EXCEPT ![s] = Append(@, u)]
        /\ channels' = channels
    BY <1>2 DEF HandlerReceives
  <2>2. received[s] \in Seq(1..issued)
    BY DEF Inv, TypeOK
  <2>3. /\ received'[s] = Append(received[s], u)
        /\ \A t \in Streams \ {s} : received'[t] = received[t]
    BY <2>1 DEF Inv, TypeOK
  <2>4. /\ Len(received'[s]) = Len(received[s]) + 1
        /\ Len(received[s]) \in Nat
        /\ \A n \in 1..Len(received[s]) : received'[s][n] = received[s][n]
        /\ received'[s][Len(received[s]) + 1] = u
    BY <2>2, <2>3
  <2>5. \A t \in Streams : \A v \in 1..issued :
           Reached(t, v)' <=> Reached(t, v) \/ (t = s /\ v = u)
    <3>1. ASSUME NEW t \in Streams \ {s}, NEW v \in 1..issued
          PROVE  Reached(t, v)' <=> Reached(t, v)
      BY <2>3 DEF Reached
    <3>2. ASSUME NEW v \in 1..issued
          PROVE  Reached(s, v)' <=> Reached(s, v) \/ v = u
      <4>1. ASSUME Reached(s, v)' PROVE Reached(s, v) \/ v = u
        <5>1. PICK n \in 1..Len(received'[s]) : received'[s][n] = v
          BY <4>1 DEF Reached
        <5>2. n \in 1..Len(received[s]) \/ n = Len(received[s]) + 1
          BY <2>4, <5>1
        <5> QED BY <2>4, <5>1, <5>2 DEF Reached
      <4>2. ASSUME Reached(s, v) PROVE Reached(s, v)'
        BY <2>4, <4>2 DEF Reached
      <4>3. Reached(s, u)'
        <5>1. Len(received[s]) + 1 \in 1..Len(received'[s])
          BY <2>4
        <5> QED BY <2>4, <5>1 DEF Reached
      <4> QED BY <4>1, <4>2, <4>3
    <3> QED BY <3>1, <3>2
  <2>6. ~Reached(s, u) /\ u \notin offering /\ (u = update => s \notin unvisited)
    BY <1>1 DEF Inv, OnePlace, OnItsWay
  <2>7. TypeOK'
    <3>1. received' \in [Streams -> Seq(1..issued)]
      BY <2>1, <2>2 DEF Inv, TypeOK
    <3> QED BY <1>1, <2>1, <3>1 DEF Inv, TypeOK
  <2>8. AtMostOnce'
    <3> SUFFICES ASSUME NEW t \in Streams,
                        NEW m \in 1..Len(received'[t]), NEW n \in 1..Len(received'[t]),
                        received'[t][m] = received'[t][n]
                 PROVE  m = n
      BY DEF AtMostOnce
    <3>1. CASE t # s
      BY <2>3, <3>1 DEF Inv, AtMostOnce
    <3>2. CASE t = s
      <4>1. \A k \in 1..Len(received[s]) : received[s][k] # u
        BY <2>6 DEF Reached
      <4>2. /\ m \in 1..Len(received[s]) \/ m = Len(received[s]) + 1
            /\ n \in 1..Len(received[s]) \/ n = Len(received[s]) + 1
        BY <2>4, <3>2
      <4>3. CASE m \in 1..Len(received[s]) /\ n \in 1..Len(received[s])
        BY <2>4, <3>2, <4>3 DEF Inv, AtMostOnce
      <4> QED BY <2>4, <3>2, <4>1, <4>2, <4>3
    <3> QED BY <3>1, <3>2
  <2>9. OnePlace'
    BY <1>1, <2>5, <2>6 DEF Inv, OnePlace, OnItsWay
  <2>10. NotCalled'
    BY <1>1, <2>1, <2>3 DEF Inv, TypeOK, NotCalled, OnItsWay
  <2> QED BY <2>7, <2>8, <2>9, <2>10 DEF Inv
<1>3. CASE SendTimesOut(s) \/ (ctxDone /\ UNCHANGED clients)
  <2>1. /\ received' = received /\ handler' = handler
        /\ channels' \subseteq channels
    BY <1>3 DEF SendTimesOut, DeleteChannel, clients
  <2> QED
    BY <1>1, <2>1
       DEF Inv, TypeOK, AtMostOnce, OnePlace, NotCalled, OnItsWay, Reached
<1> QED BY <1>2, <1>3 DEF SendUpdate

\* Every step keeps Inv.
LEMMA InvStep ==
  ASSUME Inv, [Next]_vars
  PROVE  Inv'
<1> USE StreamAssumption DEF Updates, distributor, clients
<1>1. CASE BroadcastUpdatedInvoice
  <2>1. /\ issued' = issued + 1 /\ issued \in Nat
        /\ offering' = offering \cup {issued + 1}
        /\ UNCHANGED <<loop, update, unvisited, channels, handler, received,
                       sending, ctxDone>>
    BY <1>1 DEF BroadcastUpdatedInvoice, Inv, TypeOK
  <2>2. 1..issued \subseteq 1..(issued + 1)
    BY <2>1
  <2>3. TypeOK'
    <3>1. \A s \in Streams : received[s] \in Seq(1..(issued + 1))
      BY <2>2 DEF Inv, TypeOK
    <3>2. received' \in [Streams -> Seq(1..(issued + 1))]
      BY <2>1, <3>1 DEF Inv, TypeOK
    <3> QED BY <2>1, <2>2, <3>2 DEF Inv, TypeOK
  <2>4. \A s \in Streams : ~OnItsWay(s, issued + 1) /\ ~Reached(s, issued + 1)
    BY <2>1 DEF Inv, TypeOK, OnItsWay, Reached
  <2>5. OnePlace'
    BY <2>1, <2>4 DEF Inv, TypeOK, OnePlace, OnItsWay, Reached
  <2>6. AtMostOnce' /\ NotCalled'
    BY <2>1, <2>4 DEF Inv, AtMostOnce, NotCalled, OnItsWay
  <2> QED BY <2>3, <2>5, <2>6 DEF Inv
<1>2. ASSUME NEW u \in offering, OfferCancelled(u) PROVE Inv'
  BY <1>2
     DEF OfferCancelled, Inv, TypeOK, AtMostOnce, OnePlace, NotCalled, OnItsWay, Reached
<1>3. ASSUME NEW u \in offering, ReceiveUpdate(u) PROVE Inv'
  BY <1>3
     DEF ReceiveUpdate, Inv, TypeOK, AtMostOnce, OnePlace, NotCalled, OnItsWay, Reached
<1>4. ASSUME NEW s \in unvisited, VisitChannel(s) PROVE Inv'
  BY <1>4
     DEF VisitChannel, Rest, Inv, TypeOK, AtMostOnce, OnePlace, NotCalled, OnItsWay,
         Reached
<1>5. CASE EndRange
  <2>1. None \notin 1..issued /\ None \notin offering
    <3>1. offering \subseteq 1..issued /\ 1..issued \subseteq Nat
      BY DEF Inv, TypeOK
    <3> QED BY <3>1
  <2>2. /\ loop' = "receive" /\ update' = None
        /\ UNCHANGED <<issued, offering, unvisited, clients, sending, ctxDone>>
    BY <1>5 DEF EndRange
  <2>3. TypeOK' /\ AtMostOnce' /\ NotCalled'
    BY <2>2 DEF Inv, TypeOK, AtMostOnce, NotCalled, OnItsWay
  <2>4. OnePlace'
    BY <2>1, <2>2 DEF Inv, OnePlace, OnItsWay, Reached
  <2> QED BY <2>3, <2>4 DEF Inv
<1>6. CASE LoopReturns
  BY <1>6
     DEF LoopReturns, Inv, TypeOK, AtMostOnce, OnePlace, NotCalled, OnItsWay, Reached
<1>7. ASSUME NEW m \in sending, SendUpdate(m[1], m[2]) PROVE Inv'
  <2>1. m[1] \in Streams /\ m[2] \in Updates
    BY DEF Inv, TypeOK
  <2> QED BY <1>7, <2>1, SendStep
<1>8. ASSUME NEW s \in Streams, NewInvoicesChan(s) PROVE Inv'
  BY <1>8
     DEF NewInvoicesChan, Inv, TypeOK, AtMostOnce, OnePlace, NotCalled, OnItsWay, Reached
<1>9. ASSUME NEW s \in Streams, SendReturns(s) \/ StreamEnds(s) PROVE Inv'
  BY <1>9
     DEF SendReturns, StreamEnds, Inv, TypeOK, AtMostOnce, OnePlace, NotCalled,
         OnItsWay, Reached
<1>10. CASE Shutdown
  BY <1>10
     DEF Shutdown, Inv, TypeOK, AtMostOnce, OnePlace, NotCalled, OnItsWay, Reached
<1>11. CASE UNCHANGED vars
  BY <1>11
     DEF vars, Inv, TypeOK, AtMostOnce, OnePlace, NotCalled, OnItsWay, Reached
<1> QED
  BY <1>1, <1>2, <1>3, <1>4, <1>5, <1>6, <1>7, <1>8, <1>9, <1>10, <1>11 DEF Next

\* Inv holds in every state.
LEMMA StreamInvariant == Spec => []Inv
<1>1. Init => Inv
  <2> SUFFICES ASSUME Init PROVE Inv
    OBVIOUS
  <2> USE DEF Init, Updates
  <2>1. \A s \in Streams : received[s] = <<>> /\ Len(received[s]) = 0
    OBVIOUS
  <2>2. received \in [Streams -> Seq(1..0)]
    OBVIOUS
  <2>3. TypeOK
    BY <2>2 DEF TypeOK
  <2>4. AtMostOnce
    BY <2>1 DEF AtMostOnce
  <2>5. OnePlace /\ NotCalled
    BY <2>1 DEF OnePlace, NotCalled, OnItsWay, Reached
  <2> QED BY <2>3, <2>4, <2>5 DEF Inv
<1>2. Inv /\ [Next]_vars => Inv'
  BY InvStep
<1> QED BY <1>1, <1>2, PTL DEF Spec

\* The variables keep their types.
THEOREM StreamTypeCorrect == Spec => []TypeOK
<1>1. Inv => TypeOK
  BY DEF Inv
<1> QED BY <1>1, StreamInvariant, PTL

\* Whatever registers, stalls, closes and times out, no client is told twice.
THEOREM ToldAtMostOnce == Spec => []AtMostOnce
<1>1. Inv => AtMostOnce
  BY DEF Inv
<1> QED BY <1>1, StreamInvariant, PTL
=============================================================================
