----------------------------- MODULE AddressLease -----------------------------
(***************************************************************************)
(* What the processor promises about a crypto address: it is handed to one *)
(* invoice at a time.  The invoice is watched, one goroutine takes it off  *)
(* the watch list, that goroutine retires it and releases the address, and *)
(* only then is the address handed out again.  A failure may lose an       *)
(* address, never share it.                                                *)
(***************************************************************************)
CONSTANT Addresses

VARIABLE phase

Phases == {"free", "handed", "watched", "taken", "releasing", "lost"}

Init == phase = [a \in Addresses |-> "free"]

Move(a, from, to) ==
    /\ phase[a] = from
    /\ phase' = [phase EXCEPT ![a] = to]

Hand(a)    == Move(a, "free", "handed")
Watch(a)   == Move(a, "handed", "watched")
Take(a)    == Move(a, "watched", "taken")
Retire(a)  == Move(a, "taken", "releasing")
Release(a) == Move(a, "releasing", "free")
Lose(a)    == Move(a, "taken", "lost") \/ Move(a, "releasing", "lost")

Next == \E a \in Addresses :
           Hand(a) \/ Watch(a) \/ Take(a) \/ Retire(a) \/ Release(a) \/ Lose(a)

Spec == Init /\ [][Next]_phase
=============================================================================
